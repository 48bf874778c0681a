--------------------------- MODULE ThresholdsProofs ---------------------------
(***************************************************************************)
(* Theorems about Thresholds, for any pairs, scores, versions and runs;    *)
(* and about Material, for any marks, calls and tasks (in its own section).*)
(*                                                                         *)
(* Thresholds' inductive invariant says that the row a pair has under the  *)
(* current version, unless it was written late, is newer than its others   *)
(* (CurrentInv), because every write under way under that version is       *)
(* (NewestInv), and that a run leaves banded what is behind it (Progress). *)
(* With it, FoundInv says what a sync under the current version may find   *)
(* written meanwhile on the pairs it took for undecided.                   *)
(***************************************************************************)
EXTENDS Thresholds, Material, Extremes

\* Every row was written by now, and cites a version that is set.
Dated ==
  \A p \in Pairs, w \in Versions : rows[p][w] # NoRow => rows[p][w].at <= clock /\ w <= version

\* A run knows a version that is set, and writes at a time that has come.
Known ==
  /\ sync.v <= version /\ (sync.at = "TX" => sync.time \in 1..clock)
  /\ \A a \in Applies : apply[a].v <= version /\ (apply[a].at = "WRITE" => apply[a].time \in 1..clock)

\* The row of p under the current version, if any, bands it, and is its latest.
CurrentInv ==
  \A p \in Pairs \ late : rows[p][version] # NoRow =>
    /\ rows[p][version].decision = Banded(sim[p], bandOf[version])
    /\ \A w \in Versions \ {version} : rows[p][w] # NoRow => rows[p][w].at < rows[p][version].at

\* What is written under v at time t will be, if v is the current version.
Newest(v, t) ==
  v = version => \A p \in Pairs \ late, w \in Versions \ {v} : rows[p][w] # NoRow => rows[p][w].at < t

NewestInv ==
  /\ sync.at = "TX" => Newest(sync.v, sync.time)
  /\ \A a \in Applies : apply[a].at = "WRITE" => Newest(apply[a].v, apply[a].time)

IsBanded(p) == Decided(p) = Banded(sim[p], bandOf[version])

\* A run that bands by b as its version is current leaves behind pairs that are banded.
Progress(b) ==
  /\ \A p \in b.begun : p <= b.last
  /\ b.at = "DONE" => b.last < b.next
  /\ b.at = "WRITE" => b.next <= b.last
  /\ b.v = version => \A p \in b.begun \ late :
       /\ p < b.next => IsBanded(p)
       /\ b.at = "WRITE" /\ p \notin b.change /\ p < b.next + Chunk => IsBanded(p)

ProgressInv ==
  \A a \in Applies : apply[a].begun \subseteq stored /\ (apply[a].at # "NONE" => Progress(apply[a]))

IInv == TypeOK /\ Dated /\ Known /\ CurrentInv /\ NewestInv /\ ProgressInv

Syncs == [at : {"NONE", "READ", "FOUND", "TX"}, v : Versions, found : SUBSET Pairs, time : 0..MaxWrites]
Runs  == [at : {"NONE", "CHUNK", "WRITE", "DONE"}, v : Versions, next : 1..(MaxPair + Chunk), last : 0..MaxPair,
          change : SUBSET Pairs, time : 0..MaxWrites, begun : SUBSET Pairs, before : SUBSET Pairs]

-----------------------------------------------------------------------------
(* Constants.                                                              *)

\* Versions, pairs and times as the other facts use them.
LEMMA Constants ==
  /\ MaxPair \in Nat \ {0} /\ MaxVersions \in Nat /\ MaxWrites \in Nat /\ Chunk \in Nat \ {0}
  /\ Versions \subseteq Nat /\ 0 \in Versions /\ NoRow \notin Row
  /\ \A s, b : Banded(s, b) \in Decision
BY ConstantsOK DEF Versions, Row, Banded, Decision

\* Nothing is written yet.
LEMMA IInvInit == Init => IInv
<1> SUFFICES ASSUME Init PROVE IInv
  OBVIOUS
<1> USE DEF Init
<1>1. NoSync \in Syncs
  BY Constants DEF NoSync, Syncs
<1>2. NoApply \in Runs
  <2>1. 1 \in 1..(MaxPair + Chunk) /\ 0 \in 0..MaxPair /\ 0 \in 0..MaxWrites
    BY Constants
  <2> QED BY <2>1, Constants DEF NoApply, Runs
<1>3. TypeOK
  BY <1>1, <1>2, Constants, ConstantsOK DEF TypeOK, Syncs, Runs, Versions
<1>4. Dated /\ CurrentInv /\ NewestInv
  BY Constants DEF Dated, CurrentInv, NewestInv, NoSync, NoApply
<1>5. Known /\ ProgressInv
  BY DEF Known, ProgressInv, NoSync, NoApply
<1> QED BY <1>3, <1>4, <1>5 DEF IInv

-----------------------------------------------------------------------------
(* Writing.                                                                *)

\* The latest of a pair's rows is the one newer than all others.
LEMMA LatestIsNewest ==
  ASSUME NEW r, NEW v \in Versions, r \in [Versions -> Row \cup {NoRow}], r[v] # NoRow,
         \A w \in Versions \ {v} : r[w] # NoRow => r[w].at < r[v].at
  PROVE  (CHOOSE x \in {w \in Versions : r[w] # NoRow} :
            \A y \in {w \in Versions : r[w] # NoRow} : r[y].at <= r[x].at) = v
<1> DEFINE C == {w \in Versions : r[w] # NoRow}
<1>1. \A w \in C : r[w].at \in Int
  BY DEF Row
<1>2. v \in C /\ \A y \in C : r[y].at <= r[v].at
  BY <1>1
<1>3. ASSUME NEW x \in C, \A y \in C : r[y].at <= r[x].at PROVE x = v
  <2>1. r[v].at <= r[x].at /\ r[v].at \in Int /\ r[x].at \in Int
    BY <1>1, <1>2, <1>3
  <2>2. x # v => r[x].at < r[v].at
    BY <1>3
  <2> QED BY <2>1, <2>2
<1> QED BY <1>2, <1>3

\* Rows added under a version: those of the pairs not late stay in order, and banded.
LEMMA WriteStep ==
  ASSUME IInv, UNCHANGED <<sim, stored, version, bandOf, clock>>,
         NEW ps \in SUBSET Pairs, NEW v \in Versions, NEW t \in 1..clock, v <= version, Newest(v, t),
         \A p \in ps : rows[p][v] = NoRow,
         Write(ps, v, [p \in Pairs |-> Banded(sim[p], bandOf[v])], t)
  PROVE  /\ rows' \in [Pairs -> [Versions -> Row \cup {NoRow}]] /\ late' \subseteq Pairs /\ late \subseteq late'
         /\ Dated' /\ CurrentInv'
         /\ \A p \in Pairs \ late' : IsBanded(p) \/ p \in ps => IsBanded(p)'
         /\ \A p \in Pairs \ late', w \in Versions \ {version} : rows'[p][w] = rows[p][w]
<1>1. /\ rows \in [Pairs -> [Versions -> Row \cup {NoRow}]] /\ late \subseteq Pairs
      /\ version \in Versions /\ clock \in 0..MaxWrites /\ clock \in Nat /\ MaxWrites \in Nat
  BY Constants DEF IInv, TypeOK
<1>2. \A p \in Pairs : [decision |-> Banded(sim[p], bandOf[v]), at |-> t] \in Row
  BY <1>1, Constants DEF Row
<1>3. /\ \A p \in ps : rows'[p] = [rows[p] EXCEPT ![v] = [decision |-> Banded(sim[p], bandOf[v]), at |-> t]]
      /\ \A p \in Pairs \ ps : rows'[p] = rows[p]
      /\ rows' = [p \in Pairs |-> rows'[p]]
  BY DEF Write
<1>4. /\ \A p \in ps : /\ rows'[p] \in [Versions -> Row \cup {NoRow}]
                       /\ rows'[p][v] = [decision |-> Banded(sim[p], bandOf[v]), at |-> t]
                       /\ \A w \in Versions \ {v} : rows'[p][w] = rows[p][w]
      /\ rows' \in [Pairs -> [Versions -> Row \cup {NoRow}]]
  <2>1. ASSUME NEW p \in ps
        PROVE  /\ rows'[p] \in [Versions -> Row \cup {NoRow}]
               /\ rows'[p][v] = [decision |-> Banded(sim[p], bandOf[v]), at |-> t]
               /\ \A w \in Versions \ {v} : rows'[p][w] = rows[p][w]
    <3>1. rows[p] \in [Versions -> Row \cup {NoRow}]
      BY <1>1
    <3> QED BY <1>2, <1>3, <3>1
  <2>2. \A p \in Pairs : rows'[p] \in [Versions -> Row \cup {NoRow}]
    BY <1>1, <1>3, <2>1
  <2> QED BY <1>3, <2>1, <2>2
<1>5. late' \subseteq Pairs /\ late \subseteq late' /\ (v # version => ps \subseteq late')
  BY <1>1 DEF Write
<1>6. Dated'
  <2> SUFFICES ASSUME NEW p \in Pairs, NEW w \in Versions, rows'[p][w] # NoRow
               PROVE  rows'[p][w].at <= clock /\ w <= version
    BY DEF Dated
  <2>1. CASE p \in ps /\ w = v
    <3>1. rows'[p][w] = [decision |-> Banded(sim[p], bandOf[v]), at |-> t]
      BY <1>4, <2>1
    <3>2. rows'[p][w].at = t /\ t <= clock
      BY <1>1, <3>1
    <3> QED BY <2>1, <3>2
  <2>2. CASE ~(p \in ps /\ w = v)
    <3>1. rows'[p][w] = rows[p][w]
      BY <1>3, <1>4, <2>2
    <3> QED BY <3>1 DEF IInv, Dated
  <2> QED BY <2>1, <2>2
<1>7. \A p \in Pairs \ late', w \in Versions \ {version} : rows'[p][w] = rows[p][w]
  BY <1>3, <1>4, <1>5
<1>8. ASSUME NEW p \in Pairs \ late', p \in ps
      PROVE  /\ v = version /\ rows'[p][v] # NoRow
             /\ rows'[p][v].decision = Banded(sim[p], bandOf[v])
             /\ \A w \in Versions \ {v} : rows'[p][w] # NoRow => rows'[p][w].at < rows'[p][v].at
  <2>1. v = version /\ p \in Pairs \ late
    BY <1>5, <1>8
  <2>2. rows'[p][v] = [decision |-> Banded(sim[p], bandOf[v]), at |-> t]
    BY <1>4, <1>8
  <2>3. rows'[p][v] # NoRow
    BY <1>2, <2>2, Constants
  <2>4. \A w \in Versions \ {v} : rows'[p][w] # NoRow => rows'[p][w].at < t
    BY <1>7, <2>1 DEF Newest
  <2> QED BY <2>1, <2>2, <2>3, <2>4
<1>9. CurrentInv'
  <2> SUFFICES ASSUME NEW p \in Pairs \ late', rows'[p][version] # NoRow
               PROVE  /\ rows'[p][version].decision = Banded(sim[p], bandOf[version])
                      /\ \A w \in Versions \ {version} : rows'[p][w] # NoRow => rows'[p][w].at < rows'[p][version].at
    BY DEF CurrentInv, Banded
  <2>1. CASE p \in ps
    BY <1>8, <2>1
  <2>2. CASE p \notin ps
    <3>1. rows'[p] = rows[p] /\ p \in Pairs \ late
      BY <1>3, <1>5, <2>2
    <3> QED BY <3>1 DEF IInv, CurrentInv
  <2> QED BY <2>1, <2>2
<1>10. ASSUME NEW p \in Pairs \ late', IsBanded(p) \/ p \in ps PROVE IsBanded(p)'
  <2>1. CASE p \in ps
    <3>1. PICK r : r = rows'[p]
      OBVIOUS
    <3>2. r \in [Versions -> Row \cup {NoRow}]
      BY <1>4, <2>1, <3>1
    <3>3. v = version /\ r[v] # NoRow /\ r[v].decision = Banded(sim[p], bandOf[v])
          /\ \A w \in Versions \ {v} : r[w] # NoRow => r[w].at < r[v].at
      BY <1>8, <2>1, <3>1
    <3>4. (CHOOSE x \in {w \in Versions : r[w] # NoRow} :
             \A y \in {w \in Versions : r[w] # NoRow} : r[y].at <= r[x].at) = v
      BY <3>2, <3>3, LatestIsNewest
    <3>5. {w \in Versions : r[w] # NoRow} # {}
      BY <3>3
    <3>6. Decided(p)' = r[v].decision
      BY <3>1, <3>4, <3>5 DEF Decided, Latest, Cited
    <3> QED BY <3>3, <3>6 DEF IsBanded, Banded
  <2>2. CASE p \notin ps
    <3>1. rows'[p] = rows[p]
      BY <1>3, <2>2
    <3>2. Decided(p)' = Decided(p)
      BY <3>1 DEF Decided, Latest, Cited
    <3> QED BY <1>10, <2>2, <3>2 DEF IsBanded, Banded
  <2> QED BY <2>1, <2>2
<1> QED BY <1>4, <1>5, <1>6, <1>7, <1>9, <1>10

-----------------------------------------------------------------------------
(* The steps.                                                              *)

\* A run that reads or writes on keeps what is behind it, as long as the pairs not late stay banded.
LEMMA ProgressKept ==
  ASSUME IInv, UNCHANGED <<sim, version, bandOf>>, late \subseteq late', late' \subseteq Pairs,
         \A p \in Pairs \ late' : IsBanded(p) => IsBanded(p)',
         NEW a \in Applies, apply[a].at # "NONE"
  PROVE  /\ \A p \in apply[a].begun : p <= apply[a].last
         /\ apply[a].at = "DONE" => apply[a].last < apply[a].next
         /\ apply[a].at = "WRITE" => apply[a].next <= apply[a].last
         /\ apply[a].v = version => \A p \in apply[a].begun \ late' :
              /\ p < apply[a].next => IsBanded(p)'
              /\ apply[a].at = "WRITE" /\ p \notin apply[a].change /\ p < apply[a].next + Chunk => IsBanded(p)'
<1>1. Progress(apply[a]) /\ apply[a].begun \subseteq stored /\ stored \subseteq Pairs
  BY DEF IInv, ProgressInv, TypeOK
<1>2. \A p \in apply[a].begun \ late' : p \in Pairs \ late' /\ p \in apply[a].begun \ late
  BY <1>1
<1> QED BY <1>1, <1>2 DEF Progress

\* What a sync, or a run of apply, that has just read is to know, with the time and the store as
\* they are by then.
SyncOK(s, now) ==
  /\ s.v <= version
  /\ s.at = "TX" => s.time \in 1..now /\ Newest(s.v, s.time)

RunOK(b, now, ids) ==
  /\ b.v <= version /\ b.begun \subseteq ids
  /\ b.at = "WRITE" => b.time \in 1..now /\ Newest(b.v, b.time)
  /\ b.at # "NONE" => Progress(b)

\* A step that writes no row and sets no version, whatever the runs read.
LEMMA QuietStep ==
  ASSUME IInv, UNCHANGED <<sim, version, bandOf, rows, late>>,
         stored \subseteq stored', stored' \subseteq Pairs, clock' \in 0..MaxWrites, clock <= clock',
         sync' \in Syncs, apply' \in [Applies -> Runs],
         sync' = sync \/ SyncOK(sync', clock'),
         \A a \in Applies : apply'[a] = apply[a] \/ RunOK(apply'[a], clock', stored')
  PROVE  IInv'
<1>1. clock \in Nat /\ clock' \in Nat
  BY Constants DEF IInv, TypeOK
<1>2. TypeOK'
  BY DEF IInv, TypeOK, Syncs, Runs
<1>3. Dated'
  <2> SUFFICES ASSUME NEW p \in Pairs, NEW w \in Versions, rows[p][w] # NoRow
               PROVE  rows[p][w].at <= clock' /\ w <= version
    BY DEF Dated
  <2>1. rows[p][w].at <= clock /\ w <= version /\ rows[p][w].at \in Nat
    BY DEF IInv, Dated, TypeOK, Row
  <2> QED BY <1>1, <2>1
<1>4. \A t \in 1..clock : t \in 1..clock'
  BY <1>1
<1>5. Known'
  <2>1. sync'.v <= version /\ (sync'.at = "TX" => sync'.time \in 1..clock')
    BY <1>4 DEF IInv, Known, SyncOK
  <2>2. \A a \in Applies : apply'[a].v <= version /\ (apply'[a].at = "WRITE" => apply'[a].time \in 1..clock')
    BY <1>4 DEF IInv, Known, RunOK
  <2> QED BY <2>1, <2>2 DEF Known
<1>6. CurrentInv'
  BY DEF IInv, CurrentInv, Banded
<1>7. \A v, t : Newest(v, t)' <=> Newest(v, t)
  BY DEF Newest
<1>8. NewestInv'
  <2>1. sync'.at = "TX" => Newest(sync'.v, sync'.time)
    BY DEF IInv, NewestInv, SyncOK
  <2>2. \A a \in Applies : apply'[a].at = "WRITE" => Newest(apply'[a].v, apply'[a].time)
    BY DEF IInv, NewestInv, RunOK
  <2> QED BY <2>1, <2>2 DEF NewestInv, Newest
<1>9. \A p : IsBanded(p)' <=> IsBanded(p)
  BY DEF IsBanded, Decided, Latest, Cited, Banded
<1>10. ProgressInv'
  <2> SUFFICES ASSUME NEW a \in Applies
               PROVE  apply'[a].begun \subseteq stored' /\ (apply'[a].at # "NONE" => Progress(apply[a])')
    BY DEF ProgressInv
  <2>1. apply'[a].begun \subseteq stored'
    BY DEF IInv, ProgressInv, RunOK
  <2>2. ASSUME apply'[a].at # "NONE" PROVE Progress(apply'[a])
    BY <2>2 DEF IInv, ProgressInv, RunOK
  <2>3. ASSUME Progress(apply'[a]) PROVE Progress(apply[a])'
    BY <1>9, <2>3 DEF Progress
  <2> QED BY <2>1, <2>2, <2>3
<1> QED BY <1>2, <1>3, <1>5, <1>6, <1>8, <1>10 DEF IInv

\* A pair's latest row is one of its rows.
LEMMA DecidedTyped ==
  ASSUME TypeOK, NEW p \in Pairs
  PROVE  Decided(p) \in Decision
<1>1. CASE Cited(p) = {}
  BY <1>1 DEF Decided, Decision
<1>2. CASE Cited(p) # {}
  <2> DEFINE C == Cited(p)
             f == [w \in C |-> rows[p][w].at]
             S == {f[w] : w \in C}
  <2>1. C \subseteq Versions /\ \A w \in C : rows[p][w] \in Row /\ rows[p][w].at \in Int
    BY DEF TypeOK, Cited, Row
  <2>2. IsFiniteSet(Versions)
    BY Constants, FS_Interval DEF Versions
  <2>3. IsFiniteSet(C)
    BY <2>1, <2>2, FS_Subset
  <2>4. IsFiniteSet(S)
    <3>1. DOMAIN f = C
      OBVIOUS
    <3> HIDE DEF f, C
    <3> QED BY <2>3, <3>1, FiniteImage
  <2>5. S \in SUBSET Int /\ S # {}
    BY <1>2, <2>1
  <2>6. PICK m \in S : \A y \in S : y <= m
    <3> HIDE DEF S
    <3> QED BY <2>4, <2>5, MaxIsGreatest
  <2>7. PICK v \in C : m = rows[p][v].at
    OBVIOUS
  <2>8. \A w \in C : rows[p][w].at <= rows[p][v].at
    BY <2>6, <2>7
  <2>9. Latest(p) \in C
    BY <2>8 DEF Latest
  <2> QED BY <1>2, <2>1, <2>9 DEF Decided, Row
<1> QED BY <1>1, <1>2

\* A pair that is not late and has a row under the current version is as that one bands it.
LEMMA CurrentIsBanded ==
  ASSUME IInv, NEW p \in Pairs \ late, rows[p][version] # NoRow
  PROVE  IsBanded(p)
<1>1. version \in Versions /\ rows[p] \in [Versions -> Row \cup {NoRow}]
  BY DEF IInv, TypeOK
<1>2. /\ rows[p][version].decision = Banded(sim[p], bandOf[version])
      /\ \A w \in Versions \ {version} : rows[p][w] # NoRow => rows[p][w].at < rows[p][version].at
  BY DEF IInv, CurrentInv
<1>3. (CHOOSE x \in {w \in Versions : rows[p][w] # NoRow} :
         \A y \in {w \in Versions : rows[p][w] # NoRow} : rows[p][y].at <= rows[p][x].at) = version
  BY <1>1, <1>2, LatestIsNewest
<1>4. Cited(p) # {} /\ Latest(p) = version
  BY <1>1, <1>3 DEF Cited, Latest
<1> QED BY <1>2, <1>4 DEF IsBanded, Decided

\* A sync that reads its version, finds pairs, begins its transaction or ends.
LEMMA SyncStep ==
  ASSUME IInv, CurrentBand \/ RecordBegins \/ SyncEnds \/ \E ps \in SUBSET Pairs : RunBandFinds(ps)
  PROVE  IInv'
<1>1. sync \in Syncs /\ apply \in [Applies -> Runs] /\ version \in Versions /\ stored \subseteq Pairs
      /\ clock \in 0..MaxWrites /\ clock \in Nat /\ MaxWrites \in Nat /\ version \in Nat
  BY Constants DEF IInv, TypeOK, Syncs, Runs
<1>2. CASE CurrentBand
  <2>1. PICK s : s = [sync EXCEPT !.at = "READ", !.v = version]
    OBVIOUS
  <2>2. s \in Syncs /\ s.at = "READ" /\ s.v = version
    BY <1>1, <2>1 DEF Syncs
  <2>3. sync' = s /\ UNCHANGED <<sim, stored, version, bandOf, rows, clock, apply, late>>
    BY <1>2, <2>1 DEF CurrentBand
  <2>4. SyncOK(s, clock)
    BY <1>1, <2>2 DEF SyncOK
  <2> QED BY <1>1, <2>2, <2>3, <2>4, QuietStep
<1>3. CASE RecordBegins
  <2>1. PICK s : s = [sync EXCEPT !.at = "TX", !.time = clock + 1]
    OBVIOUS
  <2>2. clock' = clock + 1 /\ clock' \in 1..MaxWrites /\ clock' \in 0..MaxWrites /\ clock <= clock'
    BY <1>1, <1>3 DEF RecordBegins, Tick
  <2>3. s \in Syncs /\ s.at = "TX" /\ s.v = sync.v /\ s.time = clock'
    BY <1>1, <2>1, <2>2 DEF Syncs
  <2>4. sync' = s /\ UNCHANGED <<sim, stored, version, bandOf, rows, apply, late>>
    BY <1>3, <2>1, <2>2 DEF RecordBegins
  <2>5. Newest(s.v, s.time)
    <3> SUFFICES ASSUME NEW p \in Pairs, NEW w \in Versions, rows[p][w] # NoRow PROVE rows[p][w].at < clock'
      BY <2>3 DEF Newest
    <3>1. rows[p][w].at <= clock /\ rows[p][w].at \in Nat
      BY DEF IInv, Dated, TypeOK, Row
    <3> QED BY <1>1, <2>2, <3>1
  <2>6. s.v <= version /\ clock' \in 1..clock'
    BY <2>2, <2>3 DEF IInv, Known
  <2>7. SyncOK(s, clock')
    BY <2>3, <2>5, <2>6 DEF SyncOK
  <2> QED BY <1>1, <2>2, <2>3, <2>4, <2>7, QuietStep
<1>4. CASE SyncEnds
  <2>1. NoSync \in Syncs /\ NoSync.at = "NONE" /\ NoSync.v = 0
    BY Constants DEF NoSync, Syncs
  <2>2. sync' = NoSync /\ UNCHANGED <<sim, stored, version, bandOf, rows, clock, apply, late>>
    BY <1>4 DEF SyncEnds
  <2>3. SyncOK(NoSync, clock)
    BY <1>1, <2>1 DEF SyncOK
  <2> QED BY <1>1, <2>1, <2>2, <2>3, QuietStep
<1>5. CASE \E ps \in SUBSET Pairs : RunBandFinds(ps)
  <2>1. PICK ps \in SUBSET Pairs : RunBandFinds(ps)
    BY <1>5
  <2>2. PICK s : s = [sync EXCEPT !.at = "FOUND", !.found = ps]
    OBVIOUS
  <2>3. s \in Syncs /\ s.at = "FOUND" /\ s.v = sync.v
    BY <1>1, <2>2 DEF Syncs
  <2>4. sync' = s /\ UNCHANGED <<sim, stored, version, bandOf, rows, clock, apply, late>>
    BY <2>1, <2>2 DEF RunBandFinds
  <2>5. SyncOK(s, clock)
    BY <2>3 DEF SyncOK, IInv, Known
  <2> QED BY <1>1, <2>3, <2>4, <2>5, QuietStep
<1> QED BY <1>2, <1>3, <1>4, <1>5

\* A pair is scored and stored, undecided.
LEMMA StoreStep ==
  ASSUME IInv, NEW p \in Pairs, StoreScore(p)
  PROVE  IInv'
<1>1. sync \in Syncs /\ apply \in [Applies -> Runs] /\ stored \subseteq Pairs /\ clock \in 0..MaxWrites
      /\ clock \in Nat
  BY Constants DEF IInv, TypeOK, Syncs, Runs
<1>2. stored' = stored \cup {p} /\ UNCHANGED <<sim, version, bandOf, rows, clock, sync, apply, late>>
  BY DEF StoreScore
<1> QED BY <1>1, <1>2, QuietStep

\* An apply that starts, reads a chunk, ends or fails.
LEMMA ApplyStep ==
  ASSUME IInv, NEW a \in Applies,
         (\E allowDefault \in BOOLEAN : ApplyStarts(a, allowDefault)) \/ ApplyReads(a) \/ ApplyEnds(a) \/ ApplyFails(a)
  PROVE  IInv'
<1>1. sync \in Syncs /\ apply \in [Applies -> Runs] /\ version \in Versions /\ stored \subseteq Pairs
      /\ late \subseteq Pairs /\ clock \in 0..MaxWrites /\ clock \in Nat /\ MaxWrites \in Nat /\ version \in Nat
  BY Constants DEF IInv, TypeOK, Syncs, Runs
<1>2. MaxPair \in Nat \ {0} /\ Chunk \in Nat \ {0}
  BY Constants
<1>3. apply[a] \in Runs /\ apply[a].v <= version
  BY <1>1 DEF IInv, Known
<1>4. apply[a].at # "NONE" => Progress(apply[a]) /\ apply[a].begun \subseteq stored
  BY DEF IInv, ProgressInv
<1>5. ASSUME NEW b \in Runs, apply' = [apply EXCEPT ![a] = b], RunOK(b, clock', stored),
             UNCHANGED <<sim, stored, version, bandOf, rows, sync, late>>, clock' \in 0..MaxWrites, clock <= clock'
      PROVE  IInv'
  <2>1. apply' \in [Applies -> Runs] /\ apply'[a] = b /\ \A c \in Applies : c # a => apply'[c] = apply[c]
    BY <1>1, <1>5
  <2> QED BY <1>1, <1>5, <2>1, QuietStep
<1>6. CASE \E allowDefault \in BOOLEAN : ApplyStarts(a, allowDefault)
  <2>1. PICK allowDefault \in BOOLEAN : ApplyStarts(a, allowDefault)
    BY <1>6
  <2>2. stored # {} /\ stored \in SUBSET Int /\ IsFiniteSet(stored)
    <3>1. IsFiniteSet(Pairs) /\ Pairs \subseteq Int
      BY <1>2, FS_Interval DEF Pairs
    <3> QED BY <1>1, <2>1, <3>1, FS_Subset DEF ApplyStarts
  <2>3. PICK lo, hi : /\ lo = Min(stored) /\ hi = Max(stored) /\ lo \in stored /\ hi \in stored
                      /\ \A p \in stored : lo <= p /\ p <= hi
    BY <2>2, MinIsLeast, MaxIsGreatest
  <2>4. lo \in 1..(MaxPair + Chunk) /\ hi \in 0..MaxPair
    BY <1>1, <1>2, <2>3 DEF Pairs
  <2>5. NoApply \in Runs
    <3>1. 1 \in 1..(MaxPair + Chunk) /\ 0 \in 0..MaxPair /\ 0 \in 0..MaxWrites
      BY <1>1, <1>2
    <3> QED BY <3>1, Constants DEF NoApply, Runs
  <2>6. PICK b : b = [NoApply EXCEPT !.at = "CHUNK", !.v = version, !.next = lo, !.last = hi, !.begun = stored,
                                     !.before = late]
    OBVIOUS
  <2>7. b \in Runs /\ b.at = "CHUNK" /\ b.v = version /\ b.next = lo /\ b.last = hi /\ b.begun = stored
    BY <1>1, <2>4, <2>5, <2>6 DEF Runs
  <2>8. Progress(b)
    <3>1. \A p \in stored : ~(p < lo)
      BY <2>2, <2>3
    <3> QED BY <2>3, <2>7, <3>1 DEF Progress
  <2>9. RunOK(b, clock, stored)
    BY <1>1, <2>7, <2>8 DEF RunOK
  <2>10. apply' = [apply EXCEPT ![a] = b] /\ UNCHANGED <<sim, stored, version, bandOf, rows, clock, sync, late>>
    BY <2>1, <2>3, <2>6 DEF ApplyStarts
  <2>11. clock' = clock /\ clock' \in 0..MaxWrites /\ clock <= clock' /\ RunOK(b, clock', stored)
    BY <1>1, <2>9, <2>10
  <2> QED BY <1>5, <2>7, <2>10, <2>11
<1>7. CASE ApplyReads(a)
  <2>1. /\ clock' = clock + 1 /\ clock' \in 0..MaxWrites /\ clock <= clock' /\ clock' \in 1..clock'
        /\ apply[a].at = "CHUNK" /\ apply[a].next <= apply[a].last
        /\ UNCHANGED <<sim, stored, version, bandOf, rows, sync, late>>
    BY <1>1, <1>7 DEF ApplyReads, Tick, More
  <2>2. PICK ps \in SUBSET Pairs : ps = {p \in InChunk(a) : Changed(p, bandOf[apply[a].v])}
    BY <1>1 DEF InChunk
  <2>3. PICK b : b = [apply[a] EXCEPT !.at = "WRITE", !.time = clock', !.change = ps]
    OBVIOUS
  <2>4. apply' = [apply EXCEPT ![a] = b]
    <3>1. apply' = [apply EXCEPT ![a].at = "WRITE", ![a].time = clock', ![a].change = ps]
      BY <1>7, <2>2 DEF ApplyReads
    <3> QED BY <1>1, <2>3, <3>1
  <2>5. /\ b \in Runs /\ b.at = "WRITE" /\ b.time = clock' /\ b.change = ps
        /\ b.v = apply[a].v /\ b.next = apply[a].next /\ b.last = apply[a].last /\ b.begun = apply[a].begun
    BY <1>3, <2>1, <2>3 DEF Runs
  <2>6. Newest(b.v, b.time)
    <3> SUFFICES ASSUME NEW p \in Pairs, NEW w \in Versions, rows[p][w] # NoRow PROVE rows[p][w].at < clock'
      BY <2>5 DEF Newest
    <3>1. rows[p][w].at <= clock /\ rows[p][w].at \in Nat
      BY DEF IInv, Dated, TypeOK, Row
    <3> QED BY <1>1, <2>1, <3>1
  <2>7. ASSUME apply[a].v = version, NEW p \in apply[a].begun \ late, p \notin ps, p < apply[a].next + Chunk
        PROVE  IsBanded(p)
    <3>1. CASE p < apply[a].next
      BY <1>4, <2>1, <2>7, <3>1 DEF Progress
    <3>2. CASE ~(p < apply[a].next)
      <4>1. p \in Pairs /\ p \in stored /\ p >= apply[a].next
        BY <1>1, <1>3, <1>4, <2>1, <3>2 DEF Pairs, Runs
      <4>2. ~Changed(p, bandOf[version])
        BY <2>2, <2>7, <4>1 DEF InChunk
      <4>3. Decided(p) \in Decision
        BY <4>1, DecidedTyped DEF IInv
      <4>4. Decided(p) = Banded(sim[p], bandOf[version])
        BY <4>2, <4>3 DEF Changed, Decision
      <4> QED BY <4>4 DEF IsBanded
    <3> QED BY <3>1, <3>2
  <2>8. Progress(b)
    <3>1. /\ \A p \in apply[a].begun : p <= apply[a].last
          /\ apply[a].v = version => \A p \in apply[a].begun \ late : p < apply[a].next => IsBanded(p)
      BY <1>4, <2>1 DEF Progress
    <3> QED BY <2>1, <2>5, <2>7, <3>1 DEF Progress
  <2>9. RunOK(b, clock', stored)
    BY <1>3, <1>4, <2>1, <2>5, <2>6, <2>8 DEF RunOK
  <2> QED BY <1>5, <2>1, <2>4, <2>5, <2>9
<1>8. CASE ApplyEnds(a)
  <2>1. PICK b : b = [apply[a] EXCEPT !.at = "DONE"]
    OBVIOUS
  <2>2. /\ b \in Runs /\ b.at = "DONE"
        /\ b.v = apply[a].v /\ b.next = apply[a].next /\ b.last = apply[a].last /\ b.begun = apply[a].begun
    BY <1>3, <2>1 DEF Runs
  <2>3. apply[a].at = "CHUNK" /\ ~(apply[a].next <= apply[a].last)
    BY <1>8 DEF ApplyEnds, More
  <2>4. apply[a].last < apply[a].next
    BY <1>2, <1>3, <2>3 DEF Runs
  <2>5. Progress(b)
    BY <1>4, <2>2, <2>3, <2>4 DEF Progress
  <2>6. RunOK(b, clock, stored)
    BY <1>3, <1>4, <2>2, <2>3, <2>5 DEF RunOK
  <2>7. apply' = [apply EXCEPT ![a] = b] /\ UNCHANGED <<sim, stored, version, bandOf, rows, clock, sync, late>>
    BY <1>1, <1>8, <2>1 DEF ApplyEnds
  <2>8. clock' = clock /\ clock' \in 0..MaxWrites /\ clock <= clock' /\ RunOK(b, clock', stored)
    BY <1>1, <2>6, <2>7
  <2> QED BY <1>5, <2>2, <2>7, <2>8
<1>9. CASE ApplyFails(a)
  <2>1. NoApply \in Runs
    <3>1. 1 \in 1..(MaxPair + Chunk) /\ 0 \in 0..MaxPair /\ 0 \in 0..MaxWrites
      BY <1>1, <1>2
    <3> QED BY <3>1, Constants DEF NoApply, Runs
  <2>2. RunOK(NoApply, clock, stored)
    BY <1>1 DEF RunOK, NoApply
  <2>3. apply' = [apply EXCEPT ![a] = NoApply] /\ UNCHANGED <<sim, stored, version, bandOf, rows, clock, sync, late>>
    BY <1>9 DEF ApplyFails
  <2>4. clock' = clock /\ clock' \in 0..MaxWrites /\ clock <= clock' /\ RunOK(NoApply, clock', stored)
    BY <1>1, <2>2, <2>3
  <2> QED BY <1>5, <2>1, <2>3, <2>4
<1> QED BY <1>6, <1>7, <1>8, <1>9
\* The transaction of a sync commits, or fails on a row that another run wrote.
LEMMA RecordStep ==
  ASSUME IInv, RecordDecisions
  PROVE  IInv'
<1>1. sync \in Syncs /\ apply \in [Applies -> Runs] /\ version \in Versions /\ stored \subseteq Pairs
      /\ late \subseteq Pairs /\ clock \in 0..MaxWrites /\ clock \in Nat /\ version \in Nat
  BY Constants DEF IInv, TypeOK, Syncs, Runs
<1>2. sync.at = "TX" /\ sync' = NoSync /\ UNCHANGED <<sim, stored, version, bandOf, clock, apply>>
  BY DEF RecordDecisions
<1>3. NoSync \in Syncs /\ NoSync.at = "NONE" /\ NoSync.v = 0
  BY Constants DEF NoSync, Syncs
<1>4. CASE ~\A p \in sync.found : rows[p][sync.v] = NoRow
  <2>1. UNCHANGED <<rows, late>>
    BY <1>4 DEF RecordDecisions
  <2>2. clock' = clock /\ clock' \in 0..MaxWrites /\ clock <= clock' /\ SyncOK(NoSync, clock')
    BY <1>1, <1>2, <1>3 DEF SyncOK
  <2> QED BY <1>1, <1>2, <1>3, <2>1, <2>2, QuietStep
<1>5. CASE \A p \in sync.found : rows[p][sync.v] = NoRow
  <2>1. PICK ps \in SUBSET Pairs, v \in Versions, t \in 1..clock : ps = sync.found /\ v = sync.v /\ t = sync.time
    BY <1>1, <1>2 DEF Syncs, IInv, Known
  <2>2. v <= version /\ Newest(v, t) /\ (\A p \in ps : rows[p][v] = NoRow)
    BY <1>2, <1>5, <2>1 DEF IInv, Known, NewestInv
  <2>3. Write(ps, v, [p \in Pairs |-> Banded(sim[p], bandOf[v])], t)
    BY <1>5, <2>1 DEF RecordDecisions
  <2>4. /\ rows' \in [Pairs -> [Versions -> Row \cup {NoRow}]] /\ late' \subseteq Pairs /\ late \subseteq late'
        /\ Dated' /\ CurrentInv'
        /\ \A p \in Pairs \ late' : IsBanded(p) \/ p \in ps => IsBanded(p)'
        /\ \A p \in Pairs \ late', w \in Versions \ {version} : rows'[p][w] = rows[p][w]
    BY <1>2, <2>2, <2>3, WriteStep
  <2>5. TypeOK'
    BY <1>2, <1>3, <2>4 DEF IInv, TypeOK, Syncs, Runs
  <2>6. Known'
    BY <1>1, <1>2, <1>3 DEF IInv, Known
  <2>7. NewestInv'
    <3> SUFFICES ASSUME NEW a \in Applies, apply[a].at = "WRITE", apply[a].v = version,
                        NEW p \in Pairs \ late', NEW w \in Versions \ {version}, rows'[p][w] # NoRow
                 PROVE  rows'[p][w].at < apply[a].time
      BY <1>2, <1>3 DEF NewestInv, Newest
    <3> QED BY <2>4 DEF IInv, NewestInv, Newest
  <2>8. ProgressInv'
    <3> SUFFICES ASSUME NEW a \in Applies
                 PROVE  apply[a].begun \subseteq stored /\ (apply[a].at # "NONE" => Progress(apply[a])')
      BY <1>2 DEF ProgressInv
    <3>1. apply[a].begun \subseteq stored
      BY DEF IInv, ProgressInv
    <3>2. ASSUME apply[a].at # "NONE" PROVE Progress(apply[a])'
      <4>1. \A p \in Pairs \ late' : IsBanded(p) => IsBanded(p)'
        BY <2>4
      <4> QED BY <1>2, <2>4, <3>2, <4>1, ProgressKept DEF Progress
    <3> QED BY <3>1, <3>2
  <2> QED BY <2>4, <2>5, <2>6, <2>7, <2>8 DEF IInv
<1> QED BY <1>4, <1>5

\* A chunk is written, but for the pairs that have a row of the version.
LEMMA ApplyWriteStep ==
  ASSUME IInv, NEW a \in Applies, ApplyWrites(a)
  PROVE  IInv'
<1>1. sync \in Syncs /\ apply \in [Applies -> Runs] /\ version \in Versions /\ stored \subseteq Pairs
      /\ late \subseteq Pairs /\ clock \in 0..MaxWrites /\ clock \in Nat /\ version \in Nat
  BY Constants DEF IInv, TypeOK, Syncs, Runs
<1>2. MaxPair \in Nat \ {0} /\ Chunk \in Nat \ {0} /\ MaxWrites \in Nat
  BY Constants
<1>3. apply[a].at = "WRITE" /\ UNCHANGED <<sim, stored, version, bandOf, clock, sync>>
  BY DEF ApplyWrites
<1>4. PICK b : b = apply[a]
  OBVIOUS
<1>5. /\ b \in Runs /\ b.at = "WRITE" /\ b.v <= version /\ b.time \in 1..clock /\ Newest(b.v, b.time)
      /\ Progress(b) /\ b.begun \subseteq stored
  BY <1>1, <1>3, <1>4 DEF IInv, Known, NewestInv, ProgressInv
<1>6. PICK v \in Versions, t \in 1..clock : v = b.v /\ t = b.time
  BY <1>5 DEF Runs
<1>7. PICK ps \in SUBSET Pairs : ps = {p \in b.change : rows[p][v] = NoRow}
  BY <1>5 DEF Runs
<1>8. Write(ps, v, [p \in Pairs |-> Banded(sim[p], bandOf[v])], t)
  BY <1>4, <1>6, <1>7 DEF ApplyWrites
<1>9. v <= version /\ Newest(v, t) /\ (\A p \in ps : rows[p][v] = NoRow)
  BY <1>5, <1>6, <1>7
<1>10. /\ rows' \in [Pairs -> [Versions -> Row \cup {NoRow}]] /\ late' \subseteq Pairs /\ late \subseteq late'
       /\ Dated' /\ CurrentInv'
       /\ \A p \in Pairs \ late' : IsBanded(p) \/ p \in ps => IsBanded(p)'
       /\ \A p \in Pairs \ late', w \in Versions \ {version} : rows'[p][w] = rows[p][w]
  BY <1>3, <1>8, <1>9, WriteStep
<1>11. PICK c : c = [b EXCEPT !.at = "CHUNK", !.next = @ + Chunk, !.change = {}, !.time = 0]
  OBVIOUS
<1>12. b.next \in 1..MaxPair /\ b.next + Chunk \in 1..(MaxPair + Chunk) /\ 0 \in 0..MaxWrites
  <2>1. b.next \in 1..(MaxPair + Chunk) /\ b.last \in 0..MaxPair /\ b.next <= b.last
    BY <1>5 DEF Runs, Progress
  <2> QED BY <1>2, <2>1
<1>13. /\ c \in Runs /\ c.at = "CHUNK" /\ c.next = b.next + Chunk /\ c.v = b.v /\ c.last = b.last
       /\ c.begun = b.begun
  <2>1. b \in Runs /\ b.next + Chunk \in 1..(MaxPair + Chunk) /\ 0 \in 0..MaxWrites
    BY <1>5, <1>12
  <2> QED BY <1>11, <2>1 DEF Runs
<1>14. apply' = [apply EXCEPT ![a] = c]
  <2>1. apply' = [apply EXCEPT ![a].at = "CHUNK", ![a].next = @ + Chunk, ![a].change = {}, ![a].time = 0]
    BY DEF ApplyWrites
  <2> QED BY <1>1, <1>4, <1>11, <2>1
<1>15. apply' \in [Applies -> Runs] /\ apply'[a] = c /\ \A x \in Applies : x # a => apply'[x] = apply[x]
  BY <1>1, <1>13, <1>14
<1>16. TypeOK'
  BY <1>3, <1>10, <1>15 DEF IInv, TypeOK, Syncs, Runs
<1>17. Known'
  <2>1. \A x \in Applies : apply'[x].v <= version /\ (apply'[x].at = "WRITE" => apply'[x].time \in 1..clock)
    BY <1>5, <1>13, <1>15 DEF IInv, Known
  <2> QED BY <1>3, <2>1 DEF IInv, Known
<1>18. NewestInv'
  <2>1. ASSUME NEW s \in Versions, NEW now, Newest(s, now), NEW p \in Pairs \ late', s = version,
               NEW w \in Versions \ {s}, rows'[p][w] # NoRow
        PROVE  rows'[p][w].at < now
    BY <1>10, <2>1 DEF Newest
  <2>2. ASSUME NEW s \in Versions, NEW now, Newest(s, now)
        PROVE  s = version => \A p \in Pairs \ late', w \in Versions \ {s} : rows'[p][w] # NoRow => rows'[p][w].at < now
    BY <2>1, <2>2
  <2>3. sync.v \in Versions /\ (sync.at = "TX" => Newest(sync.v, sync.time))
    BY <1>1 DEF IInv, NewestInv, Syncs
  <2>4. \A x \in Applies : apply'[x].at = "WRITE" =>
          apply'[x] = apply[x] /\ apply[x].v \in Versions /\ Newest(apply[x].v, apply[x].time)
    BY <1>1, <1>13, <1>15 DEF IInv, NewestInv, Runs
  <2>5. (sync.at = "TX" => Newest(sync.v, sync.time))'
    BY <1>3, <2>2, <2>3 DEF Newest
  <2>6. ASSUME NEW x \in Applies, apply'[x].at = "WRITE"
        PROVE  Newest(apply[x].v, apply[x].time)'
    <3>1. PICK y : y = apply[x]
      OBVIOUS
    <3>2. apply'[x] = y /\ y.v \in Versions /\ Newest(y.v, y.time)
      BY <2>4, <2>6, <3>1
    <3> QED BY <1>3, <2>2, <3>2 DEF Newest
  <2> QED BY <2>5, <2>6 DEF NewestInv
<1>19. ProgressInv'
  <2> SUFFICES ASSUME NEW x \in Applies
               PROVE  (apply[x].begun \subseteq stored)' /\ ((apply[x].at # "NONE")' => Progress(apply[x])')
    BY DEF ProgressInv
  <2>0. \A p \in Pairs \ late' : IsBanded(p) => IsBanded(p)'
    BY <1>10
  <2>1. CASE x # a
    <3>1. apply'[x] = apply[x] /\ apply[x].begun \subseteq stored
      BY <1>15, <2>1 DEF IInv, ProgressInv
    <3>2. ASSUME apply[x].at # "NONE" PROVE Progress(apply[x])'
      <4>1. /\ \A p \in apply[x].begun : p <= apply[x].last
            /\ apply[x].at = "DONE" => apply[x].last < apply[x].next
            /\ apply[x].at = "WRITE" => apply[x].next <= apply[x].last
            /\ apply[x].v = version => \A p \in apply[x].begun \ late' :
                 /\ p < apply[x].next => IsBanded(p)'
                 /\ apply[x].at = "WRITE" /\ p \notin apply[x].change /\ p < apply[x].next + Chunk => IsBanded(p)'
        BY <1>3, <1>10, <2>0, <3>2, ProgressKept
      <4> QED BY <1>3, <3>1, <4>1 DEF Progress
    <3> QED BY <1>3, <3>1, <3>2
  <2>2. CASE x = a
    <3>1. ASSUME b.v = version, NEW p \in b.begun \ late', p < b.next + Chunk PROVE IsBanded(p)'
      <4>1. p \in Pairs \ late' /\ p \in Pairs \ late /\ p \in b.begun \ late
        BY <1>1, <1>5, <1>10, <3>1
      <4>2. CASE p \notin b.change
        BY <1>5, <2>0, <3>1, <4>1, <4>2 DEF Progress
      <4>3. CASE p \in ps
        BY <1>10, <4>1, <4>3
      <4>4. CASE p \in b.change /\ p \notin ps
        <5>1. rows[p][version] # NoRow
          BY <1>6, <1>7, <3>1, <4>4
        <5> QED BY <2>0, <4>1, <5>1, CurrentIsBanded
      <4> QED BY <4>2, <4>3, <4>4
    <3>2. apply'[x] = c /\ c.at = "CHUNK" /\ c.next = b.next + Chunk /\ c.v = b.v /\ c.last = b.last
          /\ c.begun = b.begun /\ (\A p \in b.begun : p <= b.last) /\ b.begun \subseteq stored
      BY <1>5, <1>13, <1>15, <2>2 DEF Progress
    <3>3. Progress(apply[x])'
      BY <1>3, <3>1, <3>2 DEF Progress
    <3> QED BY <1>3, <3>2, <3>3
  <2> QED BY <2>1, <2>2
<1> QED BY <1>10, <1>16, <1>17, <1>18, <1>19 DEF IInv

\* No row cites the version that is set, and nothing under way knows it.
LEMMA SetBandStep ==
  ASSUME IInv, NEW b \in Bands, SetBand(b)
  PROVE  IInv'
<1>1. sync \in Syncs /\ apply \in [Applies -> Runs] /\ version \in Versions /\ version \in Nat
      /\ MaxVersions \in Nat /\ bandOf \in [Versions -> Bands]
      /\ rows \in [Pairs -> [Versions -> Row \cup {NoRow}]]
  BY Constants DEF IInv, TypeOK, Syncs, Runs
<1>2. version' = version + 1 /\ version < MaxVersions /\ late' = {}
      /\ bandOf' = [bandOf EXCEPT ![version + 1] = b]
      /\ UNCHANGED <<sim, stored, rows, clock, sync, apply>>
  BY DEF SetBand
<1>3. version' \in Versions /\ version < version' /\ \A w \in Versions : w <= version => w <= version' /\ w # version'
  BY <1>1, <1>2 DEF Versions
<1>4. TypeOK'
  <2>1. bandOf' \in [Versions -> Bands]
    BY <1>1, <1>2
  <2> QED BY <1>2, <1>3, <2>1 DEF IInv, TypeOK, Syncs, Runs
<1>5. Dated'
  BY <1>2, <1>3 DEF IInv, Dated
<1>6. sync.v \in Versions /\ sync.v <= version /\ \A a \in Applies : apply[a].v \in Versions /\ apply[a].v <= version
  BY <1>1 DEF IInv, Known, Syncs, Runs
<1>7. Known'
  BY <1>2, <1>3, <1>6 DEF IInv, Known
<1>8. CurrentInv'
  <2>1. \A p \in Pairs : rows[p][version'] = NoRow
    <3> SUFFICES ASSUME NEW p \in Pairs, rows[p][version'] # NoRow PROVE FALSE
      OBVIOUS
    <3> QED BY <1>3 DEF IInv, Dated
  <2> QED BY <1>2, <2>1 DEF CurrentInv
<1>9. NewestInv'
  BY <1>2, <1>3, <1>6 DEF NewestInv, Newest
<1>10. ProgressInv'
  <2> SUFFICES ASSUME NEW a \in Applies
               PROVE  apply[a].begun \subseteq stored /\ (apply[a].at # "NONE" => Progress(apply[a])')
    BY <1>2 DEF ProgressInv
  <2>1. apply[a].v # version'
    BY <1>3, <1>6
  <2>2. ASSUME apply[a].at # "NONE" PROVE Progress(apply[a])'
    <3>1. /\ \A p \in apply[a].begun : p <= apply[a].last
          /\ apply[a].at = "DONE" => apply[a].last < apply[a].next
          /\ apply[a].at = "WRITE" => apply[a].next <= apply[a].last
      BY <2>2 DEF IInv, ProgressInv, Progress
    <3> QED BY <1>2, <2>1, <3>1 DEF Progress
  <2> QED BY <2>2 DEF IInv, ProgressInv
<1> QED BY <1>4, <1>5, <1>7, <1>8, <1>9, <1>10 DEF IInv

\* Nothing changes.
LEMMA StutterStep ==
  ASSUME IInv, UNCHANGED vars
  PROVE  IInv'
<1> USE DEF vars
<1>1. TypeOK' /\ Dated' /\ Known' /\ CurrentInv'
  BY DEF IInv, TypeOK, Dated, Known, CurrentInv, Banded
<1>2. NewestInv'
  BY DEF IInv, NewestInv, Newest
<1>3. \A p : IsBanded(p)' <=> IsBanded(p)
  BY DEF IsBanded, Decided, Latest, Cited, Banded
<1>4. ProgressInv'
  BY <1>3 DEF IInv, ProgressInv, Progress
<1> QED BY <1>1, <1>2, <1>4 DEF IInv

\* Every step preserves it.
LEMMA IInvStep ==
  ASSUME IInv, [Next]_vars
  PROVE  IInv'
<1>1. CASE \E p \in Pairs : StoreScore(p)
  BY <1>1, StoreStep
<1>2. CASE \E b \in Bands : SetBand(b)
  BY <1>2, SetBandStep
<1>3. CASE CurrentBand \/ RecordBegins \/ SyncEnds \/ \E ps \in SUBSET Pairs : RunBandFinds(ps)
  BY <1>3, SyncStep
<1>4. CASE RecordDecisions
  BY <1>4, RecordStep
<1>5. ASSUME NEW a \in Applies,
             (\E allowDefault \in BOOLEAN : ApplyStarts(a, allowDefault)) \/ ApplyReads(a) \/ ApplyEnds(a) \/ ApplyFails(a)
      PROVE  IInv'
  BY <1>5, ApplyStep
<1>6. ASSUME NEW a \in Applies, ApplyWrites(a) PROVE IInv'
  BY <1>6, ApplyWriteStep
<1>7. CASE UNCHANGED vars
  BY <1>7, StutterStep
<1> QED BY <1>1, <1>2, <1>3, <1>4, <1>5, <1>6, <1>7 DEF Next

\* So it always holds.
LEMMA IInvAlways == Spec => []IInv
<1>1. Init => IInv
  BY IInvInit
<1>2. IInv /\ [Next]_vars => IInv'
  BY IInvStep
<1> QED BY <1>1, <1>2, PTL DEF Spec

-----------------------------------------------------------------------------
(* Theorems.                                                               *)

\* The versions, the rows, the sync and the runs of apply stay of their types.
THEOREM TypeCorrect == Spec => []TypeOK
<1>1. IInv => TypeOK
  BY DEF IInv
<1> QED BY <1>1, IInvAlways, PTL

\* When a run of bulk-match apply has finished under the version that is still the current one,
\* every pair of the store it read is decided as that version bands it, whatever runs died before
\* it, and but for what a run that read an older version wrote since (apply.go:72).
THEOREM FinishedAlways == Spec => []FinishedMeansBanded
<1>1. IInv => FinishedMeansBanded
  <2> SUFFICES ASSUME IInv, NEW a \in Applies, apply[a].at = "DONE", apply[a].v = version,
                      NEW p \in apply[a].begun \ late
               PROVE  IsBanded(p)
    BY DEF FinishedMeansBanded, IsBanded
  <2>1. /\ Progress(apply[a]) /\ apply[a].begun \subseteq Pairs
        /\ apply[a].last \in 0..MaxPair /\ apply[a].next \in 1..(MaxPair + Chunk)
    BY DEF IInv, ProgressInv, TypeOK
  <2>2. p <= apply[a].last /\ apply[a].last < apply[a].next /\ p \in 1..MaxPair
    BY <2>1 DEF Progress, Pairs
  <2>3. p < apply[a].next
    BY <2>1, <2>2, Constants
  <2> QED BY <2>1, <2>3 DEF Progress
<1> QED BY <1>1, IInvAlways, PTL
-----------------------------------------------------------------------------
(* Decisions that stand.                                                   *)

\* What a sync found under the current version has, since, only rows of that version or late ones.
FoundInv ==
  sync.at \in {"FOUND", "TX"} /\ sync.v = version =>
    \A p \in sync.found \ late, w \in Versions \ {version} : rows[p][w] = NoRow

\* Rows written under v touch no other version's, nor other pairs'.
LEMMA WriteTouches ==
  ASSUME TypeOK, NEW ps \in SUBSET Pairs, NEW v \in Versions, NEW d, NEW t, Write(ps, v, d, t)
  PROVE  /\ \A p \in Pairs \ ps : rows'[p] = rows[p]
         /\ \A p \in Pairs, w \in Versions \ {v} : rows'[p][w] = rows[p][w]
         /\ late \subseteq late' /\ (v # version => ps \subseteq late')
<1>1. \A p \in ps : rows'[p] = [rows[p] EXCEPT ![v] = [decision |-> d[p], at |-> t]]
  BY DEF Write
<1>2. \A p \in Pairs \ ps : rows'[p] = rows[p]
  BY DEF Write
<1>3. \A p \in Pairs : rows[p] \in [Versions -> Row \cup {NoRow}]
  BY DEF TypeOK
<1>4. \A p \in Pairs, w \in Versions \ {v} : rows'[p][w] = rows[p][w]
  BY <1>1, <1>2, <1>3
<1> QED BY <1>2, <1>4 DEF Write

\* What a sync under the current version may find written stays so.
LEMMA FoundStep ==
  ASSUME IInv, FoundInv, [Next]_vars
  PROVE  FoundInv'
<1>1. TypeOK /\ sync \in Syncs /\ apply \in [Applies -> Runs]
  BY DEF IInv, TypeOK, Syncs, Runs
<1>2. CASE UNCHANGED <<version, rows, late, sync>>
  BY <1>2 DEF FoundInv
<1>3. ASSUME NEW b \in Bands, SetBand(b) PROVE FoundInv'
  <2>1. sync' = sync /\ sync.v <= version /\ version' = version + 1 /\ sync.v \in Nat /\ version \in Nat
    BY <1>1, <1>3, Constants DEF SetBand, IInv, Known, TypeOK, Syncs
  <2>2. sync'.v # version'
    BY <2>1
  <2> QED BY <2>2 DEF FoundInv
<1>4. CASE CurrentBand \/ RecordDecisions \/ SyncEnds
  <2>1. sync'.at \in {"READ", "NONE"}
    <3>1. NoSync.at = "NONE" /\ (CurrentBand => sync'.at = "READ")
      BY <1>1 DEF NoSync, CurrentBand, Syncs
    <3>2. RecordDecisions \/ SyncEnds => sync' = NoSync
      BY DEF RecordDecisions, SyncEnds
    <3> QED BY <1>4, <3>1, <3>2
  <2> QED BY <2>1 DEF FoundInv
<1>5. ASSUME NEW ps \in SUBSET Pairs, RunBandFinds(ps) PROVE FoundInv'
  <2>1. sync'.found = ps /\ UNCHANGED <<version, rows, late>>
    BY <1>1, <1>5 DEF RunBandFinds, Syncs
  <2>2. \A p \in ps, w \in Versions : rows[p][w] = NoRow
    BY <1>5 DEF RunBandFinds, Cited
  <2> QED BY <2>1, <2>2 DEF FoundInv
<1>6. CASE RecordBegins
  <2>1. sync.at = "FOUND" /\ sync'.found = sync.found /\ sync'.v = sync.v /\ UNCHANGED <<version, rows, late>>
    BY <1>1, <1>6 DEF RecordBegins, Syncs
  <2> QED BY <2>1 DEF FoundInv
<1>7. ASSUME NEW a \in Applies, ApplyWrites(a) PROVE FoundInv'
  <2>1. PICK ps \in SUBSET Pairs, v \in Versions :
          Write(ps, v, [p \in Pairs |-> Banded(sim[p], bandOf[v])], apply[a].time)
    BY <1>1, <1>7 DEF ApplyWrites, Runs
  <2>2. UNCHANGED <<version, sync>>
    BY <1>7 DEF ApplyWrites
  <2>3. sync.found \subseteq Pairs /\ late \subseteq late'
    BY <1>1, <2>1, WriteTouches DEF Syncs
  <2>4. ASSUME NEW p \in sync.found \ late', NEW w \in Versions \ {version}, rows[p][w] = NoRow
        PROVE  rows'[p][w] = NoRow
    <3>1. CASE w = v
      BY <1>1, <2>1, <2>3, <2>4, <3>1, WriteTouches
    <3>2. CASE w # v
      BY <1>1, <2>1, <2>3, <2>4, <3>2, WriteTouches
    <3> QED BY <3>1, <3>2
  <2> QED BY <2>2, <2>3, <2>4 DEF FoundInv
<1>8. ASSUME NEW a \in Applies,
             (\E allowDefault \in BOOLEAN : ApplyStarts(a, allowDefault)) \/ ApplyReads(a) \/ ApplyEnds(a) \/ ApplyFails(a)
      PROVE  UNCHANGED <<version, rows, late, sync>>
  BY <1>8 DEF ApplyStarts, ApplyReads, ApplyEnds, ApplyFails
<1>9. ASSUME NEW p \in Pairs, StoreScore(p) PROVE UNCHANGED <<version, rows, late, sync>>
  BY <1>9 DEF StoreScore
<1>10. CASE UNCHANGED vars
  BY <1>2, <1>10 DEF vars
<1> QED BY <1>2, <1>3, <1>4, <1>5, <1>6, <1>7, <1>8, <1>9, <1>10 DEF Next

\* A step that decides a pair again is one of an apply, or of a run that read an older version.
LEMMA DecidedAgain ==
  ASSUME IInv, FoundInv, [Next]_vars, NEW p \in Pairs, Cited(p) # {}, Decided(p)' # Decided(p)
  PROVE  p \in late' \/ \E a \in Applies : apply[a].at = "WRITE" /\ p \in apply[a].change
<1>1. TypeOK /\ sync \in Syncs /\ apply \in [Applies -> Runs]
  BY DEF IInv, TypeOK, Syncs, Runs
<1>2. rows'[p] # rows[p]
  <2> SUFFICES ASSUME rows'[p] = rows[p] PROVE Decided(p)' = Decided(p)
    OBVIOUS
  <2> QED BY DEF Decided, Latest, Cited
<1>3. CASE RecordDecisions
  <2>1. /\ sync.at = "TX" /\ \A q \in sync.found : rows[q][sync.v] = NoRow
        /\ Write(sync.found, sync.v, [q \in Pairs |-> Banded(sim[q], bandOf[sync.v])], sync.time)
    BY <1>2, <1>3 DEF RecordDecisions
  <2>2. PICK ps \in SUBSET Pairs, v \in Versions : ps = sync.found /\ v = sync.v
    BY <1>1 DEF Syncs
  <2>3. p \in ps /\ (v # version => ps \subseteq late') /\ late \subseteq late'
    BY <1>1, <1>2, <2>1, <2>2, WriteTouches
  <2>4. PICK w \in Versions : rows[p][w] # NoRow
    BY DEF Cited
  <2>5. w # v
    BY <2>1, <2>2, <2>3, <2>4
  <2>6. v = version => p \in late
    BY <2>1, <2>2, <2>3, <2>4, <2>5 DEF FoundInv
  <2> QED BY <2>3, <2>6
<1>4. ASSUME NEW a \in Applies, ApplyWrites(a) PROVE apply[a].at = "WRITE" /\ p \in apply[a].change
  <2>1. PICK ps \in SUBSET Pairs, v \in Versions :
          /\ ps = {q \in apply[a].change : rows[q][v] = NoRow}
          /\ Write(ps, v, [q \in Pairs |-> Banded(sim[q], bandOf[v])], apply[a].time)
    BY <1>1, <1>4 DEF ApplyWrites, Runs
  <2>2. p \in ps
    BY <1>1, <1>2, <2>1, WriteTouches
  <2> QED BY <1>4, <2>1, <2>2 DEF ApplyWrites
<1>5. ASSUME rows' = rows PROVE FALSE
  BY <1>2, <1>5
<1>6. ASSUME NEW a \in Applies,
             (\E allowDefault \in BOOLEAN : ApplyStarts(a, allowDefault)) \/ ApplyReads(a) \/ ApplyEnds(a) \/ ApplyFails(a)
      PROVE  rows' = rows
  BY <1>6 DEF ApplyStarts, ApplyReads, ApplyEnds, ApplyFails
<1>7. ASSUME \/ \E q \in Pairs : StoreScore(q)
             \/ \E b \in Bands : SetBand(b)
             \/ CurrentBand \/ RecordBegins \/ SyncEnds
             \/ \E ps \in SUBSET Pairs : RunBandFinds(ps)
             \/ UNCHANGED vars
      PROVE  rows' = rows
  BY <1>7 DEF StoreScore, SetBand, CurrentBand, RecordBegins, SyncEnds, RunBandFinds, vars
<1> QED BY <1>3, <1>4, <1>5, <1>6, <1>7 DEF Next

\* Setting a version, or a sync that works under it, leaves the decisions already written
\* (006_features.sql:137): a pair decided is decided again only by an apply, or by a run whose
\* version was not the current one.
THEOREM DecisionsStandAlways == Spec => DecisionsStand
<1>1. Init => FoundInv
  BY DEF Init, FoundInv, NoSync
<1>2. IInv /\ FoundInv /\ [Next]_vars => FoundInv'
  BY FoundStep
<1>3. IInv /\ FoundInv /\ [Next]_vars =>
        [\A p \in Pairs : Cited(p) # {} /\ Decided(p)' # Decided(p) =>
           p \in late' \/ \E a \in Applies : apply[a].at = "WRITE" /\ p \in apply[a].change]_vars
  BY DecidedAgain
<1> QED BY <1>1, <1>2, <1>3, IInvAlways, PTL DEF Spec, DecisionsStand

-----------------------------------------------------------------------------
(* Material.  A task that nothing crossed is alone on its trace and knows  *)
(* the choice; so the face agrees with the chosen version unless a task    *)
(* that stored that version's embedding has the face's still to write.     *)

TraceRow   == [seq : 1..MaxDrawn, mark : Drawn, chosen : {0} \cup Drawn]
CodRow     == [of : Drawn, seq : 1..MaxDrawn, image : {0} \cup Drawn]
WorkerTask == [cod : Drawn, picture : Drawn, chosen : BOOLEAN, at : {"READ", "STORED"}, crossed : BOOLEAN]

\* Ids are of what was drawn, a version's number is not its original's, and what is to be deleted
\* is a version.
DrawnInv ==
  /\ removing.seen = {}
  /\ \A t \in Traces : t <= drawn /\ cod[t].seq = 1
  /\ \A c \in Cods : c <= drawn /\ cod[c].seq <= c
  /\ dropping # 0 => dropping \in Cods /\ cod[dropping].seq > 1
  /\ \A t \in Drawn \ Traces : face[t] = 0

\* An uncrossed task is the only one on its trace, and what it read of the choice stands.
Uncrossed(x) ==
  /\ TaskOn(cod[x.cod].of) = {x}
  /\ x.chosen <=> ForRecognition(x.cod)
  /\ x.at = "STORED" => x.chosen /\ codEmb[x.cod] = x.picture

TaskInv == \A x \in tasks : x.cod \in Cods /\ (~x.crossed => Uncrossed(x))

Agrees(t) == face[t] # 0 /\ codEmb[ChosenOf(t)] # 0 => face[t] = codEmb[ChosenOf(t)]

\* Whose face is still to be written.
Halfway(t) == \E x \in TaskOn(t) : x.at = "STORED" /\ x.cod = ChosenOf(t)

FaceInv == \A t \in Traces \ crossed : Halfway(t) \/ Agrees(t)

MaterialInv == MaterialTypeOK /\ DrawnInv /\ TaskInv /\ FaceInv

\* A row is not the mark of no row.
LEMMA RowsAreRows == No \notin TraceRow /\ No \notin CodRow /\ MaxDrawn \in Nat
<1>1. MaxDrawn \in Nat
  BY MaterialConstantsOK
<1>2. TraceRow \subseteq [seq : Nat, mark : Nat, chosen : Nat] /\ CodRow \subseteq [of : Nat, seq : Nat, image : Nat]
  BY <1>1 DEF TraceRow, CodRow, Drawn
<1> QED BY <1>1, <1>2, MaterialConstantsOK

\* What a trace and a codification have, and how they hang together.
LEMMA RowsHang ==
  ASSUME MaterialTypeOK
  PROVE  /\ \A t \in Traces : /\ t \in Drawn /\ trace[t] \in TraceRow
                              /\ t \in Cods /\ cod[t].of = t
                              /\ ChosenOf(t) \in Cods /\ cod[ChosenOf(t)].of = t
         /\ \A c \in Cods : c \in Drawn /\ cod[c] \in CodRow /\ cod[c].of \in Traces
<1>1. \A t \in Traces : t \in Drawn /\ trace[t] \in TraceRow
  BY DEF MaterialTypeOK, Traces, TraceRow
<1>2. \A c \in Cods : c \in Drawn /\ cod[c] \in CodRow /\ cod[c].of \in Traces
  BY DEF MaterialTypeOK, Cods, CodRow
<1>3. \A t \in Traces : /\ t \in Cods /\ cod[t].of = t
                        /\ ChosenOf(t) \in Cods /\ cod[ChosenOf(t)].of = t
  BY DEF MaterialTypeOK, CodsOf
<1> QED BY <1>1, <1>2, <1>3

\* It holds before anything is marked.
LEMMA MaterialInvInit == MaterialInit => MaterialInv
<1> SUFFICES ASSUME MaterialInit
             PROVE  MaterialInv
  OBVIOUS
<1>1. Traces = {} /\ Cods = {}
  BY DEF MaterialInit, Traces, Cods
<1>2. MaterialTypeOK
  <2>1. NoCall \in [at : {"NONE", "READ"}, last : 0..MaxDrawn, first : BOOLEAN]
    BY RowsAreRows DEF NoCall
  <2>2. call \in [Callers -> [at : {"NONE", "READ"}, last : 0..MaxDrawn, first : BOOLEAN]]
    BY <2>1 DEF MaterialInit
  <2>3. /\ codEmb \in [Drawn -> 0..MaxDrawn] /\ face \in [Drawn -> 0..MaxDrawn] /\ drawn \in 0..MaxDrawn
        /\ dropping \in 0..MaxDrawn
    BY RowsAreRows DEF MaterialInit
  <2> QED BY <1>1, <2>2, <2>3 DEF MaterialInit, MaterialTypeOK
<1> QED BY <1>1, <1>2 DEF MaterialInit, MaterialInv, DrawnInv, TaskInv, FaceInv

\* Rows that only come, of things drawn new, disturb no task and no face.
LEMMA RowsCome ==
  ASSUME MaterialInv, UNCHANGED <<codEmb, face, tasks, crossed>>,
         \A c \in Cods : c \in Cods' /\ cod'[c].of = cod[c].of,
         \A t \in Traces : t \in Traces' /\ trace'[t].chosen = trace[t].chosen,
         Traces' \subseteq Drawn
  PROVE  TaskInv' /\ FaceInv' /\ (\A t \in Drawn \ Traces' : face'[t] = 0)
<1> USE DEF MaterialInv
<1>1. \A t \in Drawn : TaskOn(t)' = TaskOn(t)
  BY DEF TaskOn, TaskInv
<1>2. \A t \in Traces : ChosenOf(t)' = ChosenOf(t) /\ Agrees(t)' = Agrees(t)
  BY DEF ChosenOf, Agrees
<1>3. \A c \in Cods : ForRecognition(c)' = ForRecognition(c) /\ cod[c].of \in Drawn
  BY <1>2, RowsHang DEF ForRecognition
<1>4. TaskInv'
  BY <1>1, <1>3 DEF TaskInv, Uncrossed
<1>5. ASSUME NEW t \in Traces' \ crossed'
      PROVE  Halfway(t)' \/ Agrees(t)'
  <2>1. CASE t \in Traces
    BY <1>1, <1>2, <2>1, RowsHang DEF FaceInv, Halfway
  <2>2. CASE t \notin Traces
    BY <2>2 DEF DrawnInv, Agrees
  <2> QED BY <2>1, <2>2
<1> QED BY <1>4, <1>5 DEF FaceInv, DrawnInv

\* Reading, counting and giving up change nothing that others see.
LEMMA MarkingStep ==
  ASSUME MaterialInv, UNCHANGED <<file, evidence, encoding, trace, cod, drawn>>,
         call' \in [Callers -> [at : {"NONE", "READ"}, last : 0..MaxDrawn, first : BOOLEAN]],
         removing' \in [at : {"NONE", "COUNTED"}, seen : SUBSET Drawn], removing'.seen = {}
  PROVE  MaterialInv'
<1> USE DEF MaterialInv, encoding
<1>1. Traces' = Traces /\ Cods' = Cods /\ \A t : CodsOf(t)' = CodsOf(t) /\ ChosenOf(t)' = ChosenOf(t)
  BY DEF Traces, Cods, CodsOf, ChosenOf
<1>2. MaterialTypeOK'
  BY <1>1 DEF MaterialTypeOK
<1>3. TaskInv' /\ FaceInv'
  BY <1>1, RowsCome, RowsHang
<1>4. DrawnInv'
  BY <1>1 DEF DrawnInv
<1> QED BY <1>2, <1>3, <1>4

\* A call reads the greatest number, or gives up.
LEMMA CreateTracesStep ==
  ASSUME MaterialInv, NEW k \in Callers, CreateTraces(k) \/ CreateTracesFails(k)
  PROVE  MaterialInv'
<1> DEFINE S == {trace[t].seq : t \in Traces} \cup {0}
<1>1. MaxCaseTraceSequence \in 0..MaxDrawn
  <2>1. S \in SUBSET (0..MaxDrawn) /\ S \in SUBSET Int /\ S # {} /\ IsFiniteSet(0..MaxDrawn)
    <3>1. MaxDrawn \in Nat /\ \A t \in Traces : trace[t].seq \in 1..MaxDrawn
      BY RowsHang, RowsAreRows DEF MaterialInv, TraceRow
    <3>2. S \subseteq 0..MaxDrawn /\ 0 \in S
      BY <3>1
    <3>3. IsFiniteSet(0..MaxDrawn)
      BY <3>1, FS_Interval
    <3> QED BY <3>2, <3>3
  <2>2. Max(S) \in S
    <3> HIDE DEF S
    <3>1. IsFiniteSet(S)
      BY <2>1, FS_Subset
    <3> QED BY <2>1, <3>1, MaxIsGreatest
  <2> HIDE DEF S
  <2>3. Max(S) \in 0..MaxDrawn
    BY <2>1, <2>2
  <2> QED BY <2>3 DEF MaxCaseTraceSequence, S
<1>2. call' \in [Callers -> [at : {"NONE", "READ"}, last : 0..MaxDrawn, first : BOOLEAN]]
  <2>0. evidence \in BOOLEAN /\ call \in [Callers -> [at : {"NONE", "READ"}, last : 0..MaxDrawn, first : BOOLEAN]]
    BY DEF MaterialInv, MaterialTypeOK
  <2>1. CASE CreateTraces(k)
    <3>1. [at |-> "READ", last |-> MaxCaseTraceSequence, first |-> ~evidence]
            \in [at : {"NONE", "READ"}, last : 0..MaxDrawn, first : BOOLEAN]
      BY <1>1
    <3> QED BY <2>0, <2>1, <3>1 DEF CreateTraces
  <2>2. CASE CreateTracesFails(k)
    <3>1. NoCall \in [at : {"NONE", "READ"}, last : 0..MaxDrawn, first : BOOLEAN]
      BY RowsAreRows DEF NoCall
    <3> QED BY <2>0, <2>2, <3>1 DEF CreateTracesFails
  <2> QED BY <2>1, <2>2
<1> QED BY <1>2, MarkingStep DEF CreateTraces, CreateTracesFails, MaterialInv, MaterialTypeOK, DrawnInv

\* The traces are counted when there are none.
LEMMA DeleteEvidenceStep ==
  ASSUME MaterialInv, DeleteEvidence
  PROVE  MaterialInv'
<1>1. removing' = [at |-> "COUNTED", seen |-> {}] /\ UNCHANGED <<file, evidence, call, encoding, trace, cod, drawn>>
  BY DEF DeleteEvidence
<1> QED BY <1>1, MarkingStep DEF MaterialInv, MaterialTypeOK

\* What a commit of CreateTraces does to the rows, for its detections numbered from what it read.
LEMMA UpsertRows ==
  ASSUME MaterialInv, NEW k \in Callers, NEW n \in 1..MaxMarks, UpsertCaseTraces(k, n),
         NEW fresh, fresh = {t \in drawn + 1..drawn + n : Numbered(call[k].last + t - drawn) = {}}
  PROVE  /\ fresh \subseteq Drawn \ (Traces \cup Cods) /\ \A t \in fresh : t <= drawn'
         /\ drawn' \in 0..MaxDrawn /\ drawn <= drawn'
         /\ trace' = [t \in Drawn |-> trace'[t]] /\ cod' = [t \in Drawn |-> cod'[t]]
         /\ \A t \in fresh : /\ trace'[t] \in TraceRow /\ trace'[t].chosen = 0
                             /\ cod'[t] = [of |-> t, seq |-> 1, image |-> 0]
         /\ \A t \in Drawn \ fresh : cod'[t] = cod[t] /\ (t \notin Traces => trace'[t] = No)
         /\ \A t \in Traces : /\ trace'[t] \in TraceRow /\ trace'[t].chosen = trace[t].chosen
                              /\ trace'[t].mark # trace[t].mark => trace[t].seq > call[k].last
<1> DEFINE last == call[k].last
           new  == drawn + 1..drawn + n
<1>1. /\ MaxDrawn \in Nat /\ drawn \in Nat /\ n \in Nat /\ n >= 1
      /\ last \in 0..MaxDrawn /\ drawn + n <= MaxDrawn /\ drawn' = drawn + n
  BY RowsAreRows, MaterialConstantsOK DEF MaterialInv, MaterialTypeOK, UpsertCaseTraces
<1>2. ASSUME NEW t \in new
      PROVE  t \in Drawn /\ t \notin Traces /\ t \notin Cods /\ last + t - drawn \in 1..MaxDrawn
  <2>1. t \in Drawn /\ ~(t <= drawn) /\ last + t - drawn >= 1 /\ last + t - drawn \in Int
    BY <1>1 DEF Drawn
  <2>2. last + t - drawn <= MaxDrawn
    BY DEF UpsertCaseTraces
  <2> QED BY <1>1, <2>1, <2>2 DEF MaterialInv, DrawnInv
<1>3. fresh \subseteq new /\ \A t \in new : t \in fresh <=> Numbered(last + t - drawn) = {}
  OBVIOUS
<1>4. trace' = [t \in Drawn |->
                  IF t \in new /\ Numbered(last + t - drawn) = {} THEN [seq |-> last + t - drawn, mark |-> t, chosen |-> 0]
                  ELSE IF t \in Traces /\ trace[t].seq \in last + 1..last + n
                    THEN [trace[t] EXCEPT !.mark = trace[t].seq - last + drawn]
                  ELSE trace[t]]
  BY DEF UpsertCaseTraces
<1>5. cod' = [t \in Drawn |-> IF t \in new /\ Numbered(last + t - drawn) = {} THEN [of |-> t, seq |-> 1, image |-> 0]
                              ELSE cod[t]]
  BY DEF UpsertCaseTraces
<1> HIDE DEF new, last
<1>6. ASSUME NEW t \in fresh
      PROVE  /\ trace'[t] = [seq |-> last + t - drawn, mark |-> t, chosen |-> 0]
             /\ cod'[t] = [of |-> t, seq |-> 1, image |-> 0]
  BY <1>2, <1>3, <1>4, <1>5
<1>7. ASSUME NEW t \in Drawn \ fresh
      PROVE  /\ cod'[t] = cod[t]
             /\ t \notin Traces => trace'[t] = No
  BY <1>3, <1>4, <1>5 DEF Traces
<1>8. ASSUME NEW t \in Traces
      PROVE  /\ trace'[t] \in TraceRow /\ trace'[t].chosen = trace[t].chosen
             /\ trace'[t].mark # trace[t].mark => trace[t].seq > last
  <2>1. trace[t] \in TraceRow /\ t \in Drawn /\ t \notin new
    BY RowsHang, <1>2 DEF MaterialInv
  <2>2. CASE trace[t].seq \in last + 1..last + n
    <3>1. trace'[t] = [trace[t] EXCEPT !.mark = trace[t].seq - last + drawn]
      BY <1>4, <2>1, <2>2
    <3>2. trace[t].seq - last + drawn \in Drawn /\ trace[t].seq > last
      BY <1>1, <2>1, <2>2 DEF TraceRow, Drawn
    <3> QED BY <2>1, <3>1, <3>2 DEF TraceRow
  <2>3. CASE trace[t].seq \notin last + 1..last + n
    BY <1>4, <2>1, <2>3
  <2> QED BY <2>2, <2>3
<1>9. ASSUME NEW t \in fresh
      PROVE  trace'[t] \in TraceRow /\ trace'[t].chosen = 0
  <2>1. t \in Drawn /\ last + t - drawn \in 1..MaxDrawn
    BY <1>2, <1>3
  <2>2. [seq |-> last + t - drawn, mark |-> t, chosen |-> 0] \in TraceRow
    BY <2>1 DEF TraceRow
  <2>3. trace'[t] = [seq |-> last + t - drawn, mark |-> t, chosen |-> 0]
    BY <1>6
  <2> QED BY <2>2, <2>3
<1>10. fresh \subseteq Drawn \ (Traces \cup Cods) /\ \A t \in fresh : t <= drawn'
  BY <1>1, <1>2, <1>3 DEF new
<1>11. drawn' \in 0..MaxDrawn /\ drawn <= drawn'
  BY <1>1
<1>12. trace' = [t \in Drawn |-> trace'[t]] /\ cod' = [t \in Drawn |-> cod'[t]]
  BY <1>4, <1>5
<1> QED BY <1>6, <1>7, <1>8, <1>9, <1>10, <1>11, <1>12 DEF last

\* The commit of a call keeps the invariant.
LEMMA UpsertStep ==
  ASSUME MaterialInv, NEW k \in Callers, NEW n \in 1..MaxMarks, UpsertCaseTraces(k, n)
  PROVE  MaterialInv'
<1> SUFFICES ASSUME NEW fresh, fresh = {t \in drawn + 1..drawn + n : Numbered(call[k].last + t - drawn) = {}}
             PROVE  MaterialInv'
  OBVIOUS
<1>1. /\ fresh \subseteq Drawn \ (Traces \cup Cods) /\ \A t \in fresh : t <= drawn'
      /\ drawn' \in 0..MaxDrawn /\ drawn <= drawn'
      /\ trace' = [t \in Drawn |-> trace'[t]] /\ cod' = [t \in Drawn |-> cod'[t]]
      /\ \A t \in fresh : /\ trace'[t] \in TraceRow /\ trace'[t].chosen = 0
                          /\ cod'[t] = [of |-> t, seq |-> 1, image |-> 0]
      /\ \A t \in Drawn \ fresh : cod'[t] = cod[t] /\ (t \notin Traces => trace'[t] = No)
      /\ \A t \in Traces : trace'[t] \in TraceRow /\ trace'[t].chosen = trace[t].chosen
  BY UpsertRows
<1>2. UNCHANGED <<file, removing, encoding>> /\ file /\ evidence'
  BY DEF UpsertCaseTraces
<1>3. ASSUME NEW t \in fresh
      PROVE  cod'[t] \in CodRow /\ cod'[t].of = t /\ cod'[t].seq = 1
  <2>1. t \in Drawn /\ 1 \in 1..MaxDrawn
    BY <1>1, RowsAreRows DEF Drawn
  <2>2. [of |-> t, seq |-> 1, image |-> 0] \in CodRow
    BY <2>1 DEF CodRow
  <2> QED BY <1>1, <2>2
<1>4. Traces' = Traces \cup fresh /\ Cods' = Cods \cup fresh
  <2>1. \A t \in Drawn : trace'[t] # No <=> t \in Traces \cup fresh
    BY <1>1, RowsAreRows
  <2>2. \A t \in Drawn : cod'[t] # No <=> t \in Cods \cup fresh
    BY <1>1, <1>3, RowsAreRows DEF Cods
  <2>3. Traces \subseteq Drawn /\ Cods \subseteq Drawn
    BY DEF Traces, Cods
  <2> QED BY <2>1, <2>2, <2>3, <1>1 DEF Traces, Cods
<1>5. \A c \in Cods : cod'[c] = cod[c] /\ c \in Drawn /\ cod[c] \in CodRow /\ cod[c].of \in Traces
  BY <1>1, RowsHang DEF MaterialInv
<1>6. ASSUME NEW t \in Traces'
      PROVE  t \in CodsOf(t)' /\ ChosenOf(t)' \in CodsOf(t)'
  <2>1. CASE t \in fresh
    BY <1>1, <1>3, <1>4, <2>1 DEF CodsOf, ChosenOf
  <2>2. CASE t \in Traces
    BY <1>1, <1>4, <1>5, <2>2, RowsHang DEF MaterialInv, CodsOf, ChosenOf
  <2> QED BY <1>4, <2>1, <2>2
<1>7. MaterialTypeOK'
  <2>1. trace' \in [Drawn -> TraceRow \cup {No}]
    <3>1. \A t \in Drawn : trace'[t] \in TraceRow \cup {No}
      BY <1>1
    <3> QED BY <1>1, <3>1
  <2>2. cod' \in [Drawn -> CodRow \cup {No}]
    <3>1. \A t \in Drawn : cod'[t] \in CodRow \cup {No}
      BY <1>1, <1>3, <1>5 DEF Cods
    <3> QED BY <1>1, <3>1
  <2>3. call' \in [Callers -> [at : {"NONE", "READ"}, last : 0..MaxDrawn, first : BOOLEAN]]
    <3>1. NoCall \in [at : {"NONE", "READ"}, last : 0..MaxDrawn, first : BOOLEAN]
      BY RowsAreRows DEF NoCall
    <3> QED BY <3>1 DEF UpsertCaseTraces, MaterialInv, MaterialTypeOK
  <2>4. \A c \in Cods' : cod'[c].of \in Traces'
    BY <1>3, <1>4, <1>5
  <2> QED BY <1>1, <1>2, <1>6, <2>1, <2>2, <2>3, <2>4
          DEF MaterialInv, MaterialTypeOK, TraceRow, CodRow, encoding
<1>8. TaskInv' /\ FaceInv' /\ \A t \in Drawn \ Traces' : face'[t] = 0
  <2>1. \A c \in Cods : c \in Cods' /\ cod'[c].of = cod[c].of
    BY <1>4, <1>5
  <2>2. \A t \in Traces : t \in Traces' /\ trace'[t].chosen = trace[t].chosen
    BY <1>1, <1>4
  <2>3. Traces' \subseteq Drawn
    BY DEF Traces
  <2> QED BY <1>2, <2>1, <2>2, <2>3, RowsCome DEF encoding
<1>9. DrawnInv'
  <2>0. drawn \in Nat /\ drawn' \in Nat /\ drawn <= drawn' /\ Drawn \subseteq Nat /\ \A c \in fresh : c >= 1 /\ c \in Nat
    BY <1>1, RowsAreRows DEF MaterialInv, MaterialTypeOK, Drawn
  <2>1. \A t \in Traces' : t <= drawn' /\ cod'[t].seq = 1
    BY <1>1, <1>3, <1>4, <1>5, <2>0, RowsHang DEF MaterialInv, DrawnInv
  <2>2. \A c \in Cods' : c <= drawn' /\ cod'[c].seq <= c
    BY <1>1, <1>3, <1>4, <1>5, <2>0 DEF MaterialInv, DrawnInv
  <2>3. dropping' # 0 => dropping' \in Cods' /\ cod'[dropping'].seq > 1
    BY <1>2, <1>4, <1>5 DEF MaterialInv, DrawnInv, encoding
  <2> QED BY <1>2, <1>8, <2>1, <2>2, <2>3 DEF MaterialInv, DrawnInv
<1> QED BY <1>7, <1>8, <1>9 DEF MaterialInv

\* The traces that a delete leaves stand as they are, with their versions, tasks and faces.
LEMMA CascadeStep ==
  ASSUME MaterialInv, NEW ts \in SUBSET Traces, Cascade(ts), UNCHANGED <<call, drawn>>,
         file' \in BOOLEAN, evidence' \in BOOLEAN, evidence' => file', Traces \ ts # {} => evidence',
         removing' \in [at : {"NONE", "COUNTED"}, seen : SUBSET Drawn], removing'.seen = {}
  PROVE  MaterialInv'
<1> USE DEF MaterialInv
<1>1. Traces' = Traces \ ts /\ \A t \in Traces' : trace'[t] = trace[t] /\ face'[t] = face[t] /\ t \in Traces
  <2>1. trace' = [t \in Drawn |-> IF t \in ts THEN No ELSE trace[t]] /\ face' = [t \in Drawn |-> IF t \in ts THEN 0 ELSE face[t]]
    BY DEF Cascade
  <2> QED BY <2>1 DEF Traces
<1>2. /\ Cods' = {c \in Cods : cod[c].of \notin ts}
      /\ \A c \in Cods' : cod'[c] = cod[c] /\ codEmb'[c] = codEmb[c] /\ c \in Cods /\ cod[c].of \in Traces'
      /\ \A c \in Drawn \ Cods' : cod'[c] = No
  <2>1. /\ cod' = [c \in Drawn |-> IF c \in Cods /\ cod[c].of \in ts THEN No ELSE cod[c]]
        /\ codEmb' = [c \in Drawn |-> IF c \in Cods /\ cod[c].of \in ts THEN 0 ELSE codEmb[c]]
    BY DEF Cascade
  <2>2. Cods' = {c \in Cods : cod[c].of \notin ts}
    BY <2>1 DEF Cods
  <2>3. \A c \in Cods : cod[c].of \in Traces
    BY RowsHang
  <2>4. \A c \in Cods' : cod'[c] = cod[c] /\ codEmb'[c] = codEmb[c]
    BY <2>1, <2>2 DEF Cods
  <2>5. \A c \in Drawn \ Cods' : cod'[c] = No
    BY DEF Cods
  <2> QED BY <2>2, <2>3, <2>4, <2>5, <1>1
<1>3. \A t \in Traces' : /\ t \in Cods' /\ cod'[t].of = t
                         /\ ChosenOf(t)' = ChosenOf(t) /\ ChosenOf(t) \in Cods' /\ cod'[ChosenOf(t)].of = t
  <2>1. \A t \in Traces' : ChosenOf(t)' = ChosenOf(t)
    BY <1>1 DEF ChosenOf
  <2> QED BY <1>1, <1>2, <2>1, RowsHang
<1>4. tasks' \subseteq tasks /\ (\A x \in tasks' : x.cod \in Cods') /\ \A x \in tasks : x.cod \in Cods' => x \in tasks'
  <2>1. tasks' = {x \in tasks : cod'[x.cod] # No}
    BY DEF Cascade
  <2>2. \A x \in tasks : x.cod \in Drawn
    BY DEF MaterialTypeOK
  <2> QED BY <2>1, <2>2 DEF Cods
<1>5. \A t \in Traces' : TaskOn(t)' = TaskOn(t)
  <2>1. SUFFICES ASSUME NEW t \in Traces', NEW x
                 PROVE  x \in TaskOn(t)' <=> x \in TaskOn(t)
    OBVIOUS
  <2>2. x \in TaskOn(t)' => x \in TaskOn(t)
    BY <1>2, <1>4 DEF TaskOn
  <2>3. x \in TaskOn(t) => x \in TaskOn(t)'
    BY <1>1, <1>2, <1>4 DEF TaskOn, TaskInv
  <2> QED BY <2>2, <2>3
<1>6. dropping' = 0 \/ (dropping' = dropping /\ dropping \in Cods')
  <2>1. dropping' = IF dropping # 0 /\ cod'[dropping] = No THEN 0 ELSE dropping
    BY DEF Cascade
  <2>2. dropping # 0 => dropping \in Drawn
    BY DEF DrawnInv, Cods
  <2> QED BY <2>1, <2>2 DEF Cods
<1>7. MaterialTypeOK'
  <2>1. trace' \in [Drawn -> TraceRow \cup {No}] /\ face' \in [Drawn -> 0..MaxDrawn]
    BY RowsAreRows DEF Cascade, MaterialTypeOK, TraceRow
  <2>2. cod' \in [Drawn -> CodRow \cup {No}] /\ codEmb' \in [Drawn -> 0..MaxDrawn]
    BY RowsAreRows DEF Cascade, MaterialTypeOK, CodRow
  <2>3. dropping' \in 0..MaxDrawn /\ crossed' \subseteq Drawn /\ tasks' \subseteq WorkerTask
    BY <1>4, <1>6, RowsAreRows DEF MaterialTypeOK, WorkerTask, Cascade
  <2>4. \A c \in Cods' : cod'[c].of \in Traces'
    BY <1>2
  <2>5. \A t \in Traces' : evidence' /\ t \in CodsOf(t)' /\ ChosenOf(t)' \in CodsOf(t)'
    BY <1>1, <1>3 DEF CodsOf
  <2> QED BY <2>1, <2>2, <2>3, <2>4, <2>5 DEF MaterialTypeOK, TraceRow, CodRow, WorkerTask
<1>8. DrawnInv'
  <2>1. \A t \in Drawn \ Traces' : face'[t] = 0
    <3>1. \A t \in Drawn \ Traces' : t \in ts \/ t \notin Traces
      BY <1>1
    <3> QED BY <3>1 DEF Cascade, DrawnInv
  <2>2. \A t \in Traces' : t <= drawn' /\ cod'[t].seq = 1
    BY <1>1, <1>2, <1>3 DEF DrawnInv
  <2>3. \A c \in Cods' : c <= drawn' /\ cod'[c].seq <= c
    BY <1>2 DEF DrawnInv
  <2> QED BY <1>2, <1>6, <2>1, <2>2, <2>3 DEF DrawnInv
<1>9. TaskInv'
  <2>1. \A c \in Cods' : ForRecognition(c)' = ForRecognition(c)
    BY <1>2, <1>3 DEF ForRecognition
  <2> QED BY <1>2, <1>4, <1>5, <2>1 DEF TaskInv, Uncrossed
<1>10. FaceInv'
  <2>1. \A t \in Traces' \ crossed' : t \in Traces \ crossed
    BY <1>1 DEF Cascade
  <2>2. \A t \in Traces' : Halfway(t)' = Halfway(t)
    BY <1>3, <1>5 DEF Halfway
  <2>3. \A t \in Traces' : Agrees(t)' = Agrees(t)
    BY <1>1, <1>2, <1>3 DEF Agrees
  <2> QED BY <1>1, <2>1, <2>2, <2>3 DEF FaceInv
<1> QED BY <1>7, <1>8, <1>9, <1>10

\* A trace goes with all it has.
LEMMA DeleteTraceStep ==
  ASSUME MaterialInv, NEW t \in Drawn, DeleteTrace(t)
  PROVE  MaterialInv'
<1>1. Cascade({t}) /\ {t} \in SUBSET Traces /\ UNCHANGED <<file, evidence, call, removing, drawn>>
  BY DEF DeleteTrace, marking
<1> QED BY <1>1, CascadeStep DEF MaterialInv, MaterialTypeOK, DrawnInv

\* All traces go with the file.
LEMMA DeleteCaseFileStep ==
  ASSUME MaterialInv, DeleteCaseFile
  PROVE  MaterialInv'
<1>1. /\ Cascade(Traces) /\ UNCHANGED <<call, drawn>> /\ file' = FALSE /\ evidence' = FALSE
      /\ removing' = [at |-> "NONE", seen |-> {}]
  BY DEF DeleteCaseFile
<1> QED BY <1>1, CascadeStep

-----------------------------------------------------------------------------
(* Versions.                                                               *)

\* The next number of a trace's versions is not its original's, and no greater than the next id.
LEMMA NextNumber ==
  ASSUME MaterialInv, NEW t \in Traces
  PROVE  NextCodificationSequence(t) \in 2..(drawn + 1)
<1> DEFINE S == {cod[c].seq : c \in CodsOf(t)}
<1>1. drawn \in 0..MaxDrawn /\ MaxDrawn \in Nat
  BY RowsAreRows DEF MaterialInv, MaterialTypeOK
<1>2. \A c \in CodsOf(t) : cod[c].seq \in 1..drawn
  <2>1. SUFFICES ASSUME NEW c \in CodsOf(t)
                 PROVE  cod[c].seq \in 1..drawn
    OBVIOUS
  <2>2. c \in Cods /\ c \in Drawn /\ cod[c] \in CodRow /\ c <= drawn /\ cod[c].seq <= c
    BY RowsHang DEF MaterialInv, DrawnInv, CodsOf
  <2> QED BY <1>1, <2>2 DEF CodRow, Drawn
<1>3. t \in CodsOf(t) /\ cod[t].seq = 1
  BY RowsHang DEF MaterialInv, DrawnInv, CodsOf
<1>4. S \subseteq 1..drawn /\ 1 \in S
  BY <1>2, <1>3
<1>5. Max(S) \in S /\ \A s \in S : s <= Max(S)
  <2>1. IsFiniteSet(1..drawn)
    BY <1>1, FS_Interval
  <2> HIDE DEF S
  <2>2. S \in SUBSET (1..drawn) /\ S \in SUBSET Int /\ S # {}
    BY <1>1, <1>4
  <2>3. IsFiniteSet(S)
    BY <2>1, <2>2, FS_Subset
  <2> QED BY <2>2, <2>3, MaxIsGreatest
<1>6. Max(S) + 1 \in 2..(drawn + 1)
  <2>1. Max(S) \in 1..drawn
    BY <1>4, <1>5
  <2> HIDE DEF S
  <2> QED BY <1>1, <2>1
<1> QED BY <1>6 DEF NextCodificationSequence

\* A codification is added, or its image replaced.
LEMMA CodStep ==
  ASSUME MaterialInv, NEW c \in Drawn, NEW t \in Traces, NEW row \in CodRow,
         UNCHANGED <<marking, encoding, trace>>,
         drawn' \in 0..MaxDrawn, drawn <= drawn', c <= drawn', cod' = [cod EXCEPT ![c] = row],
         row.of = t, row.seq <= c,
         c \in Cods => row.of = cod[c].of /\ row.seq = cod[c].seq
  PROVE  MaterialInv'
<1> USE DEF MaterialInv, marking, encoding
<1>0. cod \in [Drawn -> CodRow \cup {No}] /\ drawn \in Nat /\ drawn' \in Nat /\ Drawn \subseteq Nat
  BY RowsAreRows DEF MaterialTypeOK, CodRow, Drawn
<1>1. Traces' = Traces /\ \A u : ChosenOf(u)' = ChosenOf(u)
  BY DEF Traces, ChosenOf
<1>2. Cods' = Cods \cup {c} /\ cod'[c] = row /\ \A d \in Cods : d # c => cod'[d] = cod[d]
  BY <1>0, RowsAreRows DEF Cods
<1>3. \A d \in Cods : d \in Cods' /\ cod'[d].of = cod[d].of /\ cod'[d].seq = cod[d].seq
  BY <1>2
<1>4. MaterialTypeOK'
  <2>1. cod' \in [Drawn -> CodRow \cup {No}]
    BY <1>0
  <2>2. \A d \in Cods' : cod'[d].of \in Traces'
    BY <1>1, <1>2, <1>3, RowsHang
  <2>3. \A u \in Traces' : u \in CodsOf(u)' /\ ChosenOf(u)' \in CodsOf(u)'
    BY <1>1, <1>3, RowsHang DEF CodsOf
  <2> QED BY <1>1, <2>1, <2>2, <2>3 DEF MaterialTypeOK, CodRow
<1>5. TaskInv' /\ FaceInv'
  BY <1>1, <1>3, RowsCome, RowsHang
<1>6. DrawnInv'
  <2>0. \A d \in Drawn : d <= drawn => d <= drawn'
    BY <1>0
  <2>1. ASSUME NEW u \in Traces'
        PROVE  u <= drawn' /\ cod'[u].seq = 1
    <3>1. u \in Traces /\ u \in Drawn /\ u \in Cods /\ u <= drawn /\ cod[u].seq = 1
      BY <1>1, RowsHang DEF DrawnInv
    <3> QED BY <1>3, <2>0, <3>1
  <2>2. \A d \in Cods' : d <= drawn' /\ cod'[d].seq <= d
    <3>1. ASSUME NEW d \in Cods'
          PROVE  d <= drawn' /\ cod'[d].seq <= d
      <4>1. CASE d = c
        BY <1>2, <4>1
      <4>2. CASE d # c
        <5>1. d \in Cods /\ d \in Drawn /\ d <= drawn /\ cod[d].seq <= d
          BY <1>2, <4>2, RowsHang DEF DrawnInv
        <5> QED BY <1>2, <2>0, <4>2, <5>1
      <4> QED BY <4>1, <4>2
    <3> QED BY <3>1
  <2>3. dropping' # 0 => dropping' \in Cods' /\ cod'[dropping'].seq > 1
    BY <1>3 DEF DrawnInv
  <2> QED BY <1>1, <2>1, <2>2, <2>3 DEF DrawnInv
<1> QED BY <1>4, <1>5, <1>6

\* A version comes, which nobody chose.
LEMMA CreateVersionStep ==
  ASSUME MaterialInv, NEW t \in Drawn, CreateCodificationVersion(t)
  PROVE  MaterialInv'
<1> DEFINE row == [of |-> t, seq |-> NextCodificationSequence(t), image |-> drawn + 1]
           c   == drawn + 1
<1>1. t \in Traces /\ drawn < MaxDrawn /\ drawn' = c /\ UNCHANGED <<marking, encoding, trace>> /\ cod' = [cod EXCEPT ![c] = row]
  BY DEF CreateCodificationVersion
<1>2. MaxDrawn \in Nat /\ drawn \in 0..MaxDrawn
  BY RowsAreRows DEF MaterialInv, MaterialTypeOK
<1>3. NextCodificationSequence(t) \in 2..(drawn + 1)
  BY <1>1, NextNumber
<1>4. c \in Drawn /\ drawn <= drawn' /\ c <= drawn' /\ drawn' \in 0..MaxDrawn
  BY <1>1, <1>2 DEF Drawn
<1>5. row \in CodRow /\ row.of = t /\ row.seq <= c
  BY <1>1, <1>2, <1>3, <1>4 DEF CodRow, Drawn
<1>6. c \notin Cods
  <2>1. ~(c <= drawn)
    BY <1>2
  <2> QED BY <2>1 DEF MaterialInv, DrawnInv
<1> HIDE DEF row, c
<1> QED BY <1>1, <1>4, <1>5, <1>6, CodStep

\* The original gets another image; what was computed of the old one stands.
LEMMA SaveImageStep ==
  ASSUME MaterialInv, NEW t \in Drawn, SaveCodificationImage(t)
  PROVE  MaterialInv'
<1> DEFINE row == [cod[t] EXCEPT !.image = drawn + 1]
<1>1. t \in Traces /\ drawn < MaxDrawn /\ drawn' = drawn + 1 /\ UNCHANGED <<marking, encoding, trace>>
  BY DEF SaveCodificationImage
<1>2. MaxDrawn \in Nat /\ drawn \in 0..MaxDrawn
  BY RowsAreRows DEF MaterialInv, MaterialTypeOK
<1>3. cod[t] \in CodRow /\ cod[t].of = t /\ t \in Cods
  BY <1>1, RowsHang DEF MaterialInv
<1>4. cod' = [cod EXCEPT ![t] = row]
  BY <1>3 DEF SaveCodificationImage, MaterialInv, MaterialTypeOK
<1>5. row \in CodRow /\ row.of = cod[t].of /\ row.seq = cod[t].seq
  BY <1>1, <1>2, <1>3 DEF CodRow, Drawn
<1>6. drawn <= drawn' /\ t <= drawn' /\ drawn' \in 0..MaxDrawn /\ cod[t].seq <= t
  BY <1>1, <1>2, <1>3 DEF MaterialInv, DrawnInv, Drawn
<1> HIDE DEF row
<1> QED BY <1>1, <1>3, <1>4, <1>5, <1>6, CodStep

\* The tasks on a trace are crossed, the others left alone.
LEMMA Crossing ==
  ASSUME MaterialInv, NEW t
  PROVE  /\ Cross(t) \subseteq WorkerTask
         /\ \A y \in Cross(t) : \/ y \in tasks /\ cod[y.cod].of # t
                                \/ y.crossed /\ cod[y.cod].of = t /\ y.cod \in Cods
         /\ \A u : u # t => {y \in Cross(t) : cod[y.cod].of = u} = TaskOn(u)
<1>1. tasks \subseteq WorkerTask /\ \A x \in tasks : x.cod \in Cods
  BY DEF MaterialInv, MaterialTypeOK, TaskInv, WorkerTask
<1>2. ASSUME NEW x \in tasks
      PROVE  LET y == [x EXCEPT !.crossed = TRUE] IN y \in WorkerTask /\ y.crossed /\ y.cod = x.cod
  BY <1>1 DEF WorkerTask
<1>3. Cross(t) \subseteq WorkerTask
  BY <1>1, <1>2 DEF Cross, TaskOn
<1>4. \A y \in Cross(t) : \/ y \in tasks /\ cod[y.cod].of # t
                          \/ y.crossed /\ cod[y.cod].of = t /\ y.cod \in Cods
  BY <1>1, <1>2 DEF Cross, TaskOn
<1>5. ASSUME NEW u, u # t
      PROVE  {y \in Cross(t) : cod[y.cod].of = u} = TaskOn(u)
  <2>1. \A y \in Cross(t) : cod[y.cod].of = u => y \in TaskOn(u)
    BY <1>4, <1>5 DEF TaskOn
  <2>2. \A y \in TaskOn(u) : y \in Cross(t) /\ cod[y.cod].of = u
    BY <1>5 DEF TaskOn, Cross
  <2> QED BY <2>1, <2>2 DEF TaskOn
<1> QED BY <1>3, <1>4, <1>5

\* The face takes the embedding of the version chosen, if it has one, so they agree whatever a task was at.
LEMMA SetRecognitionStep ==
  ASSUME MaterialInv, NEW c \in Drawn, SetRecognitionVersion(c)
  PROVE  MaterialInv'
<1> USE DEF MaterialInv
<1>0. PICK t : t = cod[c].of
  OBVIOUS
<1>1. c \in Cods /\ t \in Traces /\ trace[t] \in TraceRow /\ c # 0 /\ codEmb[c] \in 0..MaxDrawn
  <2>1. c \in Cods
    BY DEF SetRecognitionVersion
  <2>2. c # 0
    BY RowsAreRows DEF Drawn
  <2> QED BY <1>0, <2>1, <2>2, RowsHang DEF MaterialTypeOK
<1>2. /\ trace' = [trace EXCEPT ![t].chosen = c]
      /\ tasks' = IF c # ChosenOf(t) THEN Cross(t) ELSE tasks
      /\ IF codEmb[c] # 0
           THEN face' = [face EXCEPT ![t] = codEmb[c]] /\ crossed' = crossed \ {t}
           ELSE UNCHANGED <<face, crossed>>
      /\ UNCHANGED <<file, evidence, call, removing, cod, codEmb, dropping, drawn>>
  BY <1>0 DEF SetRecognitionVersion, marking
<1>3. trace' \in [Drawn -> TraceRow \cup {No}] /\ trace'[t] \in TraceRow /\ trace'[t].chosen = c
      /\ \A u \in Drawn \ {t} : trace'[u] = trace[u]
  <2>1. trace \in [Drawn -> TraceRow \cup {No}] /\ t \in Drawn
    BY RowsHang, <1>1 DEF MaterialTypeOK, TraceRow
  <2>2. [trace[t] EXCEPT !.chosen = c] \in TraceRow /\ [trace[t] EXCEPT !.chosen = c].chosen = c
    BY <1>1 DEF TraceRow
  <2>3. trace' = [trace EXCEPT ![t] = [trace[t] EXCEPT !.chosen = c]]
    BY <1>2
  <2> QED BY <2>1, <2>2, <2>3
<1>4. Traces' = Traces /\ Cods' = Cods
  BY <1>1, <1>2, <1>3, RowsAreRows DEF Traces, Cods
<1>5. ChosenOf(t)' = c /\ \A u \in Traces \ {t} : ChosenOf(u)' = ChosenOf(u)
  BY <1>1, <1>3 DEF ChosenOf, Traces
<1>6. c = ChosenOf(t) => tasks' = tasks /\ \A u : TaskOn(u)' = TaskOn(u)
  BY <1>2 DEF TaskOn
<1>7. ASSUME NEW u \in Traces \ {t}
      PROVE  TaskOn(u)' = TaskOn(u)
  <2>1. TaskOn(u)' = {x \in tasks' : cod[x.cod].of = u}
    BY <1>2 DEF TaskOn
  <2>2. {x \in Cross(t) : cod[x.cod].of = u} = TaskOn(u)
    BY Crossing
  <2> QED BY <1>2, <1>6, <2>1, <2>2
<1>8. MaterialTypeOK'
  <2>1. \A u \in Traces' : u \in CodsOf(u)' /\ ChosenOf(u)' \in CodsOf(u)'
    <3>1. \A u \in Traces : u \in CodsOf(u) /\ ChosenOf(u) \in CodsOf(u) /\ CodsOf(u)' = CodsOf(u)
      BY <1>2, <1>4 DEF MaterialTypeOK, CodsOf
    <3>2. c \in CodsOf(t)
      BY <1>0, <1>1 DEF CodsOf
    <3> QED BY <1>4, <1>5, <3>1, <3>2
  <2>2. tasks' \subseteq WorkerTask
    BY <1>2, Crossing DEF MaterialTypeOK, WorkerTask
  <2>3. face' \in [Drawn -> 0..MaxDrawn] /\ crossed' \subseteq Drawn
    BY <1>1, <1>2 DEF MaterialTypeOK
  <2> QED BY <1>2, <1>3, <1>4, <2>1, <2>2, <2>3 DEF MaterialTypeOK, TraceRow, WorkerTask
<1>9. DrawnInv'
  <2>1. t \in Drawn
    BY <1>1, RowsHang
  <2>2. \A u \in Drawn \ Traces' : face'[u] = 0
    BY <1>1, <1>2, <1>4, <2>1 DEF DrawnInv, MaterialTypeOK
  <2> QED BY <1>2, <1>4, <2>2 DEF DrawnInv
<1>10. TaskInv'
  <2>1. SUFFICES ASSUME NEW y \in tasks'
                 PROVE  y.cod \in Cods' /\ (~y.crossed => Uncrossed(y)')
    BY DEF TaskInv
  <2>2. CASE c # ChosenOf(t)
    <3>1. y \in Cross(t)
      BY <1>2, <2>2
    <3>2. y.cod \in Cods
      BY <3>1, Crossing DEF TaskInv
    <3>3. ASSUME ~y.crossed
          PROVE  Uncrossed(y)'
      <4>1. y \in tasks /\ cod[y.cod].of # t /\ cod[y.cod].of \in Traces
        BY <3>1, <3>2, <3>3, Crossing, RowsHang
      <4>2. Uncrossed(y)
        BY <3>3, <4>1 DEF TaskInv
      <4>3. ForRecognition(y.cod)' = ForRecognition(y.cod)
        BY <1>2, <1>5, <4>1 DEF ForRecognition
      <4> QED BY <1>2, <1>7, <4>1, <4>2, <4>3 DEF Uncrossed
    <3> QED BY <1>4, <3>2, <3>3
  <2>3. CASE c = ChosenOf(t)
    <3>1. y \in tasks /\ y.cod \in Cods /\ cod[y.cod].of \in Traces
      BY <1>6, <2>3, RowsHang DEF TaskInv
    <3>2. ForRecognition(y.cod)' = ForRecognition(y.cod)
      BY <1>2, <1>5, <2>3, <3>1 DEF ForRecognition
    <3> QED BY <1>2, <1>4, <1>6, <2>3, <3>1, <3>2 DEF TaskInv, Uncrossed
  <2> QED BY <2>2, <2>3
<1>11. FaceInv'
  <2>1. SUFFICES ASSUME NEW u \in Traces' \ crossed'
                 PROVE  Halfway(u)' \/ Agrees(u)'
    BY DEF FaceInv
  <2>2. CASE u = t
    <3>1. t \in Drawn
      BY <1>1, RowsHang
    <3> QED BY <1>2, <1>5, <2>2, <3>1 DEF Agrees, MaterialTypeOK
  <2>3. CASE u # t
    <3>1. u \in Traces \ crossed /\ u \in Drawn /\ face'[u] = face[u]
      BY <1>2, <1>4, <2>3, RowsHang DEF MaterialTypeOK
    <3>2. Halfway(u)' = Halfway(u) /\ Agrees(u)' = Agrees(u)
      BY <1>2, <1>5, <1>7, <2>3, <3>1 DEF Halfway, Agrees
    <3> QED BY <3>1, <3>2 DEF FaceInv
  <2> QED BY <2>2, <2>3
<1> QED BY <1>8, <1>9, <1>10, <1>11

\* A version that may be deleted is noted.
LEMMA DropStep ==
  ASSUME MaterialInv, NEW c \in Drawn, DeleteCodificationVersion(c)
  PROVE  MaterialInv'
<1> USE DEF MaterialInv
<1>1. c \in Cods /\ cod[c].seq > 1 /\ dropping' = c
      /\ UNCHANGED <<file, evidence, call, removing, codEmb, face, tasks, crossed, trace, cod, drawn>>
  BY DEF DeleteCodificationVersion, marking
<1>2. Traces' = Traces /\ Cods' = Cods /\ \A t : CodsOf(t)' = CodsOf(t) /\ ChosenOf(t)' = ChosenOf(t)
  BY <1>1 DEF Traces, Cods, CodsOf, ChosenOf
<1>3. MaterialTypeOK'
  <2>1. dropping' \in 0..MaxDrawn
    BY <1>1, RowsAreRows DEF Drawn
  <2> QED BY <1>1, <1>2, <2>1 DEF MaterialTypeOK
<1>4. TaskInv' /\ FaceInv'
  BY <1>1, <1>2, RowsCome, RowsHang
<1>5. DrawnInv'
  BY <1>1, <1>2 DEF DrawnInv
<1> QED BY <1>3, <1>4, <1>5

\* What goes with a version that was not the chosen one is not what the face waits for.
LEMMA VersionDeletedStep ==
  ASSUME MaterialInv, VersionDeleted
  PROVE  MaterialInv'
<1> USE DEF MaterialInv
<1>0. PICK d, t, gone : d = dropping /\ t = cod[d].of /\ gone = {y \in tasks : y.cod = d}
  OBVIOUS
<1>1. /\ d \in Cods /\ d \in Drawn /\ d # 0 /\ cod[d].seq > 1
      /\ t \in Traces /\ t \in Drawn /\ trace[t] \in TraceRow
  BY <1>0, RowsHang DEF VersionDeleted, DrawnInv
<1>2. d \notin Traces /\ d # t
  BY <1>1, RowsAreRows DEF DrawnInv
<1>3. /\ cod' = [cod EXCEPT ![d] = No] /\ codEmb' = [codEmb EXCEPT ![d] = 0] /\ dropping' = 0
      /\ UNCHANGED <<file, evidence, call, removing, face, drawn>>
  BY <1>0 DEF VersionDeleted, marking
<1>4. \/ /\ trace[t].chosen = d /\ trace' = [trace EXCEPT ![t].chosen = 0]
         /\ tasks' = Cross(t) \ {[y EXCEPT !.crossed = TRUE] : y \in gone} /\ crossed' = crossed \cup {t}
      \/ /\ trace[t].chosen # d /\ trace' = trace
         /\ tasks' = tasks \ gone /\ crossed' = crossed
  BY <1>0 DEF VersionDeleted
<1>5. Cods' = Cods \ {d} /\ \A c \in Cods' : cod'[c] = cod[c] /\ codEmb'[c] = codEmb[c] /\ c \in Cods
  <2>1. Cods' = Cods \ {d}
    BY <1>1, <1>3 DEF MaterialTypeOK, Cods
  <2> QED BY <1>1, <1>3, <2>1 DEF MaterialTypeOK, Cods
<1>6. /\ trace' \in [Drawn -> TraceRow \cup {No}] /\ trace'[t] \in TraceRow
      /\ \A u \in Drawn \ {t} : trace'[u] = trace[u]
      /\ trace[t].chosen = d => trace'[t].chosen = 0
  <2>1. trace \in [Drawn -> TraceRow \cup {No}]
    BY DEF MaterialTypeOK, TraceRow
  <2>2. [trace[t] EXCEPT !.chosen = 0] \in TraceRow /\ [trace[t] EXCEPT !.chosen = 0].chosen = 0
    BY <1>1 DEF TraceRow
  <2>3. trace' = trace \/ trace' = [trace EXCEPT ![t] = [trace[t] EXCEPT !.chosen = 0]]
    BY <1>4
  <2>4. trace[t].chosen = d => trace' = [trace EXCEPT ![t] = [trace[t] EXCEPT !.chosen = 0]]
    BY <1>4
  <2> QED BY <1>1, <2>1, <2>2, <2>3, <2>4
<1>7. Traces' = Traces
  BY <1>1, <1>6, RowsAreRows DEF Traces
<1>8. /\ \A u \in Traces \ {t} : ChosenOf(u)' = ChosenOf(u)
      /\ trace[t].chosen = d => ChosenOf(t)' = t
      /\ trace[t].chosen # d => ChosenOf(t)' = ChosenOf(t) /\ ChosenOf(t) # d
  BY <1>2, <1>4, <1>6 DEF ChosenOf, Traces
<1>9. \A u \in Traces : ChosenOf(u)' \in Cods' /\ cod'[ChosenOf(u)'].of = u /\ u \in Cods' /\ cod'[u].of = u
  <2>1. SUFFICES ASSUME NEW u \in Traces
                 PROVE  ChosenOf(u)' \in Cods' /\ cod'[ChosenOf(u)'].of = u /\ u \in Cods' /\ cod'[u].of = u
    OBVIOUS
  <2>2. u \in Cods' /\ cod'[u].of = u
    BY <1>2, <1>5, RowsHang
  <2>3. CASE u # t
    <3>1. ChosenOf(u) \in Cods /\ cod[ChosenOf(u)].of = u /\ ChosenOf(u) # d
      BY <1>0, <2>3, RowsHang
    <3> QED BY <1>5, <1>8, <2>2, <2>3, <3>1
  <2>4. CASE u = t
    BY <1>5, <1>8, <2>2, <2>4, RowsHang
  <2> QED BY <2>3, <2>4
<1>10. ASSUME NEW y \in tasks'
       PROVE  /\ y \in WorkerTask /\ y.cod \in Cods' /\ cod'[y.cod].of = cod[y.cod].of
              /\ ~y.crossed => y \in tasks /\ (trace[t].chosen = d => cod[y.cod].of # t)
  <2>1. CASE trace[t].chosen = d
    <3>1. y \in Cross(t) /\ y \notin {[z EXCEPT !.crossed = TRUE] : z \in gone}
      BY <1>4, <2>1
    <3>2. y.cod # d
      <4>1. CASE y \in tasks \ TaskOn(t)
        BY <1>0, <4>1 DEF TaskOn
      <4>2. CASE y \in {[z EXCEPT !.crossed = TRUE] : z \in TaskOn(t)}
        <5>1. PICK z \in TaskOn(t) : y = [z EXCEPT !.crossed = TRUE]
          BY <4>2
        <5>2. z \in tasks /\ z \in WorkerTask
          BY DEF TaskOn, MaterialTypeOK, WorkerTask
        <5>3. y.cod = z.cod
          BY <5>1, <5>2 DEF WorkerTask
        <5> QED BY <1>0, <3>1, <5>1, <5>2, <5>3
      <4> QED BY <3>1, <4>1, <4>2 DEF Cross
    <3>3. y.cod \in Cods /\ y \in WorkerTask /\ (~y.crossed => y \in tasks /\ cod[y.cod].of # t)
      BY <3>1, Crossing DEF TaskInv
    <3> QED BY <1>5, <3>2, <3>3
  <2>2. CASE trace[t].chosen # d
    BY <1>0, <1>4, <1>5, <2>2 DEF TaskInv, MaterialTypeOK, WorkerTask
  <2> QED BY <2>1, <2>2
<1>11. ASSUME NEW u \in Traces
       PROVE  /\ u # t => TaskOn(u)' = TaskOn(u)
              /\ trace[t].chosen # d => TaskOn(u)' = TaskOn(u) \ gone
  <2>1. TaskOn(u)' = {y \in tasks' : cod[y.cod].of = u}
    BY <1>10 DEF TaskOn
  <2>2. ASSUME u # t, trace[t].chosen = d
        PROVE  TaskOn(u)' = TaskOn(u)
    <3>1. {y \in Cross(t) : cod[y.cod].of = u} = TaskOn(u)
      BY <2>2, Crossing
    <3>2. \A z \in gone : [z EXCEPT !.crossed = TRUE].cod = d
      BY <1>0 DEF MaterialTypeOK
    <3>3. \A y \in {[z EXCEPT !.crossed = TRUE] : z \in gone} : cod[y.cod].of # u
      BY <1>0, <2>2, <3>2
    <3>4. tasks' = Cross(t) \ {[z EXCEPT !.crossed = TRUE] : z \in gone}
      BY <1>4, <2>2
    <3> QED BY <2>1, <3>1, <3>3, <3>4
  <2>3. ASSUME trace[t].chosen # d
        PROVE  TaskOn(u)' = TaskOn(u) \ gone /\ (u # t => TaskOn(u)' = TaskOn(u))
    <3>1. tasks' = tasks \ gone
      BY <1>4, <2>3
    <3> QED BY <1>0, <2>1, <3>1 DEF TaskOn
  <2> QED BY <2>2, <2>3
<1>12. MaterialTypeOK'
  <2>0. 0 \in 0..MaxDrawn
    BY RowsAreRows
  <2>1. cod' \in [Drawn -> CodRow \cup {No}] /\ codEmb' \in [Drawn -> 0..MaxDrawn]
    <3>1. cod \in [Drawn -> CodRow \cup {No}] /\ codEmb \in [Drawn -> 0..MaxDrawn]
      BY DEF MaterialTypeOK, CodRow
    <3> QED BY <1>3, <2>0, <3>1
  <2>2. \A c \in Cods' : cod'[c].of \in Traces'
    BY <1>5, <1>7, RowsHang
  <2>3. \A u \in Traces' : evidence' /\ u \in CodsOf(u)' /\ ChosenOf(u)' \in CodsOf(u)'
    BY <1>3, <1>7, <1>9 DEF CodsOf, MaterialTypeOK
  <2>4. tasks' \subseteq WorkerTask /\ crossed' \subseteq Drawn
    BY <1>1, <1>4, <1>10 DEF MaterialTypeOK
  <2> QED BY <1>3, <1>6, <2>0, <2>1, <2>2, <2>3, <2>4 DEF MaterialTypeOK, TraceRow, CodRow, WorkerTask
<1>13. DrawnInv'
  <2>1. \A u \in Traces' : u <= drawn' /\ cod'[u].seq = 1
    BY <1>3, <1>5, <1>7, <1>9 DEF DrawnInv
  <2>2. \A c \in Cods' : c <= drawn' /\ cod'[c].seq <= c
    BY <1>3, <1>5 DEF DrawnInv
  <2> QED BY <1>3, <1>7, <2>1, <2>2 DEF DrawnInv
<1>14. TaskInv'
  <2>1. SUFFICES ASSUME NEW y \in tasks', ~y.crossed
                 PROVE  Uncrossed(y)'
    BY <1>10 DEF TaskInv
  <2>2. y \in tasks /\ Uncrossed(y) /\ y.cod \in Cods' /\ cod'[y.cod].of = cod[y.cod].of /\ cod[y.cod].of \in Traces
    BY <1>5, <1>10, <2>1, RowsHang DEF TaskInv
  <2>3. TaskOn(cod[y.cod].of)' = {y}
    <3>1. PICK u : u = cod[y.cod].of
      OBVIOUS
    <3>2. TaskOn(u) = {y} /\ u \in Traces
      BY <2>2, <3>1 DEF Uncrossed
    <3>3. TaskOn(u)' = {y}
      BY <1>0, <1>5, <1>10, <1>11, <2>1, <2>2, <3>1, <3>2
    <3> QED BY <2>2, <3>1, <3>3
  <2>4. ForRecognition(y.cod)' = ForRecognition(y.cod)
    <3>1. PICK u : u = cod[y.cod].of
      OBVIOUS
    <3>2. ChosenOf(u)' = ChosenOf(u)
      BY <1>8, <1>10, <2>1, <2>2, <3>1
    <3> QED BY <2>2, <3>1, <3>2 DEF ForRecognition
  <2> QED BY <1>5, <2>2, <2>3, <2>4 DEF Uncrossed
<1>15. FaceInv'
  <2>1. SUFFICES ASSUME NEW u \in Traces' \ crossed'
                 PROVE  Halfway(u)' \/ Agrees(u)'
    BY DEF FaceInv
  <2>2. u \in Traces \ crossed /\ ChosenOf(u)' = ChosenOf(u) /\ ChosenOf(u) # d
    <3>1. u \in Traces \ crossed /\ (u = t => trace[t].chosen # d)
      BY <1>4, <1>7
    <3>2. u # t => ChosenOf(u) # d
      BY <1>0, <3>1, RowsHang
    <3> QED BY <1>8, <3>1, <3>2
  <2>3. Agrees(u)' = Agrees(u)
    <3>1. ChosenOf(u) \in Cods'
      BY <1>5, <2>2, RowsHang
    <3> QED BY <1>3, <1>5, <2>2, <3>1 DEF Agrees
  <2>4. Halfway(u) => Halfway(u)'
    <3>1. \A y \in TaskOn(u) : y.cod # d => y \in TaskOn(u)'
      BY <1>0, <1>4, <1>7, <1>11, <2>2
    <3> QED BY <2>2, <3>1 DEF Halfway
  <2> QED BY <2>2, <2>3, <2>4 DEF FaceInv
<1> QED BY <1>12, <1>13, <1>14, <1>15

-----------------------------------------------------------------------------
(* The worker.                                                             *)

\* What a task changes.
LEMMA WorkerStep ==
  ASSUME MaterialInv, UNCHANGED <<marking, dropping, trace, cod, drawn>>,
         codEmb' \in [Drawn -> 0..MaxDrawn], face' \in [Drawn -> 0..MaxDrawn],
         \A t \in Drawn \ Traces : face'[t] = 0,
         tasks' \subseteq WorkerTask, crossed' \subseteq Drawn, TaskInv', FaceInv'
  PROVE  MaterialInv'
<1>1. Traces' = Traces /\ Cods' = Cods /\ \A t : CodsOf(t)' = CodsOf(t) /\ ChosenOf(t)' = ChosenOf(t)
  BY DEF Traces, Cods, CodsOf, ChosenOf
<1>2. MaterialTypeOK'
  BY <1>1 DEF MaterialInv, MaterialTypeOK, WorkerTask, marking
<1>3. DrawnInv'
  BY <1>1 DEF MaterialInv, DrawnInv, marking
<1> QED BY <1>2, <1>3 DEF MaterialInv

\* When one task goes on or ends, those that nothing crossed stand: they are on other traces.
LEMMA TaskGoesOn ==
  ASSUME MaterialInv, NEW x \in tasks, NEW more, tasks' = (tasks \ {x}) \cup more, UNCHANGED <<trace, cod>>,
         \A c \in Cods \ {x.cod} : codEmb'[c] = codEmb[c],
         \A z \in more : z.cod = x.cod /\ (~z.crossed => Uncrossed(z)')
  PROVE  /\ TaskInv'
         /\ \A u : TaskOn(u)' = IF u = cod[x.cod].of THEN (TaskOn(u) \ {x}) \cup more ELSE TaskOn(u)
<1> USE DEF MaterialInv
<1>0. x.cod \in Cods /\ \A t : ChosenOf(t)' = ChosenOf(t)
  BY DEF TaskInv, ChosenOf
<1>1. ASSUME NEW u
      PROVE  TaskOn(u)' = IF u = cod[x.cod].of THEN (TaskOn(u) \ {x}) \cup more ELSE TaskOn(u)
  <2>1. TaskOn(u)' = {y \in (tasks \ {x}) \cup more : cod[y.cod].of = u}
    BY DEF TaskOn
  <2> QED BY <2>1 DEF TaskOn
<1>2. ASSUME NEW y \in tasks \ {x}, ~y.crossed
      PROVE  Uncrossed(y)'
  <2>1. Uncrossed(y) /\ y.cod \in Cods
    BY <1>2 DEF TaskInv
  <2>2. PICK u : u = cod[y.cod].of
    OBVIOUS
  <2>3. u # cod[x.cod].of
    BY <1>2, <2>1, <2>2 DEF Uncrossed, TaskOn
  <2>4. TaskOn(u)' = {y}
    BY <1>1, <2>1, <2>2, <2>3 DEF Uncrossed
  <2>5. y.cod # x.cod
    BY <2>2, <2>3
  <2>6. ForRecognition(y.cod)' = ForRecognition(y.cod)
    BY DEF ForRecognition, ChosenOf
  <2> QED BY <2>1, <2>2, <2>4, <2>5, <2>6 DEF Uncrossed
<1>3. TaskInv'
  <2>1. Cods' = Cods
    BY DEF Cods
  <2> QED BY <1>0, <1>2, <2>1 DEF TaskInv
<1> QED BY <1>1, <1>3

\* A face that waited, or agreed, does so after a step that touches neither it nor its version's embedding.
LEMMA FaceStands ==
  ASSUME MaterialInv, NEW u \in Traces \ crossed, UNCHANGED <<trace, cod>>, face'[u] = face[u],
         codEmb'[ChosenOf(u)] = codEmb[ChosenOf(u)],
         \A x \in TaskOn(u) : x.at = "STORED" => \E y \in TaskOn(u)' : y.at = "STORED" /\ y.cod = x.cod
  PROVE  Halfway(u)' \/ Agrees(u)'
<1>1. ChosenOf(u)' = ChosenOf(u)
  BY DEF ChosenOf
<1>2. Halfway(u) \/ Agrees(u)
  BY DEF MaterialInv, FaceInv
<1> QED BY <1>1, <1>2 DEF Halfway, Agrees

\* A task that finds others on its trace crosses them and is crossed.
LEMMA TaskReadsStep ==
  ASSUME MaterialInv, NEW c \in Drawn, TaskReads(c)
  PROVE  MaterialInv'
<1> USE DEF MaterialInv
<1>0. PICK t, new : /\ t = cod[c].of
                    /\ new = [cod |-> c, picture |-> Picture(c), chosen |-> ForRecognition(c), at |-> "READ",
                              crossed |-> TaskOn(t) # {}]
  OBVIOUS
<1>1. /\ c \in Cods /\ tasks' = Cross(t) \cup {new}
      /\ UNCHANGED <<marking, codEmb, face, crossed, dropping, trace, cod, drawn>>
  BY <1>0 DEF TaskReads
<1>2. /\ new \in WorkerTask /\ new.cod = c /\ new.at = "READ" /\ new.chosen = ForRecognition(c)
      /\ new.crossed = (TaskOn(t) # {})
  <2>1. Picture(c) \in Drawn
    BY <1>1, RowsHang DEF Picture, TraceRow, CodRow
  <2>2. ForRecognition(c) \in BOOLEAN /\ (TaskOn(t) # {}) \in BOOLEAN
    BY DEF ForRecognition
  <2> QED BY <1>0, <2>1, <2>2 DEF WorkerTask
<1>3. ASSUME NEW u
      PROVE  /\ u # t => TaskOn(u)' = TaskOn(u)
             /\ u = t => TaskOn(u)' = {y \in Cross(t) : cod[y.cod].of = t} \cup {new}
  <2>1. TaskOn(u)' = {y \in Cross(t) \cup {new} : cod[y.cod].of = u}
    BY <1>1 DEF TaskOn
  <2>2. u # t => {y \in Cross(t) : cod[y.cod].of = u} = TaskOn(u)
    BY Crossing
  <2> QED BY <1>0, <1>2, <2>1, <2>2
<1>4. \A d : ForRecognition(d)' = ForRecognition(d)
  BY <1>1 DEF ForRecognition, ChosenOf
<1>5. TaskInv'
  <2>1. SUFFICES ASSUME NEW y \in tasks'
                 PROVE  y.cod \in Cods' /\ (~y.crossed => Uncrossed(y)')
    BY DEF TaskInv
  <2>2. y.cod \in Cods'
    <3>1. y.cod \in Cods
      BY <1>1, <1>2, Crossing DEF TaskInv
    <3> QED BY <1>1, <3>1 DEF Cods
  <2>3. ASSUME ~y.crossed, y = new
        PROVE  Uncrossed(y)'
    <3>1. TaskOn(t) = {}
      BY <1>2, <2>3
    <3>2. Cross(t) = tasks
      BY <3>1 DEF Cross
    <3>3. TaskOn(t)' = {new}
      BY <1>3, <3>1, <3>2 DEF TaskOn
    <3>4. cod'[y.cod].of = t
      BY <1>0, <1>1, <1>2, <2>3
    <3>5. TaskOn(cod[y.cod].of)' = {y}
      BY <2>3, <3>3, <3>4
    <3> QED BY <1>2, <1>4, <2>3, <3>5 DEF Uncrossed
  <2>4. ASSUME ~y.crossed, y # new
        PROVE  Uncrossed(y)'
    <3>1. y \in tasks /\ cod[y.cod].of # t
      BY <1>1, <2>4, Crossing
    <3>2. Uncrossed(y)
      BY <2>4, <3>1 DEF TaskInv
    <3>3. PICK u : u = cod[y.cod].of
      OBVIOUS
    <3>4. TaskOn(u)' = TaskOn(u)
      BY <1>3, <3>1, <3>3
    <3> QED BY <1>1, <1>4, <3>2, <3>3, <3>4 DEF Uncrossed
  <2> QED BY <2>2, <2>3, <2>4
<1>6. FaceInv'
  <2>1. SUFFICES ASSUME NEW u \in Traces \ crossed
                 PROVE  Halfway(u)' \/ Agrees(u)'
    BY <1>1 DEF FaceInv, Traces
  <2>2. ASSUME NEW x \in TaskOn(u)
        PROVE  \E y \in TaskOn(u)' : y.at = x.at /\ y.cod = x.cod
    <3>1. CASE u # t
      BY <1>3, <3>1
    <3>2. CASE u = t
      <4> DEFINE y == [x EXCEPT !.crossed = TRUE]
      <4>1. y.at = x.at /\ y.cod = x.cod
        BY DEF TaskOn, MaterialTypeOK
      <4>2. y \in Cross(t) /\ cod[y.cod].of = t
        BY <3>2, <4>1 DEF Cross, TaskOn
      <4> HIDE DEF y
      <4> QED BY <1>3, <3>2, <4>1, <4>2
    <3> QED BY <3>1, <3>2
  <2> QED BY <1>1, <2>2, FaceStands
<1>7. tasks' \subseteq WorkerTask
  BY <1>1, <1>2, Crossing
<1> QED BY <1>1, <1>5, <1>6, <1>7, WorkerStep DEF MaterialTypeOK, DrawnInv

\* What a task of the invariant has, and what its end or its next step leaves alone.
LEMMA TaskHas ==
  ASSUME MaterialInv, NEW x \in tasks
  PROVE  /\ x \in WorkerTask /\ x.cod \in Cods /\ x.cod \in Drawn /\ cod[x.cod].of \in Traces
         /\ \A u \in Traces : u # cod[x.cod].of => ChosenOf(u) # x.cod
BY RowsHang DEF MaterialInv, MaterialTypeOK, WorkerTask, TaskInv

\* A task stores an embedding; the face waits for it if it is the chosen version's.
LEMMA TaskStoresStep ==
  ASSUME MaterialInv, NEW x \in tasks, TaskStores(x)
  PROVE  MaterialInv'
<1> USE DEF MaterialInv
<1>0. PICK t, z : t = cod[x.cod].of /\ z = [x EXCEPT !.at = "STORED"]
  OBVIOUS
<1>1. /\ x.at = "READ" /\ codEmb' = [codEmb EXCEPT ![x.cod] = x.picture]
      /\ UNCHANGED <<marking, face, dropping, trace, cod, drawn>>
      /\ IF x.chosen THEN tasks' = (tasks \ {x}) \cup {z} /\ crossed' = crossed
         ELSE tasks' = tasks \ {x} /\ crossed' = IF x.crossed THEN crossed \cup {t} ELSE crossed
  BY <1>0 DEF TaskStores, Ended
<1>2. /\ z \in WorkerTask /\ z.cod = x.cod /\ z.at = "STORED" /\ z.crossed = x.crossed /\ z.chosen = x.chosen
      /\ z.picture = x.picture /\ x.picture \in Drawn
  BY <1>0, TaskHas DEF WorkerTask
<1>3. codEmb' \in [Drawn -> 0..MaxDrawn] /\ codEmb'[x.cod] = x.picture /\ \A c \in Drawn \ {x.cod} : codEmb'[c] = codEmb[c]
  <2>1. codEmb \in [Drawn -> 0..MaxDrawn] /\ x.cod \in Drawn
    BY TaskHas DEF MaterialTypeOK
  <2>2. x.picture \in 0..MaxDrawn
    BY <1>2, RowsAreRows DEF Drawn
  <2> QED BY <1>1, <2>1, <2>2
<1>4. PICK more : tasks' = (tasks \ {x}) \cup more /\ more = IF x.chosen THEN {z} ELSE {}
  BY <1>1
<1>5. ASSUME x.chosen, ~z.crossed
      PROVE  Uncrossed(z)'
  <2>1. Uncrossed(x) /\ TaskOn(t) = {x}
    BY <1>0, <1>2, <1>5 DEF TaskInv, Uncrossed
  <2>2. cod'[z.cod].of = t
    BY <1>0, <1>1, <1>2
  <2>3. TaskOn(t)' = {z}
    <3>1. TaskOn(t)' = {y \in (tasks \ {x}) \cup {z} : cod[y.cod].of = t}
      BY <1>1, <1>5 DEF TaskOn
    <3> QED BY <1>0, <1>2, <2>1, <3>1 DEF TaskOn
  <2>4. TaskOn(cod[z.cod].of)' = {z}
    BY <2>2, <2>3
  <2>5. ForRecognition(z.cod)' = ForRecognition(x.cod)
    BY <1>1, <1>2 DEF ForRecognition, ChosenOf
  <2> QED BY <1>2, <1>3, <1>5, <2>1, <2>4, <2>5 DEF Uncrossed
<1>6. /\ TaskInv'
      /\ \A u : TaskOn(u)' = IF u = t THEN (TaskOn(u) \ {x}) \cup more ELSE TaskOn(u)
  <2>1. \A y \in more : y.cod = x.cod /\ (~y.crossed => Uncrossed(y)')
    BY <1>2, <1>4, <1>5
  <2>2. \A c \in Cods \ {x.cod} : codEmb'[c] = codEmb[c]
    BY <1>3 DEF Cods
  <2>3. tasks' = (tasks \ {x}) \cup more /\ UNCHANGED <<trace, cod>>
    BY <1>1, <1>4
  <2>4. TaskInv' /\ \A u : TaskOn(u)' = IF u = cod[x.cod].of THEN (TaskOn(u) \ {x}) \cup more ELSE TaskOn(u)
    BY <2>1, <2>2, <2>3, TaskGoesOn
  <2> QED BY <1>0, <2>4
<1>7. FaceInv'
  <2>1. SUFFICES ASSUME NEW u \in Traces, u \notin crossed'
                 PROVE  Halfway(u)' \/ Agrees(u)'
    BY <1>1 DEF FaceInv, Traces
  <2>2. CASE u = t /\ x.chosen /\ x.cod = ChosenOf(t)
    <3>1. z \in TaskOn(t)'
      BY <1>4, <1>6, <2>2
    <3>2. ChosenOf(t)' = ChosenOf(t)
      BY <1>1 DEF ChosenOf
    <3> QED BY <1>2, <2>2, <3>1, <3>2 DEF Halfway
  <2>3. CASE ~(u = t /\ x.chosen /\ x.cod = ChosenOf(t))
    <3>1. u \notin crossed
      BY <1>1, <2>1
    <3>2. x.cod # ChosenOf(u)
      <4>1. CASE u # t
        BY <1>0, <4>1, TaskHas
      <4>2. CASE u = t /\ ~x.chosen
        <5>1. ~x.crossed
          BY <1>1, <2>1, <4>2
        <5> QED BY <1>0, <4>2, <5>1 DEF TaskInv, Uncrossed, ForRecognition
      <4> QED BY <2>3, <4>1, <4>2
    <3>3. codEmb'[ChosenOf(u)] = codEmb[ChosenOf(u)]
      BY <1>3, <3>2, RowsHang
    <3>4. \A y \in TaskOn(u) : y.at = "STORED" => y \in TaskOn(u)'
      BY <1>1, <1>6
    <3> QED BY <1>1, <3>1, <3>3, <3>4, FaceStands
  <2> QED BY <2>2, <2>3
<1>8. tasks' \subseteq WorkerTask /\ crossed' \subseteq Drawn
  <2>1. t \in Drawn
    BY <1>0, TaskHas, RowsHang
  <2> QED BY <1>1, <1>2, <2>1 DEF MaterialTypeOK, WorkerTask
<1> QED BY <1>1, <1>3, <1>6, <1>7, <1>8, WorkerStep DEF MaterialTypeOK, DrawnInv

\* An uncrossed task writes what its version has, a crossed one marks its trace.
LEMMA TaskStoresFaceStep ==
  ASSUME MaterialInv, NEW x \in tasks, TaskStoresFace(x)
  PROVE  MaterialInv'
<1> USE DEF MaterialInv
<1>0. PICK t : t = cod[x.cod].of
  OBVIOUS
<1>1. /\ x.at = "STORED" /\ face' = [face EXCEPT ![t] = x.picture] /\ tasks' = tasks \ {x}
      /\ UNCHANGED <<marking, codEmb, dropping, trace, cod, drawn>>
      /\ crossed' = IF x.crossed THEN crossed \cup {t} ELSE crossed \ {t}
  BY <1>0 DEF TaskStoresFace, Ended
<1>2. t \in Traces /\ t \in Drawn /\ x.picture \in Drawn /\ x.crossed \in BOOLEAN
  BY <1>0, TaskHas, RowsHang DEF WorkerTask
<1>3. face' \in [Drawn -> 0..MaxDrawn] /\ face'[t] = x.picture /\ \A u \in Drawn \ {t} : face'[u] = face[u]
  BY <1>1, <1>2, RowsAreRows DEF MaterialTypeOK, Drawn
<1>4. TaskInv' /\ \A u : TaskOn(u)' = IF u = t THEN TaskOn(u) \ {x} ELSE TaskOn(u)
  <2>1. PICK more : more = {}
    OBVIOUS
  <2>2. /\ tasks' = (tasks \ {x}) \cup more /\ UNCHANGED <<trace, cod>>
        /\ \A c \in Cods \ {x.cod} : codEmb'[c] = codEmb[c]
        /\ \A z \in more : z.cod = x.cod /\ (~z.crossed => Uncrossed(z)')
    BY <1>1, <2>1
  <2>3. TaskInv' /\ \A u : TaskOn(u)' = IF u = cod[x.cod].of THEN (TaskOn(u) \ {x}) \cup more ELSE TaskOn(u)
    BY <2>2, TaskGoesOn
  <2> QED BY <1>0, <2>1, <2>3
<1>5. FaceInv'
  <2>1. SUFFICES ASSUME NEW u \in Traces, u \notin crossed'
                 PROVE  Halfway(u)' \/ Agrees(u)'
    BY <1>1 DEF FaceInv, Traces
  <2>2. CASE u = t
    <3>1. ~x.crossed
      BY <1>1, <2>1, <2>2
    <3>2. x.cod = ChosenOf(t) /\ codEmb[x.cod] = x.picture
      BY <1>0, <1>1, <3>1 DEF TaskInv, Uncrossed, ForRecognition
    <3>3. ChosenOf(t)' = ChosenOf(t)
      BY <1>1 DEF ChosenOf
    <3> QED BY <1>1, <1>3, <2>2, <3>2, <3>3 DEF Agrees
  <2>3. CASE u # t
    <3>1. u \in Traces \ crossed /\ face'[u] = face[u] /\ TaskOn(u)' = TaskOn(u)
      BY <1>1, <1>3, <1>4, <2>1, <2>3, RowsHang
    <3> QED BY <1>1, <3>1, FaceStands
  <2> QED BY <2>2, <2>3
<1>6. tasks' \subseteq WorkerTask /\ crossed' \subseteq Drawn
  BY <1>1, <1>2 DEF MaterialTypeOK, WorkerTask
<1>7. \A u \in Drawn \ Traces : face'[u] = 0
  BY <1>2, <1>3 DEF DrawnInv
<1> QED BY <1>1, <1>3, <1>4, <1>5, <1>6, <1>7, WorkerStep DEF MaterialTypeOK

\* A task that dies between its writes marks its trace.
LEMMA TaskEndsStep ==
  ASSUME MaterialInv, NEW x \in tasks, TaskEnds(x)
  PROVE  MaterialInv'
<1> USE DEF MaterialInv
<1>0. PICK t : t = cod[x.cod].of
  OBVIOUS
<1>1. /\ tasks' = tasks \ {x} /\ crossed' = IF x.at = "STORED" THEN crossed \cup {t} ELSE crossed
      /\ UNCHANGED <<marking, codEmb, face, dropping, trace, cod, drawn>>
  BY <1>0 DEF TaskEnds
<1>2. TaskInv' /\ \A u : TaskOn(u)' = IF u = t THEN TaskOn(u) \ {x} ELSE TaskOn(u)
  <2>1. PICK more : more = {}
    OBVIOUS
  <2>2. /\ tasks' = (tasks \ {x}) \cup more /\ UNCHANGED <<trace, cod>>
        /\ \A c \in Cods \ {x.cod} : codEmb'[c] = codEmb[c]
        /\ \A z \in more : z.cod = x.cod /\ (~z.crossed => Uncrossed(z)')
    BY <1>1, <2>1
  <2>3. TaskInv' /\ \A u : TaskOn(u)' = IF u = cod[x.cod].of THEN (TaskOn(u) \ {x}) \cup more ELSE TaskOn(u)
    BY <2>2, TaskGoesOn
  <2> QED BY <1>0, <2>1, <2>3
<1>3. FaceInv'
  <2>1. SUFFICES ASSUME NEW u \in Traces, u \notin crossed'
                 PROVE  Halfway(u)' \/ Agrees(u)'
    BY <1>1 DEF FaceInv, Traces
  <2>2. u \notin crossed /\ (u = t => x.at # "STORED")
    BY <1>1, <2>1
  <2>3. \A y \in TaskOn(u) : y.at = "STORED" => y \in TaskOn(u)'
    BY <1>2, <2>2
  <2> QED BY <1>1, <2>2, <2>3, FaceStands
<1>4. tasks' \subseteq WorkerTask /\ crossed' \subseteq Drawn
  <2>1. t \in Drawn
    BY <1>0, TaskHas, RowsHang
  <2> QED BY <1>1, <2>1 DEF MaterialTypeOK, WorkerTask
<1> QED BY <1>1, <1>2, <1>3, <1>4, WorkerStep DEF MaterialTypeOK, DrawnInv

-----------------------------------------------------------------------------
(* Every step.                                                             *)

\* Every step preserves it.
LEMMA MaterialInvStep == MaterialInv /\ [MaterialNext]_materialVars => MaterialInv'
<1> SUFFICES ASSUME MaterialInv, [MaterialNext]_materialVars
             PROVE  MaterialInv'
  OBVIOUS
<1>1. CASE UNCHANGED materialVars
  <2>1. UNCHANGED <<file, evidence, encoding, trace, cod, drawn>> /\ call' = call /\ removing' = removing
    BY <1>1 DEF materialVars, marking, encoding
  <2> QED BY <2>1, MarkingStep DEF MaterialInv, MaterialTypeOK, DrawnInv
<1>2. ASSUME NEW k \in Callers, CreateTraces(k) \/ CreateTracesFails(k) \/ \E n \in 1..MaxMarks : UpsertCaseTraces(k, n)
      PROVE  MaterialInv'
  BY <1>2, CreateTracesStep, UpsertStep
<1>3. ASSUME NEW t \in Drawn, DeleteTrace(t) \/ CreateCodificationVersion(t) \/ SaveCodificationImage(t)
      PROVE  MaterialInv'
  BY <1>3, DeleteTraceStep, CreateVersionStep, SaveImageStep
<1>4. CASE DeleteEvidence \/ DeleteCaseFile
  BY <1>4, DeleteEvidenceStep, DeleteCaseFileStep
<1>5. ASSUME NEW c \in Drawn, SetRecognitionVersion(c) \/ DeleteCodificationVersion(c) \/ TaskReads(c)
      PROVE  MaterialInv'
  BY <1>5, SetRecognitionStep, DropStep, TaskReadsStep
<1>6. CASE VersionDeleted
  BY <1>6, VersionDeletedStep
<1>7. ASSUME NEW x \in tasks, TaskStores(x) \/ TaskStoresFace(x) \/ TaskEnds(x)
      PROVE  MaterialInv'
  BY <1>7, TaskStoresStep, TaskStoresFaceStep, TaskEndsStep
<1> QED BY <1>1, <1>2, <1>3, <1>4, <1>5, <1>6, <1>7 DEF MaterialNext

\* So it always holds.
LEMMA MaterialAlways == MaterialSpec => []MaterialInv
BY MaterialInvInit, MaterialInvStep, PTL DEF MaterialSpec

\* Type correctness of the traces, their versions and the tasks: what is deleted takes with it what
\* hangs off it, and a trace keeps its original and has a version for recognition.
THEOREM MaterialTypeCorrect == MaterialSpec => []MaterialTypeOK
<1>1. MaterialInv => MaterialTypeOK
  BY DEF MaterialInv
<1> QED BY <1>1, MaterialAlways, PTL

\* The face matched is the one of the version chosen for recognition, whatever tasks, choices and
\* deletes come in between, but where one crossed another.
THEOREM FaceIsOfTheChosenAlways == MaterialSpec => []FaceIsOfTheChosen
<1>1. MaterialInv => FaceIsOfTheChosen
  BY DEF MaterialInv, FaceInv, Halfway, Agrees, FaceIsOfTheChosen
<1> QED BY <1>1, MaterialAlways, PTL

\* A trace keeps its box and goes only by DeleteTrace, but for a call that had read before it was there.
THEOREM TracesStandAlways == MaterialSpec => TracesStand
<1>1. MaterialInv /\ [MaterialNext]_materialVars =>
        [\A t \in Traces :
           \/ trace'[t] # No /\ trace'[t].mark = trace[t].mark
           \/ DeleteTrace(t)
           \/ removing.at = "COUNTED" /\ t \notin removing.seen
           \/ \E k \in Callers : call[k].at = "READ" /\ trace[t].seq > call[k].last]_materialVars
  <2> SUFFICES ASSUME MaterialInv, MaterialNext, NEW t \in Traces,
                      ~DeleteTrace(t), ~(removing.at = "COUNTED" /\ t \notin removing.seen),
                      \A k \in Callers : call[k].at = "READ" => ~(trace[t].seq > call[k].last)
               PROVE  trace'[t] # No /\ trace'[t].mark = trace[t].mark
    OBVIOUS
  <2>0. trace[t] # No /\ t \in Drawn /\ trace[t] \in TraceRow /\ trace \in [Drawn -> TraceRow \cup {No}]
    BY RowsHang DEF MaterialInv, MaterialTypeOK, Traces, TraceRow
  <2>1. ASSUME NEW k \in Callers, NEW n \in 1..MaxMarks, UpsertCaseTraces(k, n)
        PROVE  trace'[t] # No /\ trace'[t].mark = trace[t].mark
    <3>1. trace'[t] \in TraceRow /\ (trace'[t].mark # trace[t].mark => trace[t].seq > call[k].last)
      BY <2>1, UpsertRows
    <3>2. call[k].at = "READ"
      BY <2>1 DEF UpsertCaseTraces
    <3> QED BY <3>1, <3>2, RowsAreRows
  <2>2. ASSUME NEW u \in Drawn, DeleteTrace(u)
        PROVE  trace'[t] # No /\ trace'[t].mark = trace[t].mark
    BY <2>0, <2>2 DEF DeleteTrace, Cascade
  <2>3. CASE DeleteCaseFile
    BY <2>3 DEF DeleteCaseFile, MaterialInv, DrawnInv
  <2>4. ASSUME NEW c \in Drawn, SetRecognitionVersion(c)
        PROVE  trace'[t] # No /\ trace'[t].mark = trace[t].mark
    <3>1. PICK u : trace' = [trace EXCEPT ![u].chosen = c] /\ u \in Traces
      BY <2>4, RowsHang DEF SetRecognitionVersion, MaterialInv
    <3>2. trace[u] \in TraceRow /\ u \in Drawn
      BY <3>1, RowsHang DEF MaterialInv
    <3>3. [trace[u] EXCEPT !.chosen = c] \in TraceRow /\ [trace[u] EXCEPT !.chosen = c].mark = trace[u].mark
      BY <3>2 DEF TraceRow
    <3> QED BY <2>0, <3>1, <3>2, <3>3, RowsAreRows
  <2>5. CASE VersionDeleted
    <3>1. PICK u : (trace' = trace \/ trace' = [trace EXCEPT ![u].chosen = 0]) /\ u \in Traces
      BY <2>5, RowsHang DEF VersionDeleted, MaterialInv, DrawnInv
    <3>2. trace[u] \in TraceRow /\ u \in Drawn
      BY <3>1, RowsHang DEF MaterialInv
    <3>3. [trace[u] EXCEPT !.chosen = 0] \in TraceRow /\ [trace[u] EXCEPT !.chosen = 0].mark = trace[u].mark
      BY <3>2 DEF TraceRow
    <3> QED BY <2>0, <3>1, <3>2, <3>3, RowsAreRows
  <2>6. CASE UNCHANGED trace
    BY <2>0, <2>6
  <2>7. ASSUME NEW x \in tasks, TaskStores(x) \/ TaskStoresFace(x) \/ TaskEnds(x)
        PROVE  UNCHANGED trace
    BY <2>7 DEF TaskStores, TaskStoresFace, TaskEnds
  <2> QED BY <2>1, <2>2, <2>3, <2>4, <2>5, <2>6, <2>7
          DEF MaterialNext, CreateTraces, CreateTracesFails, DeleteEvidence, CreateCodificationVersion,
              SaveCodificationImage, DeleteCodificationVersion, TaskReads
<1> QED BY <1>1, MaterialAlways, PTL DEF MaterialSpec, TracesStand

=============================================================================
