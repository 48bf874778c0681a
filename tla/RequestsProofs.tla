---------------------------- MODULE RequestsProofs ----------------------------
(***************************************************************************)
(* Theorems about Requests, for any sessions, requests and bounds.         *)
(*                                                                         *)
(* The inductive invariant says of each transaction what it wants and      *)
(* holds (Own), the numbers it took and may take next (Numbers), what it   *)
(* saw of the requests and cases that still stands (Placed), and of any    *)
(* two that they never number, lock or register the same (Apart).          *)
(***************************************************************************)
EXTENDS Requests, Extremes

Ops    == {"CASE", "REGISTER", "CREATE", "MOVE", "OPEN", "ATTACH"}
Stages == {"NUMBER", "INSERT", "LOCK", "READY"}
Tx == [at : Stages, op : Ops, r : Requests \cup {No}, joins : Seq(Nat), new : Nat, max : Nat, tries : Nat,
       wants : Seq(Nat), mine : SUBSET Nat, locks : SUBSET Nat, crossed : BOOLEAN]

LastCase  == Cardinality(cases)
Brings(u) == u.op \in {"REGISTER", "CREATE"}
Writes(u) == u.op \in {"OPEN", "ATTACH"}
\* On, of some links.
Joined(ls, r, c) == \E l \in ls : l.r = r /\ l.c = c
Named(u)  == u.op = "REGISTER" /\ Len(u.joins) > 1

\* A transaction numbers before it locks, and locks in order unless it is a registration that names
\* several cases.
Own(u) ==
  /\ u.at \in {"NUMBER", "INSERT"} => u.op \in {"CASE", "REGISTER"} /\ u.locks = {}
  /\ u.mine # {} => u.op \in {"CASE", "REGISTER"}
  /\ u.at = "LOCK" => Len(u.wants) # 0
  /\ ~Named(u) =>
       /\ Len(u.wants) <= 2
       /\ Len(u.wants) = 2 => u.locks = {} /\ u.wants[1] < u.wants[2]
       /\ Len(u.wants) = 1 => \A x \in u.locks : x < u.wants[1]
  /\ u.op = "MOVE" => Len(u.joins) = 2 /\ u.joins[1] # u.joins[2]
  /\ Writes(u) => Len(u.joins) = 1
  /\ u.op \notin {"CASE", "OPEN"} \/ u.crossed => u.r # No

\* After n committed cases it took the next ones, or none, and is to try a number that is the next of
\* its own, or one that was taken meanwhile.
Numbers(n, u) ==
  /\ u.mine = {} \/ \E p \in (n+1)..MaxCases : u.mine = (n+1)..p
  /\ u.at = "INSERT" => /\ u.max < MaxCases
                        /\ u.mine = {} => u.max <= n
                        /\ u.mine # {} => u.mine = (n+1)..u.max

\* The cases it names are there, a request it brings is new, one it answers is on its case.
Placed(u) ==
  u.at # "NONE" =>
    /\ \A i \in 1..Len(u.joins) : u.joins[i] \in cases
    /\ Brings(u) => \A l \in links : l.r # u.r
    /\ Writes(u) /\ ~u.crossed /\ u.r # No => On(u.r, u.joins[1])

Apart(u, v) ==
  /\ u.mine = {} \/ v.mine = {}
  /\ u.locks \cap v.locks = {}
  /\ u.at # "NONE" /\ v.at # "NONE" /\ (Brings(u) \/ Brings(v)) => u.r # v.r

CaseInv == LastCase \in 0..MaxCases /\ NumberedWithoutGaps

TxInv ==
  /\ tx \in [Sessions -> {Idle} \cup Tx]
  /\ \A s \in Sessions : (tx[s].at # "NONE" => Own(tx[s])) /\ Numbers(LastCase, tx[s]) /\ Placed(tx[s])
  /\ \A s, t \in Sessions : s # t => Apart(tx[s], tx[t])

LinkInv ==
  /\ IsFiniteSet(links)
  /\ \A l \in links : l.r \in Requests /\ l.c \in cases /\ l.seq \in Nat \ {0}
  /\ \A l, m \in links : l.c = m.c /\ (l.seq = m.seq \/ l.r = m.r) => l = m

AnswerInv ==
  /\ answers \subseteq Answers /\ astray \subseteq answers
  /\ \A a \in astray : a.r # No
  /\ AnswersFollowTheRequest

IInv == CaseInv /\ TxInv /\ LinkInv /\ AnswerInv

-----------------------------------------------------------------------------
(* Numbers.                                                                *)

\* The greatest number of a prefix of the numbers is its length.
LEMMA MaxOfInterval ==
  ASSUME NEW p \in Nat
  PROVE  Max((1..p) \cup {0}) = p
<1> DEFINE S == (1..p) \cup {0}
<1>1. S \in SUBSET Int /\ S # {} /\ p \in S /\ \A y \in S : y <= p
  OBVIOUS
<1>2. IsFiniteSet(1..p)
  BY FS_Interval
<1>3. IsFiniteSet(S)
  BY <1>2, FS_AddElement
<1>4. Max(S) \in S /\ \A y \in S : y <= Max(S)
  <2> HIDE DEF S
  <2> QED BY <1>1, <1>3, MaxIsGreatest
<1>5. Max(S) <= p /\ p <= Max(S) /\ Max(S) \in Int
  <2> HIDE DEF S
  <2> QED BY <1>1, <1>4
<1> QED BY <1>5

\* What a transaction reads as the year's last case: the last committed, or the last of its own.
LEMMA CaseMax ==
  ASSUME IInv, NEW s \in Sessions
  PROVE  /\ MaxCaseNumberForYear(s) \in Nat
         /\ tx[s].mine = {} => MaxCaseNumberForYear(s) = LastCase
         /\ tx[s].mine # {} => tx[s].mine = (LastCase+1)..MaxCaseNumberForYear(s)
<1>1. LastCase \in Nat /\ cases = 1..LastCase
  BY ConstantsOK DEF IInv, CaseInv, NumberedWithoutGaps, LastCase
<1>2. CASE tx[s].mine = {}
  <2>1. cases \cup tx[s].mine \cup {0} = (1..LastCase) \cup {0}
    BY <1>1, <1>2
  <2> QED BY <1>1, <1>2, <2>1, MaxOfInterval DEF MaxCaseNumberForYear
<1>3. CASE tx[s].mine # {}
  <2>1. PICK p \in (LastCase+1)..MaxCases : tx[s].mine = (LastCase+1)..p
    BY <1>3 DEF IInv, TxInv, Numbers
  <2>2. p \in Nat /\ p > LastCase
    BY <1>1, <2>1
  <2>3. cases \cup tx[s].mine \cup {0} = (1..p) \cup {0}
    BY <1>1, <2>1, <2>2
  <2>4. MaxCaseNumberForYear(s) = p
    BY <2>2, <2>3, MaxOfInterval DEF MaxCaseNumberForYear
  <2> QED BY <1>3, <2>1, <2>2, <2>4
<1> QED BY <1>2, <1>3

\* The place a request takes on a case is past those taken there.
LEMMA SequencePast ==
  ASSUME LinkInv, NEW c
  PROVE  /\ NextSequence(c) \in Nat \ {0}
         /\ \A l \in links : l.c = c => l.seq < NextSequence(c)
<1> DEFINE L == {l \in links : l.c = c}
           f == [l \in L |-> l.seq]
           S == {l.seq : l \in L}
<1>1. IsFiniteSet(L)
  BY FS_Subset DEF LinkInv
<1>2. IsFiniteSet(S)
  <2>1. DOMAIN f = L /\ {f[x] : x \in DOMAIN f} = S
    OBVIOUS
  <2> HIDE DEF L, f, S
  <2> QED BY <1>1, <2>1, FiniteImage
<1>3. S \subseteq Nat
  BY DEF LinkInv
<1> DEFINE m == Max(S \cup {0})
<1>4. NextSequence(c) = m + 1
  BY DEF NextSequence, Sequences
<1>5. \A l \in links : l.c = c => l.seq \in S
  OBVIOUS
<1> HIDE DEF S
<1>6. IsFiniteSet(S \cup {0})
  BY <1>2, FS_AddElement
<1>7. m \in S \cup {0} /\ \A y \in S \cup {0} : y <= m
  BY <1>3, <1>6, MaxIsGreatest
<1> HIDE DEF m
<1>8. m \in Nat
  BY <1>3, <1>7
<1>9. ASSUME NEW l \in links, l.c = c
      PROVE  l.seq < m + 1
  <2>1. l.seq \in S
    BY <1>5, <1>9
  <2>2. l.seq \in Nat /\ l.seq <= m
    BY <1>3, <1>7, <2>1
  <2> QED BY <1>8, <2>2
<1>10. m + 1 \in Nat \ {0}
  BY <1>8
<1> QED BY <1>4, <1>9, <1>10

-----------------------------------------------------------------------------
(* One transaction moves on, and nothing is committed.                     *)

\* What it becomes fits what is committed and the others.
LEMMA OneTx ==
  ASSUME IInv, NEW s \in Sessions, NEW u \in {Idle} \cup Tx,
         UNCHANGED data, tx' = [tx EXCEPT ![s] = u],
         u.at # "NONE" => Own(u), Numbers(LastCase, u), Placed(u),
         \A t \in Sessions : t # s => Apart(u, tx[t])
  PROVE  IInv'
<1>1. /\ tx' \in [Sessions -> {Idle} \cup Tx]
      /\ tx'[s] = u /\ \A t \in Sessions : t # s => tx'[t] = tx[t]
  BY DEF IInv, TxInv
<1>2. UNCHANGED <<cases, links, answers, astray>>
  BY DEF data
<1>3. CaseInv' /\ LinkInv' /\ AnswerInv'
  BY <1>2 DEF IInv, CaseInv, LinkInv, AnswerInv, LastCase, NumberedWithoutGaps, AnswersFollowTheRequest, On
<1>4. ASSUME NEW t \in Sessions
      PROVE  ((tx[t].at # "NONE" => Own(tx[t])) /\ Numbers(LastCase, tx[t]) /\ Placed(tx[t]))'
  <2>1. (tx'[t].at # "NONE" => Own(tx'[t])) /\ Numbers(LastCase, tx'[t]) /\ Placed(tx'[t])
    BY <1>1 DEF IInv, TxInv
  <2>2. LastCase' = LastCase
    BY <1>2 DEF LastCase
  <2>3. Placed(tx[t])'
    BY <2>1, <1>2 DEF Placed, On, Brings, Writes
  <2> QED BY <2>1, <2>2, <2>3 DEF Own, Numbers, Named, Writes
<1>5. ASSUME NEW t \in Sessions, NEW v \in Sessions, t # v
      PROVE  Apart(tx[t], tx[v])'
  <2>1. Apart(tx'[t], tx'[v])
    BY <1>1, <1>5 DEF IInv, TxInv, Apart
  <2> QED BY <2>1 DEF Apart, Brings
<1>6. TxInv'
  BY <1>1, <1>4, <1>5 DEF TxInv
<1> QED BY <1>3, <1>6 DEF IInv

\* A transaction that ends lets go of everything.
LEMMA FailsInv ==
  ASSUME IInv, NEW s \in Sessions, Fails(s)
  PROVE  IInv'
<1>1. Idle.at = "NONE" /\ Idle.mine = {} /\ Idle.locks = {}
  BY DEF Idle
<1>2. \A t \in Sessions : Apart(Idle, tx[t])
  BY <1>1 DEF Apart
<1>3. Numbers(LastCase, Idle) /\ Placed(Idle)
  BY <1>1 DEF Numbers, Placed
<1>4. UNCHANGED data /\ tx' = [tx EXCEPT ![s] = Idle]
  BY DEF Fails
<1> HIDE DEF Idle
<1> QED BY <1>1, <1>2, <1>3, <1>4, OneTx

LEMMA ReadsMaxInv ==
  ASSUME IInv, NEW s \in Sessions, ReadsMax(s)
  PROVE  IInv'
<1> DEFINE m == MaxCaseNumberForYear(s)
           u == [tx[s] EXCEPT !.at = "INSERT", !.max = m]
<1>1. /\ m \in Nat /\ m < MaxCases
      /\ tx[s].mine = {} => m = LastCase
      /\ tx[s].mine # {} => tx[s].mine = (LastCase+1)..m
  BY CaseMax DEF ReadsMax
<1>2. UNCHANGED data /\ tx' = [tx EXCEPT ![s] = u] /\ tx[s].at = "NUMBER"
  BY DEF ReadsMax
<1> HIDE DEF m
<1>3. tx[s] \in Tx
  BY <1>2 DEF IInv, TxInv, Idle
<1>4. u \in Tx
  BY <1>1, <1>3 DEF Tx, Stages
<1>5. /\ u.at = "INSERT" /\ u.max = m /\ u.op = tx[s].op /\ u.r = tx[s].r /\ u.joins = tx[s].joins
      /\ u.wants = tx[s].wants /\ u.mine = tx[s].mine /\ u.locks = tx[s].locks /\ u.crossed = tx[s].crossed
  BY <1>3 DEF Tx
<1> HIDE DEF u
<1>6. Own(tx[s]) /\ Numbers(LastCase, tx[s]) /\ Placed(tx[s])
  BY <1>2 DEF IInv, TxInv
<1>7. Own(u)
  BY <1>2, <1>5, <1>6 DEF Own, Named, Writes
<1>8. Numbers(LastCase, u)
  <2>1. LastCase \in Nat
    BY ConstantsOK DEF IInv, CaseInv
  <2> QED BY <1>1, <1>5, <1>6, <2>1 DEF Numbers
<1>9. Placed(u)
  BY <1>2, <1>5, <1>6 DEF Placed, Brings, Writes
<1>10. ASSUME NEW t \in Sessions, t # s
       PROVE  Apart(u, tx[t])
  <2>1. Apart(tx[s], tx[t])
    BY <1>10 DEF IInv, TxInv
  <2> QED BY <1>2, <1>5, <2>1 DEF Apart, Brings
<1> QED BY <1>2, <1>4, <1>7, <1>8, <1>9, <1>10, OneTx

\* The number it tries is its next, or one that is committed; it waits for any other that is taken.
LEMMA InsertsCaseInv ==
  ASSUME IInv, NEW s \in Sessions, InsertsCase(s)
  PROVE  IInv'
<1> DEFINE t0 == tx[s]
           n == t0.max + 1
<1>1. /\ t0.at = "INSERT" /\ n \notin Taken /\ UNCHANGED data
      /\ tx' = [tx EXCEPT ![s] = IF n \in cases THEN AfterDuplicate(t0) ELSE AfterInsert(t0, n)]
  BY DEF InsertsCase
<1>2. t0 \in Tx
  BY <1>1 DEF IInv, TxInv, Idle
<1>3. Own(t0) /\ Numbers(LastCase, t0) /\ Placed(t0)
  BY <1>1 DEF IInv, TxInv
<1>4. \A t \in Sessions : t # s => Apart(t0, tx[t])
  BY DEF IInv, TxInv
<1>5. LastCase \in Nat /\ MaxCases \in Nat /\ cases = 1..LastCase
  BY ConstantsOK DEF IInv, CaseInv, NumberedWithoutGaps, LastCase
<1>6. t0.max \in Nat /\ n \in Nat /\ t0.max < MaxCases /\ t0.op \in {"CASE", "REGISTER"} /\ t0.locks = {}
  BY <1>1, <1>2, <1>3 DEF Tx, Own, Numbers
<1>7. CASE n \in cases /\ t0.tries = MaxAttempts
  <2>1. tx' = [tx EXCEPT ![s] = Idle]
    BY <1>1, <1>7 DEF AfterDuplicate
  <2> QED BY <1>1, <2>1, FailsInv DEF Fails
<1>8. CASE n \in cases /\ t0.tries # MaxAttempts
  <2> DEFINE k == t0.tries + 1
             u == [t0 EXCEPT !.at = "NUMBER", !.mine = {}, !.tries = k]
  <2>0. k \in Nat
    BY <1>2 DEF Tx
  <2>1. tx' = [tx EXCEPT ![s] = u]
    BY <1>1, <1>8 DEF AfterDuplicate
  <2> HIDE DEF t0, k
  <2>2. u \in Tx
    BY <1>2, <2>0 DEF Tx, Stages
  <2>3. /\ u.at = "NUMBER" /\ u.op = t0.op /\ u.r = t0.r /\ u.joins = t0.joins
        /\ u.wants = t0.wants /\ u.mine = {} /\ u.locks = t0.locks /\ u.crossed = t0.crossed
    BY <1>2 DEF Tx
  <2> HIDE DEF u
  <2>4. Own(u)
    BY <1>3, <1>6, <2>3 DEF Own, Named, Writes
  <2>5. Numbers(LastCase, u)
    BY <2>3 DEF Numbers
  <2>6. Placed(u)
    BY <1>1, <1>3, <2>3 DEF Placed, Brings, Writes
  <2>7. \A t \in Sessions : t # s => Apart(u, tx[t])
    BY <1>1, <1>4, <2>3 DEF Apart, Brings
  <2> QED BY <1>1, <2>1, <2>2, <2>4, <2>5, <2>6, <2>7, OneTx
<1>9. CASE n \notin cases
  <2> DEFINE at == IF Cardinality(t0.mine) + 1 < t0.new THEN "NUMBER" ELSE IF t0.wants = <<>> THEN "READY" ELSE "LOCK"
             mine == t0.mine \cup {n}
             u == [t0 EXCEPT !.mine = mine, !.at = at]
  <2>1. tx' = [tx EXCEPT ![s] = u]
    BY <1>1, <1>9 DEF AfterInsert
  <2>2. at \in {"NUMBER", "READY", "LOCK"} /\ (at = "LOCK" => t0.wants # <<>>)
    OBVIOUS
  <2>3. mine # {} /\ mine \in SUBSET Nat
    BY <1>2, <1>6 DEF Tx
  <2>4. \E p \in (LastCase+1)..MaxCases : mine = (LastCase+1)..p
    <3>1. n \in (LastCase+1)..MaxCases
      BY <1>5, <1>6, <1>9
    <3>2. CASE t0.mine = {}
      <4>1. t0.max = LastCase
        BY <1>1, <1>3, <1>5, <1>6, <1>9, <3>2 DEF Numbers
      <4>2. mine = (LastCase+1)..n
        BY <1>5, <3>2, <4>1
      <4> QED BY <3>1, <4>2
    <3>3. CASE t0.mine # {}
      <4>1. t0.mine = (LastCase+1)..t0.max
        BY <1>1, <1>3, <3>3 DEF Numbers
      <4>2. mine = (LastCase+1)..n
        BY <1>5, <1>6, <3>1, <4>1
      <4> QED BY <3>1, <4>2
    <3> QED BY <3>2, <3>3
  <2>5. \A t \in Sessions : t # s => tx[t].mine = {}
    <3> SUFFICES ASSUME NEW t \in Sessions, t # s, tx[t].mine # {} PROVE FALSE
      OBVIOUS
    <3>1. t0.mine = {}
      BY <1>4 DEF Apart
    <3>2. t0.max = LastCase
      BY <1>1, <1>3, <1>5, <1>6, <1>9, <3>1 DEF Numbers
    <3>3. PICK p \in (LastCase+1)..MaxCases : tx[t].mine = (LastCase+1)..p
      BY DEF IInv, TxInv, Numbers
    <3>4. n \in tx[t].mine
      BY <1>5, <3>2, <3>3
    <3> QED BY <1>1, <3>4 DEF Taken
  <2> HIDE DEF at, mine, t0
  <2>6. u \in Tx
    BY <1>2, <2>2, <2>3 DEF Tx, Stages
  <2>7. /\ u.at = at /\ u.op = t0.op /\ u.r = t0.r /\ u.joins = t0.joins
        /\ u.wants = t0.wants /\ u.mine = mine /\ u.locks = t0.locks /\ u.crossed = t0.crossed
    BY <1>2 DEF Tx
  <2> HIDE DEF u
  <2>8. Own(u)
    <3>1. t0.wants \in Seq(Nat)
      BY <1>2 DEF Tx
    <3>2. u.at = "LOCK" => Len(u.wants) # 0
      BY <2>2, <2>7, <3>1
    <3> QED BY <1>3, <1>6, <2>7, <3>2 DEF Own, Named, Writes
  <2>9. Numbers(LastCase, u)
    BY <2>2, <2>4, <2>7 DEF Numbers
  <2>10. Placed(u)
    BY <1>1, <1>3, <2>7 DEF Placed, Brings, Writes
  <2>11. ASSUME NEW t \in Sessions, t # s
         PROVE  Apart(u, tx[t])
    BY <1>1, <1>4, <2>5, <2>7, <2>11 DEF Apart, Brings
  <2> QED BY <1>1, <2>1, <2>6, <2>8, <2>9, <2>10, <2>11, OneTx
<1> QED BY <1>7, <1>8, <1>9

\* A lock is taken that nobody holds, and after those it holds already.
LEMMA LocksInv ==
  ASSUME IInv, NEW s \in Sessions, Locks(s)
  PROVE  IInv'
<1> DEFINE t0 == tx[s]
           h == Head(t0.wants)
           at == IF Len(t0.wants) = 1 THEN "READY" ELSE "LOCK"
           u == [t0 EXCEPT !.locks = t0.locks \cup {h}, !.wants = Tail(t0.wants), !.at = at]
<1>1. /\ t0.at = "LOCK" /\ UNCHANGED data /\ \A t \in Sessions : h \notin tx[t].locks
  BY DEF Locks
<1>2. tx' = [tx EXCEPT ![s] = u]
  BY DEF Locks
<1>3. t0 \in Tx
  BY <1>1 DEF IInv, TxInv, Idle
<1>4. Own(t0) /\ Numbers(LastCase, t0) /\ Placed(t0)
  BY <1>1 DEF IInv, TxInv
<1>5. \A t \in Sessions : t # s => Apart(t0, tx[t])
  BY DEF IInv, TxInv
<1> HIDE DEF t0
<1>6. t0.wants \in Seq(Nat) /\ t0.locks \in SUBSET Nat /\ Len(t0.wants) # 0
  BY <1>1, <1>3, <1>4 DEF Tx, Own
<1>7. /\ h = t0.wants[1] /\ h \in Nat /\ Tail(t0.wants) \in Seq(Nat) /\ Len(Tail(t0.wants)) = Len(t0.wants) - 1
      /\ Len(t0.wants) \in Nat /\ (Len(t0.wants) = 2 => Tail(t0.wants)[1] = t0.wants[2])
  BY <1>6
<1>8. at \in {"READY", "LOCK"} /\ (at = "READY" <=> Len(t0.wants) = 1)
  OBVIOUS
<1> HIDE DEF h, at
<1>9. u \in Tx
  BY <1>3, <1>6, <1>7, <1>8 DEF Tx, Stages
<1>10. /\ u.at = at /\ u.op = t0.op /\ u.r = t0.r /\ u.joins = t0.joins
       /\ u.wants = Tail(t0.wants) /\ u.mine = t0.mine /\ u.locks = t0.locks \cup {h} /\ u.crossed = t0.crossed
  BY <1>3 DEF Tx
<1> HIDE DEF u
<1>11. Own(u)
  <2>1. u.at = "LOCK" => Len(u.wants) # 0
    BY <1>7, <1>8, <1>10
  <2>2. ASSUME ~Named(u)
        PROVE  /\ Len(u.wants) <= 2 /\ Len(u.wants) # 2
               /\ Len(u.wants) = 1 => \A x \in u.locks : x < u.wants[1]
    <3>1. ~Named(t0)
      BY <1>10, <2>2 DEF Named
    <3> DEFINE m == Len(t0.wants)
    <3>2. m <= 2 /\ (m = 2 => t0.locks = {} /\ t0.wants[1] < t0.wants[2])
      BY <1>4, <3>1, Zenon DEF Own
    <3>3. m \in Nat /\ m # 0 /\ Len(u.wants) = m - 1 /\ (m = 2 => u.wants[1] = t0.wants[2])
      BY <1>6, <1>7, <1>10
    <3>4. Len(u.wants) <= 2 /\ Len(u.wants) # 2 /\ (Len(u.wants) = 1 => m = 2)
      <4> HIDE DEF m
      <4> QED BY <3>2, <3>3
    <3>5. m = 2 => u.locks = {h} /\ h < u.wants[1]
      <4> HIDE DEF m
      <4> QED BY <1>7, <1>10, <3>2, <3>3
    <3> HIDE DEF m
    <3> QED BY <3>4, <3>5
  <2> QED BY <1>4, <1>8, <1>10, <2>1, <2>2 DEF Own, Writes
<1>12. Numbers(LastCase, u)
  BY <1>4, <1>8, <1>10 DEF Numbers
<1>13. Placed(u)
  BY <1>1, <1>4, <1>10 DEF Placed, Brings, Writes
<1>14. ASSUME NEW t \in Sessions, t # s
       PROVE  Apart(u, tx[t])
  BY <1>1, <1>5, <1>10, <1>14 DEF Apart, Brings
<1> QED BY <1>1, <1>2, <1>9, <1>11, <1>12, <1>13, <1>14, OneTx

-----------------------------------------------------------------------------
(* A transaction begins.                                                   *)

\* What a call is to do, and what it saw: the cases it names, that the request it brings is new, or
\* that the one it answers is on its case.
MayBegin(op, at, r, joins, wants) ==
  /\ at = "NUMBER" => op \in {"CASE", "REGISTER"}
  /\ at = "LOCK" => Len(wants) # 0
  /\ \/ op = "REGISTER" /\ Len(joins) > 1
     \/ Len(wants) <= 1
     \/ Len(wants) = 2 /\ wants[1] < wants[2]
  /\ op = "MOVE" => Len(joins) = 2 /\ joins[1] # joins[2]
  /\ op \in {"OPEN", "ATTACH"} => Len(joins) = 1 /\ (r # No => On(r, joins[1]))
  /\ op \notin {"CASE", "OPEN"} => r # No
  /\ \A i \in 1..Len(joins) : joins[i] \in cases
  /\ op \in {"REGISTER", "CREATE"} => r \in Unused
  /\ op \notin {"REGISTER", "CREATE"} => r = No \/ \E l \in links : l.r = r

LEMMA BeginsInv ==
  ASSUME IInv, NEW s \in Sessions, NEW op \in Ops, NEW at \in {"NUMBER", "LOCK", "READY"},
         NEW r \in Requests \cup {No}, NEW joins \in Seq(Nat), NEW new \in Nat, NEW wants \in Seq(Nat),
         Begins(s, op, at, r, joins, new, wants), MayBegin(op, at, r, joins, wants)
  PROVE  IInv'
<1> DEFINE u == [at |-> at, op |-> op, r |-> r, joins |-> joins, new |-> new, max |-> 0, tries |-> 1,
                 wants |-> wants, mine |-> {}, locks |-> {}, crossed |-> FALSE]
<1>1. tx[s].at = "NONE" /\ tx' = [tx EXCEPT ![s] = u] /\ UNCHANGED data
  BY DEF Begins
<1>2. u \in Tx
  BY DEF Tx, Stages
<1>3. /\ u.at = at /\ u.op = op /\ u.r = r /\ u.joins = joins /\ u.wants = wants /\ u.mine = {} /\ u.locks = {}
      /\ u.crossed = FALSE
  OBVIOUS
<1> HIDE DEF u
<1>4. Own(u)
  <2>1. ASSUME ~Named(u)
        PROVE  /\ Len(u.wants) <= 2
               /\ Len(u.wants) = 2 => u.locks = {} /\ u.wants[1] < u.wants[2]
               /\ Len(u.wants) = 1 => \A x \in u.locks : x < u.wants[1]
    <3> DEFINE m == Len(wants)
    <3>1. m <= 1 \/ (m = 2 /\ wants[1] < wants[2])
      BY <1>3, <2>1 DEF Named, MayBegin
    <3>2. m \in Nat
      OBVIOUS
    <3> HIDE DEF m
    <3>3. m <= 2 /\ (m = 2 => wants[1] < wants[2])
      BY <3>1, <3>2
    <3> QED BY <1>3, <3>3 DEF m
  <2> QED BY <1>3, <2>1 DEF Own, Writes, MayBegin
<1>5. Numbers(LastCase, u)
  BY <1>3 DEF Numbers, MayBegin
<1>6. Placed(u)
  BY <1>3 DEF Placed, Brings, Writes, Unused, MayBegin
<1>7. ASSUME NEW t \in Sessions, t # s
      PROVE  Apart(u, tx[t])
  <2>1. ASSUME tx[t].at # "NONE", Brings(u) \/ Brings(tx[t])
        PROVE  u.r # tx[t].r
    <3>1. CASE Brings(u)
      BY <1>3, <2>1, <3>1 DEF Brings, Unused, MayBegin
    <3>2. CASE ~Brings(u)
      <4>1. Own(tx[t]) /\ Placed(tx[t]) /\ Brings(tx[t])
        BY <2>1, <3>2 DEF IInv, TxInv
      <4>2. tx[t].r # No /\ \A l \in links : l.r # tx[t].r
        BY <2>1, <4>1 DEF Own, Placed, Brings
      <4> QED BY <1>3, <3>2, <4>2 DEF Brings, MayBegin
    <3> QED BY <3>1, <3>2
  <2> QED BY <1>3, <2>1 DEF Apart
<1> QED BY <1>1, <1>2, <1>4, <1>5, <1>6, <1>7, OneTx

\* The committed cases are numbers.
LEMMA CaseNumbers ==
  ASSUME IInv
  PROVE  LastCase \in Nat /\ MaxCases \in Nat /\ LastCase <= MaxCases /\ cases = 1..LastCase /\ cases \subseteq Nat
<1>1. LastCase \in Nat /\ MaxCases \in Nat /\ LastCase <= MaxCases
  BY ConstantsOK DEF IInv, CaseInv
<1>2. cases = 1..LastCase
  BY DEF IInv, CaseInv, NumberedWithoutGaps, LastCase
<1> QED BY <1>1, <1>2

\* A call about one case.
LEMMA OneCase ==
  ASSUME IInv, NEW c \in cases
  PROVE  <<c>> \in Seq(Nat) /\ Len(<<c>>) = 1 /\ <<c>>[1] = c /\ \A i \in 1..1 : <<c>>[i] \in cases
<1>1. c \in Nat
  BY CaseNumbers
<1>2. \A i \in 1..1 : i = 1
  OBVIOUS
<1> QED BY <1>1, <1>2

\* Each of the calls.
LEMMA CreateCaseInv ==
  ASSUME IInv, NEW s \in Sessions, CreateCase(s)
  PROVE  IInv'
<1>1. Begins(s, "CASE", "NUMBER", No, <<>>, 1, <<>>)
  BY DEF CreateCase
<1>2. <<>> \in Seq(Nat) /\ Len(<<>>) = 0 /\ 1..0 = {}
  OBVIOUS
<1>3. MayBegin("CASE", "NUMBER", No, <<>>, <<>>)
  BY <1>2 DEF MayBegin
<1> QED BY <1>1, <1>2, <1>3, BeginsInv DEF Ops

LEMMA RegisterInv ==
  ASSUME IInv, NEW s \in Sessions, NEW r \in Requests, NEW joins \in BoundedSeq(cases, MaxJoins),
         NEW new \in 0..MaxNew, Register(s, r, joins, new)
  PROVE  IInv'
<1> DEFINE at == IF new > 0 THEN "NUMBER" ELSE "LOCK"
<1>1. joins \in Seq(cases)
  BY ConstantsOK DEF BoundedSeq, SeqOf
<1>2. joins \in Seq(Nat)
  BY <1>1, CaseNumbers
<1>3. Len(joins) \in Nat /\ \A i \in 1..Len(joins) : joins[i] \in cases
  BY <1>1
<1>4. new \in Nat /\ r # No
  BY ConstantsOK
<1>5. /\ r \in Unused /\ Len(joins) + new > 0
      /\ Begins(s, "REGISTER", at, r, joins, new, joins)
  BY DEF Register
<1>6. at \in {"NUMBER", "LOCK"} /\ (at = "LOCK" => new = 0)
  BY <1>4
<1> HIDE DEF at
<1>7. MayBegin("REGISTER", at, r, joins, joins)
  <2> DEFINE m == Len(joins)
  <2>1. (at = "LOCK" => m # 0) /\ (m > 1 \/ m <= 1)
    <3>1. m \in Nat /\ m + new > 0
      BY <1>3, <1>5
    <3> HIDE DEF m
    <3> QED BY <1>4, <1>6, <3>1
  <2> QED BY <1>3, <1>4, <1>5, <2>1 DEF MayBegin
<1> QED BY <1>2, <1>4, <1>5, <1>6, <1>7, BeginsInv DEF Ops

LEMMA CreateInv ==
  ASSUME IInv, NEW s \in Sessions, NEW r \in Requests, NEW c \in cases, Create(s, r, c)
  PROVE  IInv'
<1>1. Begins(s, "CREATE", "LOCK", r, <<c>>, 0, <<c>>) /\ r \in Unused /\ r # No
  BY ConstantsOK DEF Create
<1>2. MayBegin("CREATE", "LOCK", r, <<c>>, <<c>>)
  BY <1>1, OneCase DEF MayBegin
<1> QED BY <1>1, <1>2, OneCase, BeginsInv DEF Ops

LEMMA AttachFilesInv ==
  ASSUME IInv, NEW s \in Sessions, NEW r \in Requests, NEW c \in cases, AttachFiles(s, r, c)
  PROVE  IInv'
<1>1. Begins(s, "ATTACH", "READY", r, <<c>>, 0, <<>>) /\ On(r, c) /\ r # No
  BY ConstantsOK DEF AttachFiles
<1>2. \E l \in links : l.r = r
  BY <1>1 DEF On
<1>3. <<>> \in Seq(Nat) /\ Len(<<>>) = 0
  OBVIOUS
<1>4. MayBegin("ATTACH", "READY", r, <<c>>, <<>>)
  BY <1>1, <1>2, <1>3, OneCase DEF MayBegin
<1> QED BY <1>1, <1>3, <1>4, OneCase, BeginsInv DEF Ops

LEMMA OpenWithInv ==
  ASSUME IInv, NEW s \in Sessions, NEW r \in Requests \cup {No}, NEW c \in cases, OpenWith(s, r, c)
  PROVE  IInv'
<1>1. Begins(s, "OPEN", "LOCK", r, <<c>>, 0, <<c>>)
  BY DEF OpenWith
<1>2. r # No => On(r, c)
  BY DEF OpenWith, LatestCaseRequest, On
<1>3. r = No \/ \E l \in links : l.r = r
  BY <1>2 DEF On
<1>4. MayBegin("OPEN", "LOCK", r, <<c>>, <<c>>)
  BY <1>2, <1>3, OneCase DEF MayBegin
<1> QED BY <1>1, <1>4, OneCase, BeginsInv DEF Ops

LEMMA MoveToCaseInv ==
  ASSUME IInv, NEW s \in Sessions, NEW l \in links, NEW to \in cases, MoveToCase(s, l.r, l.c, to)
  PROVE  IInv'
<1> DEFINE from == l.c
           joins == <<from, to>>
           wants == LockOrder(from, to)
<1>1. Begins(s, "MOVE", "LOCK", l.r, joins, 0, wants) /\ from \in cases /\ from # to
  BY DEF MoveToCase
<1>2. from \in Nat /\ to \in Nat /\ l.r \in Requests /\ l.r # No
  BY <1>1, CaseNumbers, ConstantsOK DEF IInv, LinkInv
<1> HIDE DEF from
<1>3. joins \in Seq(Nat) /\ Len(joins) = 2 /\ joins[1] = from /\ joins[2] = to
  BY <1>2
<1>4. \A i \in 1..2 : joins[i] \in cases
  <2>1. \A i \in 1..2 : i = 1 \/ i = 2
    OBVIOUS
  <2> QED BY <1>1, <1>3, <2>1
<1>5. wants \in Seq(Nat) /\ Len(wants) = 2 /\ wants[1] < wants[2]
  <2>1. CASE from < to
    BY <1>2, <2>1 DEF LockOrder
  <2>2. CASE ~(from < to)
    BY <1>1, <1>2, <2>2 DEF LockOrder
  <2> QED BY <2>1, <2>2
<1> HIDE DEF joins, wants
<1>6. MayBegin("MOVE", "LOCK", l.r, joins, wants)
  BY <1>1, <1>2, <1>3, <1>4, <1>5 DEF MayBegin
<1> QED BY <1>1, <1>2, <1>3, <1>5, <1>6, BeginsInv DEF Ops

-----------------------------------------------------------------------------
(* A transaction commits.                                                  *)

\* One that may commit is whole, and its cases are numbers of the year's.
LEMMA Ready ==
  ASSUME IInv, NEW s \in Sessions, tx[s].at = "READY"
  PROVE  /\ tx[s] \in Tx /\ Own(tx[s]) /\ Placed(tx[s]) /\ Numbers(LastCase, tx[s])
         /\ \A t \in Sessions : t # s => Apart(tx[s], tx[t])
         /\ \A i \in 1..Len(tx[s].joins) : tx[s].joins[i] \in cases
         /\ Range(tx[s].joins) \subseteq cases
<1>1. tx[s] \in Tx
  BY DEF IInv, TxInv, Idle
<1>2. /\ Own(tx[s]) /\ Placed(tx[s]) /\ Numbers(LastCase, tx[s])
      /\ \A t \in Sessions : t # s => Apart(tx[s], tx[t])
  BY DEF IInv, TxInv
<1>3. \A i \in 1..Len(tx[s].joins) : tx[s].joins[i] \in cases
  BY <1>2 DEF Placed
<1>4. tx[s].joins \in Seq(Nat)
  BY <1>1 DEF Tx
<1>5. DOMAIN tx[s].joins = 1..Len(tx[s].joins)
  BY <1>4
<1> QED BY <1>1, <1>2, <1>3, <1>5 DEF Range

\* The cases it opened follow those committed, and nobody else has numbers then.
LEMMA CasesGrow ==
  ASSUME IInv, NEW s \in Sessions, tx[s].at = "READY",
         cases' = cases \cup tx[s].mine, tx' = [tx EXCEPT ![s] = Idle]
  PROVE  /\ CaseInv' /\ cases \subseteq cases' /\ cases' \subseteq AllCases /\ IsFiniteSet(cases')
         /\ \A t \in Sessions : Numbers(LastCase, tx[t])'
<1>1. LastCase \in Nat /\ MaxCases \in Nat /\ LastCase <= MaxCases /\ cases = 1..LastCase
  BY CaseNumbers
<1>2. PICK p \in LastCase..MaxCases : cases' = 1..p /\ (tx[s].mine = {} => p = LastCase)
  <2>1. CASE tx[s].mine = {}
    BY <1>1, <2>1
  <2>2. CASE tx[s].mine # {}
    <3>1. PICK p \in (LastCase+1)..MaxCases : tx[s].mine = (LastCase+1)..p
      BY <2>2, Ready DEF Numbers
    <3>2. cases' = 1..p
      BY <1>1, <3>1
    <3>3. p \in LastCase..MaxCases
      BY <1>1, <3>1
    <3> QED BY <2>2, <3>2, <3>3
  <2> QED BY <2>1, <2>2
<1>3. p \in Nat /\ p >= LastCase /\ p <= MaxCases
  BY <1>1, <1>2
<1>4. IsFiniteSet(1..p) /\ Cardinality(1..p) = p
  BY <1>3, FS_Interval
<1>5. LastCase' = p
  BY <1>2, <1>4 DEF LastCase
<1>6. CaseInv'
  <2>1. LastCase' \in 0..MaxCases
    BY <1>3, <1>5
  <2>2. NumberedWithoutGaps'
    BY <1>2, <1>4 DEF NumberedWithoutGaps
  <2> QED BY <2>1, <2>2 DEF CaseInv
<1>7. cases' \subseteq AllCases /\ IsFiniteSet(cases') /\ cases \subseteq cases'
  <2>1. cases' \subseteq AllCases
    BY <1>1, <1>2, <1>3 DEF AllCases
  <2>2. IsFiniteSet(cases')
    BY <1>2, <1>4, Zenon
  <2> QED BY <2>1, <2>2
<1>8. ASSUME NEW t \in Sessions
      PROVE  Numbers(LastCase, tx[t])'
  <2>1. CASE t = s
    <3>1. tx'[t] = Idle
      BY <2>1 DEF IInv, TxInv
    <3>2. tx'[t].mine = {} /\ tx'[t].at = "NONE"
      BY <3>1 DEF Idle
    <3> QED BY <3>2 DEF Numbers
  <2>2. CASE t # s
    <3>1. tx'[t] = tx[t] /\ Numbers(LastCase, tx[t]) /\ Apart(tx[s], tx[t])
      BY <2>2 DEF IInv, TxInv
    <3>2. CASE tx[s].mine = {}
      BY <1>2, <1>5, <3>1, <3>2 DEF Numbers
    <3>3. CASE tx[s].mine # {}
      <4>1. tx[t].mine = {}
        BY <3>1, <3>3 DEF Apart
      <4>2. tx[t].at = "INSERT" => tx[t].max <= LastCase /\ tx[t].max < MaxCases
        BY <3>1, <4>1 DEF Numbers
      <4>3. tx[t].at = "INSERT" => tx[t].max \in Nat
        <5>1. tx[t].at = "INSERT" => tx[t] \in Tx
          BY DEF IInv, TxInv, Idle
        <5> QED BY <5>1 DEF Tx
      <4>4. tx[t].at = "INSERT" => tx[t].max <= p
        BY <1>1, <1>3, <4>2, <4>3
      <4> QED BY <1>5, <3>1, <4>1, <4>2, <4>4 DEF Numbers
    <3> QED BY <3>2, <3>3
  <2> QED BY <2>1, <2>2
<1> QED BY <1>6, <1>7, <1>8

\* The others stand as they did, when the one that ends leaves them what they saw.
LEMMA OthersStand ==
  ASSUME IInv, NEW s \in Sessions, tx' = [tx EXCEPT ![s] = Idle],
         \A t \in Sessions : Numbers(LastCase, tx[t])',
         \A t \in Sessions : t # s => Placed(tx[t])'
  PROVE  TxInv'
<1>1. /\ tx' \in [Sessions -> {Idle} \cup Tx]
      /\ tx'[s] = Idle /\ \A t \in Sessions : t # s => tx'[t] = tx[t]
  BY DEF IInv, TxInv
<1>2. tx'[s].at = "NONE" /\ tx'[s].mine = {} /\ tx'[s].locks = {}
  BY <1>1 DEF Idle
<1>3. ASSUME NEW t \in Sessions
      PROVE  ((tx[t].at # "NONE" => Own(tx[t])) /\ Placed(tx[t]))'
  <2>1. tx'[t].at # "NONE" => Own(tx'[t])
    BY <1>1, <1>2 DEF IInv, TxInv
  <2>2. Placed(tx[t])'
    BY <1>2 DEF Placed
  <2> QED BY <2>1, <2>2 DEF Own, Named, Writes
<1>4. ASSUME NEW t \in Sessions, NEW v \in Sessions, t # v
      PROVE  Apart(tx[t], tx[v])'
  <2>1. Apart(tx'[t], tx'[v])
    BY <1>1, <1>2, <1>4 DEF IInv, TxInv, Apart
  <2> QED BY <2>1 DEF Apart, Brings
<1> QED BY <1>1, <1>3, <1>4 DEF TxInv

LEMMA CreatesCaseInv ==
  ASSUME IInv, NEW s \in Sessions, tx[s].at = "READY", CreatesCase(s)
  PROVE  IInv'
<1>1. cases' = cases \cup tx[s].mine /\ tx' = [tx EXCEPT ![s] = Idle] /\ UNCHANGED <<links, answers, astray>>
  BY DEF CreatesCase
<1>2. CaseInv' /\ cases \subseteq cases' /\ \A t \in Sessions : Numbers(LastCase, tx[t])'
  BY <1>1, CasesGrow
<1>3. LinkInv' /\ AnswerInv'
  BY <1>1, <1>2 DEF IInv, LinkInv, AnswerInv, AnswersFollowTheRequest, On
<1>4. ASSUME NEW t \in Sessions, t # s
      PROVE  Placed(tx[t])'
  <2>1. tx'[t] = tx[t] /\ Placed(tx[t])
    BY <1>1, <1>4 DEF IInv, TxInv
  <2> QED BY <1>1, <1>2, <2>1 DEF Placed, On, Brings, Writes
<1>5. TxInv'
  BY <1>1, <1>2, <1>4, OthersStand
<1> QED BY <1>2, <1>3, <1>5 DEF IInv

\* What a call writes answers a request that is on the case, unless it is marked.
LEMMA AnsweringInv ==
  ASSUME IInv, NEW s \in Sessions, tx[s].at = "READY", tx[s].op \in {"OPEN", "ATTACH"}, Answering(s)
  PROVE  IInv'
<1> DEFINE t0 == tx[s]
           c == t0.joins[1]
           k == IF t0.op = "OPEN" THEN "ANALYSIS" ELSE "FILE"
           a == Answer(k, c, t0.r)
<1>1. /\ answers' = answers \cup {a}
      /\ astray' = IF t0.crossed THEN astray \cup {a} ELSE astray
      /\ tx' = [tx EXCEPT ![s] = Idle] /\ UNCHANGED <<cases, links>>
  BY DEF Answering
<1>2. t0 \in Tx /\ Own(t0) /\ Placed(t0) /\ \A i \in 1..Len(t0.joins) : t0.joins[i] \in cases
  BY Ready
<1>3. Len(t0.joins) = 1 /\ (t0.crossed => t0.r # No) /\ t0.r \in Requests \cup {No}
  BY <1>2 DEF Own, Writes, Tx
<1>4. c \in cases
  BY <1>2, <1>3
<1>5. c \in AllCases
  BY <1>4, CaseNumbers DEF AllCases
<1>6. ~t0.crossed /\ t0.r # No => On(t0.r, c)
  BY <1>2 DEF Placed, Writes
<1>7. a \in Answers /\ a.c = c /\ a.r = t0.r
  <2>1. k \in Kinds
    BY DEF Kinds
  <2> HIDE DEF k, c, t0
  <2> QED BY <1>3, <1>5, <2>1 DEF Answer, Answers
<1> HIDE DEF a, c
<1>8. CaseInv' /\ LinkInv'
  BY <1>1 DEF IInv, CaseInv, LinkInv, LastCase, NumberedWithoutGaps
<1>9. AnswerInv'
  <2>1. \A b \in answers' \ astray' : b.r # No => On(b.r, b.c)'
    <3> SUFFICES ASSUME NEW b \in answers' \ astray', b.r # No PROVE On(b.r, b.c)'
      OBVIOUS
    <3>1. CASE b \in answers \ astray
      BY <1>1, <3>1 DEF IInv, AnswerInv, AnswersFollowTheRequest, On
    <3>2. CASE b \notin answers \ astray
      <4>1. b = a /\ ~t0.crossed
        BY <1>1, <3>2
      <4> QED BY <1>1, <1>6, <1>7, <4>1 DEF On
    <3> QED BY <3>1, <3>2
  <2>2. answers' \subseteq Answers /\ astray' \subseteq answers' /\ \A b \in astray' : b.r # No
    BY <1>1, <1>3, <1>7 DEF IInv, AnswerInv
  <2> QED BY <2>1, <2>2 DEF AnswerInv, AnswersFollowTheRequest
<1>10. ASSUME NEW t \in Sessions, t # s
       PROVE  Placed(tx[t])'
  <2>1. tx'[t] = tx[t] /\ Placed(tx[t])
    BY <1>1, <1>10 DEF IInv, TxInv
  <2> QED BY <1>1, <2>1 DEF Placed, On, Brings, Writes
<1>11. ASSUME NEW t \in Sessions
       PROVE  Numbers(LastCase, tx[t])'
  <2>1. LastCase' = LastCase
    BY <1>1 DEF LastCase
  <2>2. Numbers(LastCase, Idle)
    BY DEF Numbers, Idle
  <2>3. Numbers(LastCase, tx'[t])
    BY <1>1, <2>2 DEF IInv, TxInv
  <2> QED BY <2>1, <2>3 DEF Numbers
<1>12. TxInv'
  BY <1>1, <1>10, <1>11, OthersStand
<1> QED BY <1>8, <1>9, <1>12 DEF IInv

\* A request that is new takes the next place on each of its cases, and what had no request on one it
\* is the first of.
LEMMA RegistersInv ==
  ASSUME IInv, NEW s \in Sessions, tx[s].at = "READY", tx[s].op \in {"REGISTER", "CREATE"}, Registers(s)
  PROVE  IInv'
<1> DEFINE t0 == tx[s]
           r == t0.r
           all == Range(t0.joins) \cup t0.mine
           kinds == IF t0.op = "CREATE" THEN Kinds ELSE {"ANALYSIS"}
           new == {Answer(k, c, r) : k \in kinds, c \in all}
           link(c) == [r |-> r, c |-> c, seq |-> NextSequence(c)]
           added == {link(c) : c \in all}
           taken == {[a EXCEPT !.r = r] : a \in Unrequested(all)}
<1>1. /\ cases' = cases \cup t0.mine
      /\ links' = links \cup added
      /\ answers' = (answers \ Unrequested(all)) \cup taken \cup new
      /\ tx' = [tx EXCEPT ![s] = Idle] /\ UNCHANGED astray
  BY DEF Registers
<1>2. /\ t0 \in Tx /\ Own(t0) /\ Placed(t0) /\ Range(t0.joins) \subseteq cases
      /\ \A t \in Sessions : t # s => Apart(t0, tx[t])
  BY Ready
<1>3. r \in Requests /\ r # No
  BY <1>2 DEF Own, Tx
<1>4. \A l \in links : l.r # r
  BY <1>2 DEF Placed, Brings
<1>5. /\ CaseInv' /\ cases \subseteq cases' /\ cases' \subseteq AllCases /\ IsFiniteSet(cases')
      /\ \A t \in Sessions : Numbers(LastCase, tx[t])'
  BY <1>1, CasesGrow
<1>6. all \subseteq cases' /\ IsFiniteSet(all)
  <2>1. all \subseteq cases'
    BY <1>1, <1>2
  <2> HIDE DEF all
  <2> QED BY <1>5, <2>1, FS_Subset
<1> HIDE DEF all, r, kinds, t0
<1>7. \A c \in all : NextSequence(c) \in Nat \ {0} /\ \A l \in links : l.c = c => l.seq < NextSequence(c)
  BY SequencePast DEF IInv
<1>8. IsFiniteSet(added)
  <2> DEFINE f == [c \in all |-> link(c)]
  <2>1. DOMAIN f = all /\ {f[x] : x \in DOMAIN f} = added
    OBVIOUS
  <2> HIDE DEF f, added
  <2> QED BY <1>6, <2>1, FiniteImage
<1>9. \A l \in added : l.r = r /\ l.c \in all /\ l = link(l.c) /\ l.seq = NextSequence(l.c)
  OBVIOUS
<1>10. ASSUME NEW c \in all
       PROVE  Joined(added, r, c)
  <2>1. link(c) \in added /\ link(c).r = r /\ link(c).c = c
    OBVIOUS
  <2> HIDE DEF link, added
  <2> QED BY <2>1 DEF Joined
<1> HIDE DEF added, link
<1>11. LinkInv'
  <2>1. IsFiniteSet(links')
    BY <1>1, <1>8, FS_Union DEF IInv, LinkInv
  <2>2. \A l \in links' : l.r \in Requests /\ l.c \in cases' /\ l.seq \in Nat \ {0}
    BY <1>1, <1>3, <1>5, <1>6, <1>7, <1>9 DEF IInv, LinkInv
  <2>3. ASSUME NEW l \in links', NEW m \in links', l.c = m.c, l.seq = m.seq \/ l.r = m.r
        PROVE  l = m
    <3>1. CASE l \in links /\ m \in links
      BY <2>3, <3>1 DEF IInv, LinkInv
    <3>2. CASE l \in added /\ m \in added
      BY <1>9, <2>3, <3>2
    <3>3. ASSUME NEW x \in links, NEW y \in added, x.c = y.c
          PROVE  x.r # y.r /\ x.seq # y.seq
      <4>1. x.r # y.r
        BY <1>4, <1>9
      <4>2. x.seq < y.seq /\ x.seq \in Nat /\ y.seq \in Nat
        BY <1>7, <1>9, <3>3 DEF IInv, LinkInv
      <4> QED BY <4>1, <4>2
    <3> QED BY <1>1, <2>3, <3>1, <3>2, <3>3
  <2> QED BY <2>1, <2>2, <2>3 DEF LinkInv
<1>12. links \subseteq links' /\ \A c \in all : Joined(links', r, c)
  BY <1>1, <1>10 DEF Joined
<1>13. Unrequested(all) \subseteq answers /\ \A a \in Unrequested(all) : a.r = No /\ a.c \in all
  BY DEF Unrequested
<1>14. new \subseteq Answers /\ \A a \in new : a.r = r /\ a.c \in all
  <2>1. kinds \subseteq Kinds
    BY DEF kinds, Kinds
  <2>2. all \subseteq AllCases
    BY <1>5, <1>6
  <2>3. ASSUME NEW k \in kinds, NEW c \in all
        PROVE  Answer(k, c, r) \in Answers /\ Answer(k, c, r).r = r /\ Answer(k, c, r).c \in all
    BY <1>3, <2>1, <2>2 DEF Answer, Answers
  <2> QED BY <2>3
<1>15. taken \subseteq Answers /\ \A a \in taken : a.r = r /\ a.c \in all
  <2>1. ASSUME NEW a \in Unrequested(all)
        PROVE  [a EXCEPT !.r = r] \in Answers /\ [a EXCEPT !.r = r].r = r /\ [a EXCEPT !.r = r].c \in all
    <3>1. a \in Answers /\ a.c \in all
      BY <1>13 DEF IInv, AnswerInv
    <3> QED BY <1>3, <3>1 DEF Answers
  <2> QED BY <2>1
<1> HIDE DEF new, taken
<1>16. AnswerInv'
  <2>1. answers' \subseteq Answers
    BY <1>1, <1>14, <1>15 DEF IInv, AnswerInv
  <2>2. astray' \subseteq answers' /\ \A a \in astray' : a.r # No
    BY <1>1, <1>13 DEF IInv, AnswerInv
  <2>3. ASSUME NEW a \in answers' \ astray', a.r # No
        PROVE  On(a.r, a.c)'
    <3>1. CASE a \in answers
      BY <1>1, <1>12, <2>3, <3>1 DEF IInv, AnswerInv, AnswersFollowTheRequest, On
    <3>2. CASE a \in new \cup taken
      <4>1. Joined(links', a.r, a.c)
        BY <1>12, <1>14, <1>15, <3>2
      <4> QED BY <4>1 DEF Joined, On
    <3> QED BY <1>1, <3>1, <3>2
  <2> QED BY <2>1, <2>2, <2>3 DEF AnswerInv, AnswersFollowTheRequest
<1>17. ASSUME NEW t \in Sessions, t # s
       PROVE  Placed(tx[t])'
  <2>1. tx'[t] = tx[t] /\ Placed(tx[t]) /\ Apart(tx[s], tx[t])
    BY <1>1, <1>17 DEF IInv, TxInv
  <2>2. tx[t].at # "NONE" => r # tx[t].r
    BY <2>1 DEF Apart, Brings, r, t0
  <2>3. tx[t].at # "NONE" /\ Brings(tx[t]) => \A l \in links' : l.r # tx[t].r
    BY <1>1, <1>9, <2>1, <2>2 DEF Placed
  <2> QED BY <1>5, <1>12, <2>1, <2>3 DEF Placed, On, Brings, Writes
<1>18. TxInv'
  BY <1>1, <1>5, <1>17, OthersStand
<1> QED BY <1>5, <1>11, <1>16, <1>18 DEF IInv

\* A move takes what answers the request along, and marks who saw it where it was.
LEMMA MovesInv ==
  ASSUME IInv, NEW s \in Sessions, tx[s].at = "READY", tx[s].op = "MOVE", Moves(s)
  PROVE  IInv'
<1> DEFINE r == tx[s].r
           from == tx[s].joins[1]
           to == tx[s].joins[2]
           link == [r |-> r, c |-> to, seq |-> NextSequence(to)]
           next(t) == IF t = s THEN Idle
                      ELSE IF IsAnswering(t) /\ tx[t].r = r /\ tx[t].joins = <<from>> THEN [tx[t] EXCEPT !.crossed = TRUE] ELSE tx[t]
<1>1. /\ On(r, from) /\ ~On(r, to)
      /\ links' = {l \in links : l.r # r \/ l.c # from} \cup {link}
      /\ answers' = Moved(answers, r, from, to)
      /\ astray' = {a \in astray : a.r # r \/ a.c \notin {from, to}}
      /\ tx' = [t \in Sessions |-> next(t)]
      /\ UNCHANGED cases
  BY DEF Moves
<1>2. /\ tx[s] \in Tx /\ Own(tx[s]) /\ \A i \in 1..Len(tx[s].joins) : tx[s].joins[i] \in cases
      /\ tx[s].mine = {}
  BY Ready DEF Own
<1>3. r \in Requests /\ r # No /\ Len(tx[s].joins) = 2 /\ from # to
  BY <1>2 DEF Own, Tx
<1>4. from \in cases /\ to \in cases
  BY <1>2, <1>3
<1>5. link.r = r /\ link.c = to /\ link.seq = NextSequence(to)
  OBVIOUS
<1> HIDE DEF link
<1>6. NextSequence(to) \in Nat \ {0} /\ \A l \in links : l.c = to => l.seq < NextSequence(to)
  BY SequencePast DEF IInv
<1>7. CaseInv'
  BY <1>1 DEF IInv, CaseInv, LastCase, NumberedWithoutGaps
<1>8. LinkInv'
  <2>1. IsFiniteSet(links')
    <3> DEFINE kept == {l \in links : l.r # r \/ l.c # from}
    <3>1. IsFiniteSet(kept)
      BY FS_Subset DEF IInv, LinkInv
    <3> HIDE DEF kept
    <3>2. IsFiniteSet(kept \cup {link})
      BY <3>1, FS_AddElement
    <3> QED BY <1>1, <3>2 DEF kept
  <2>2. \A l \in links' : l.r \in Requests /\ l.c \in cases' /\ l.seq \in Nat \ {0}
    BY <1>1, <1>3, <1>4, <1>5, <1>6 DEF IInv, LinkInv
  <2>3. ASSUME NEW x \in links, x.c = to
        PROVE  x.r # link.r /\ x.seq # link.seq
    <3>1. x.r # r
      BY <1>1, <2>3 DEF On
    <3>2. x.seq < link.seq /\ x.seq \in Nat /\ link.seq \in Nat
      BY <1>5, <1>6, <2>3 DEF IInv, LinkInv
    <3> QED BY <1>5, <3>1, <3>2
  <2>4. \A l, m \in links' : l.c = m.c /\ (l.seq = m.seq \/ l.r = m.r) => l = m
    BY <1>1, <1>5, <2>3 DEF IInv, LinkInv
  <2> QED BY <2>1, <2>2, <2>4 DEF LinkInv
<1>9. /\ Joined(links', r, to)
      /\ \A x, c : On(x, c) /\ (x # r \/ c # from) => Joined(links', x, c)
  BY <1>1, <1>5 DEF On, Joined
<1>10. AnswerInv'
  <2>1. to \in AllCases
    BY <1>4, CaseNumbers DEF AllCases
  <2> DEFINE moved(a) == IF a.c = from /\ a.r = r THEN [a EXCEPT !.c = to] ELSE a
  <2>2. answers' = {moved(a) : a \in answers}
    BY <1>1 DEF Moved
  <2>3. ASSUME NEW a \in answers
        PROVE  /\ moved(a) \in Answers
               /\ a.c = from /\ a.r = r => moved(a).c = to /\ moved(a).r = r
               /\ ~(a.c = from /\ a.r = r) => moved(a) = a
    <3>1. a \in Answers
      BY DEF IInv, AnswerInv
    <3>2. [a EXCEPT !.c = to] \in Answers /\ [a EXCEPT !.c = to].c = to /\ [a EXCEPT !.c = to].r = a.r
      BY <2>1, <3>1 DEF Answers
    <3> QED BY <3>1, <3>2
  <2> HIDE DEF moved
  <2>4. answers' \subseteq Answers
    BY <2>2, <2>3
  <2>5. ASSUME NEW a \in astray'
        PROVE  a \in answers' /\ a.r # No
    <3>1. a \in astray /\ (a.r # r \/ a.c # from)
      BY <1>1, <2>5
    <3>2. a \in answers /\ a.r # No
      BY <3>1 DEF IInv, AnswerInv
    <3>3. moved(a) = a
      BY <2>3, <3>1, <3>2
    <3> QED BY <2>2, <3>2, <3>3
  <2>6. ASSUME NEW b \in answers' \ astray', b.r # No
        PROVE  Joined(links', b.r, b.c)
    <3>1. PICK a \in answers : b = moved(a)
      BY <2>2, <2>6
    <3>2. CASE a.c = from /\ a.r = r
      BY <1>9, <2>3, <3>1, <3>2
    <3>3. CASE ~(a.c = from /\ a.r = r)
      <4>1. b = a
        BY <2>3, <3>1, <3>3
      <4>2. CASE a \in astray
        <5>1. a.r = r /\ a.c = to
          BY <1>1, <2>6, <3>3, <4>1, <4>2
        <5> QED BY <1>9, <4>1, <5>1
      <4>3. CASE a \notin astray
        BY <1>9, <2>6, <3>3, <4>1, <4>3 DEF IInv, AnswerInv, AnswersFollowTheRequest
      <4> QED BY <4>2, <4>3
    <3> QED BY <3>2, <3>3
  <2> QED BY <2>4, <2>5, <2>6 DEF AnswerInv, AnswersFollowTheRequest, On, Joined
<1>11. ASSUME NEW t \in Sessions
       PROVE  /\ tx'[t] \in {Idle} \cup Tx
              /\ t = s => tx'[t] = Idle
              /\ t # s /\ tx[t].at = "NONE" => tx'[t] = tx[t]
              /\ t # s => /\ tx'[t].at = tx[t].at /\ tx'[t].mine = tx[t].mine /\ tx'[t].locks = tx[t].locks
              /\ t # s /\ tx[t].at # "NONE" =>
                   /\ tx'[t].op = tx[t].op /\ tx'[t].r = tx[t].r /\ tx'[t].joins = tx[t].joins
                   /\ tx'[t].wants = tx[t].wants /\ tx'[t].max = tx[t].max
                   /\ tx'[t].crossed => tx[t].crossed \/ tx[t].r = r
                   /\ ~tx'[t].crossed => ~tx[t].crossed /\ ~(IsAnswering(t) /\ tx[t].r = r /\ tx[t].joins = <<from>>)
  <2> HIDE DEF r, from
  <2>1. tx'[t] = next(t) /\ tx[t] \in {Idle} \cup Tx
    BY <1>1 DEF IInv, TxInv
  <2>2. CASE t = s
    BY <2>1, <2>2
  <2>3. CASE t # s /\ IsAnswering(t) /\ tx[t].r = r /\ tx[t].joins = <<from>>
    <3>1. tx'[t] = [tx[t] EXCEPT !.crossed = TRUE]
      BY <2>1, <2>3
    <3>2. tx[t] \in Tx /\ tx[t].at # "NONE"
      BY <2>1, <2>3 DEF IsAnswering, Idle
    <3> DEFINE u == [tx[t] EXCEPT !.crossed = TRUE]
    <3>3. u \in Tx
      BY <3>2 DEF Tx
    <3>4. /\ u.at = tx[t].at /\ u.mine = tx[t].mine /\ u.locks = tx[t].locks /\ u.op = tx[t].op /\ u.r = tx[t].r
          /\ u.joins = tx[t].joins /\ u.wants = tx[t].wants /\ u.max = tx[t].max /\ u.crossed = TRUE
      BY <3>2 DEF Tx
    <3> HIDE DEF u
    <3> QED BY <2>3, <3>1, <3>2, <3>3, <3>4 DEF u
  <2>4. CASE t # s /\ ~(IsAnswering(t) /\ tx[t].r = r /\ tx[t].joins = <<from>>)
    <3>1. tx'[t] = tx[t]
      BY <2>1, <2>4
    <3> QED BY <2>1, <2>4, <3>1
  <2> QED BY <2>2, <2>3, <2>4
<1>12. ASSUME NEW t \in Sessions
       PROVE  ((tx[t].at # "NONE" => Own(tx[t])) /\ Numbers(LastCase, tx[t]) /\ Placed(tx[t]))'
  <2>1. CASE t = s
    <3>1. tx'[t].at = "NONE" /\ tx'[t].mine = {}
      BY <1>11, <2>1 DEF Idle
    <3> QED BY <3>1 DEF Numbers, Placed
  <2>2. CASE t # s /\ tx[t].at = "NONE"
    <3>1. tx'[t].at = "NONE" /\ tx'[t].mine = {}
      <4>1. tx[t] = Idle
        BY <2>2 DEF IInv, TxInv, Tx, Stages
      <4>2. tx'[t] = tx[t]
        BY <1>11, <2>2
      <4> QED BY <4>1, <4>2 DEF Idle
    <3> QED BY <3>1 DEF Numbers, Placed
  <2>3. CASE t # s /\ tx[t].at # "NONE"
    <3>1. Own(tx[t]) /\ Numbers(LastCase, tx[t]) /\ Placed(tx[t]) /\ tx[t] \in Tx
      BY <2>3 DEF IInv, TxInv, Idle
    <3> HIDE DEF r, from, next
    <3>2. /\ tx'[t].at = tx[t].at /\ tx'[t].mine = tx[t].mine /\ tx'[t].locks = tx[t].locks
          /\ tx'[t].op = tx[t].op /\ tx'[t].r = tx[t].r /\ tx'[t].joins = tx[t].joins
          /\ tx'[t].wants = tx[t].wants /\ tx'[t].max = tx[t].max
          /\ tx'[t].crossed => tx[t].crossed \/ tx[t].r = r
          /\ ~tx'[t].crossed => ~tx[t].crossed /\ ~(IsAnswering(t) /\ tx[t].r = r /\ tx[t].joins = <<from>>)
      BY <1>11, <2>3
    <3>3. Own(tx'[t])
      BY <1>3, <3>1, <3>2 DEF Own, Named, Writes
    <3>4. Numbers(LastCase, tx[t])'
      BY <1>1, <3>1, <3>2 DEF Numbers, LastCase
    <3>5. Placed(tx[t])'
      <4>1. \A i \in 1..Len(tx'[t].joins) : tx'[t].joins[i] \in cases'
        BY <1>1, <2>3, <3>1, <3>2 DEF Placed
      <4>2. Brings(tx'[t]) => \A l \in links' : l.r # tx'[t].r
        <5>1. \E l \in links : l.r = r
          BY <1>1 DEF On
        <5> QED BY <1>1, <1>5, <2>3, <3>1, <3>2, <5>1 DEF Placed, Brings
      <4>3. ASSUME Writes(tx'[t]), ~tx'[t].crossed, tx'[t].r # No
            PROVE  Joined(links', tx'[t].r, tx'[t].joins[1])
        <5>1. Writes(tx[t]) /\ ~tx[t].crossed /\ tx[t].r # No /\ Len(tx[t].joins) = 1 /\ tx[t].joins \in Seq(Nat)
          BY <3>1, <3>2, <4>3 DEF Writes, Own, Tx
        <5>2. On(tx[t].r, tx[t].joins[1])
          BY <2>3, <3>1, <5>1 DEF Placed
        <5>3. tx[t].r # r \/ tx[t].joins[1] # from
          <6>1. tx[t].joins = <<tx[t].joins[1]>>
            BY <5>1
          <6>2. IsAnswering(t)
            BY <2>3, <5>1 DEF Writes, IsAnswering
          <6> QED BY <3>2, <4>3, <6>1, <6>2
        <5> QED BY <1>9, <3>2, <5>2, <5>3
      <4> QED BY <4>1, <4>2, <4>3 DEF Placed, Brings, Writes, On, Joined
    <3> QED BY <3>3, <3>4, <3>5 DEF Own, Named, Writes
  <2> QED BY <2>1, <2>2, <2>3
<1>13. ASSUME NEW t \in Sessions, NEW v \in Sessions, t # v
       PROVE  Apart(tx[t], tx[v])'
  <2>1. Apart(tx[t], tx[v])
    BY <1>13 DEF IInv, TxInv
  <2> HIDE DEF r, from, next
  <2>2. Idle.at = "NONE" /\ Idle.mine = {} /\ Idle.locks = {}
    BY DEF Idle
  <2>3. CASE t = s \/ v = s
    BY <1>11, <2>2, <2>3 DEF Apart
  <2>4. CASE t # s /\ v # s
    BY <1>11, <2>1, <2>4 DEF Apart, Brings
  <2> QED BY <2>3, <2>4
<1>14. TxInv'
  <2>1. tx' \in [Sessions -> {Idle} \cup Tx]
    BY <1>1, <1>11
  <2> QED BY <1>12, <1>13, <2>1 DEF TxInv
<1> QED BY <1>7, <1>8, <1>10, <1>14 DEF IInv

-----------------------------------------------------------------------------
(* The theorems.                                                           *)

LEMMA InitInv == Init => IInv
<1> SUFFICES ASSUME Init PROVE IInv
  OBVIOUS
<1>1. cases = {} /\ links = {} /\ answers = {} /\ astray = {} /\ tx = [s \in Sessions |-> Idle]
  BY DEF Init
<1>2. LastCase = 0 /\ IsFiniteSet({})
  BY <1>1, FS_EmptySet DEF LastCase
<1>3. CaseInv
  <2>1. MaxCases \in Nat
    BY ConstantsOK
  <2>2. cases = 1..LastCase
    BY <1>1, <1>2
  <2> QED BY <1>2, <2>1, <2>2 DEF CaseInv, NumberedWithoutGaps, LastCase
<1>4. LinkInv /\ AnswerInv
  BY <1>1, <1>2 DEF LinkInv, AnswerInv, AnswersFollowTheRequest
<1>5. \A s \in Sessions : tx[s] = Idle /\ tx[s].at = "NONE" /\ tx[s].mine = {} /\ tx[s].locks = {}
  BY <1>1 DEF Idle
<1>6. TxInv
  BY <1>1, <1>5 DEF TxInv, Numbers, Placed, Apart
<1> QED BY <1>3, <1>4, <1>6 DEF IInv

\* Every step keeps what transactions hold, took and saw.
THEOREM StepInv == IInv /\ [Next]_vars => IInv'
<1> SUFFICES ASSUME IInv, [Next]_vars PROVE IInv'
  OBVIOUS
<1>1. ASSUME NEW s \in Sessions, Commits(s)
      PROVE  IInv'
  BY <1>1, CreatesCaseInv, RegistersInv, MovesInv, AnsweringInv DEF Commits
<1>2. ASSUME NEW s \in Sessions, ReadsMax(s) \/ InsertsCase(s) \/ Locks(s) \/ Fails(s) \/ CreateCase(s)
      PROVE  IInv'
  BY <1>2, ReadsMaxInv, InsertsCaseInv, LocksInv, FailsInv, CreateCaseInv
<1>3. ASSUME NEW s \in Sessions, NEW r \in Requests, NEW joins \in BoundedSeq(cases, MaxJoins), NEW new \in 0..MaxNew,
             Register(s, r, joins, new)
      PROVE  IInv'
  BY <1>3, RegisterInv
<1>4. ASSUME NEW s \in Sessions, NEW r \in Requests, NEW c \in cases, Create(s, r, c) \/ AttachFiles(s, r, c)
      PROVE  IInv'
  BY <1>4, CreateInv, AttachFilesInv
<1>5. ASSUME NEW s \in Sessions, NEW r \in Requests \cup {No}, NEW c \in cases, OpenWith(s, r, c)
      PROVE  IInv'
  BY <1>5, OpenWithInv
<1>6. ASSUME NEW s \in Sessions, NEW l \in links, NEW to \in cases, MoveToCase(s, l.r, l.c, to)
      PROVE  IInv'
  BY <1>6, MoveToCaseInv
<1>7. CASE UNCHANGED vars
  <2>1. UNCHANGED <<cases, links, answers, astray, tx>>
    BY <1>7 DEF vars, data
  <2>2. CaseInv' /\ LinkInv' /\ AnswerInv'
    BY <2>1 DEF IInv, CaseInv, LinkInv, AnswerInv, LastCase, NumberedWithoutGaps, AnswersFollowTheRequest, On
  <2>3. TxInv'
    BY <2>1 DEF IInv, TxInv, Own, Numbers, Placed, Apart, Named, Writes, Brings, LastCase, On
  <2> QED BY <2>2, <2>3 DEF IInv
<1> QED BY <1>1, <1>2, <1>3, <1>4, <1>5, <1>6, <1>7 DEF Next

LEMMA Always == Spec => []IInv
<1> QED BY InitInv, StepInv, PTL DEF Spec

\* Rows have their types, a request is on a case once and in a place of its own, and no two
\* transactions hold the same number or row, for any sessions, requests and bounds.
THEOREM TypeCorrect == Spec => []TypeOK
<1>1. IInv => TypeOK
  <2> SUFFICES ASSUME IInv PROVE TypeOK
    OBVIOUS
  <2>1. LastCase \in Nat /\ MaxCases \in Nat /\ LastCase <= MaxCases /\ cases = 1..LastCase
    BY CaseNumbers
  <2>2. cases \subseteq AllCases
    BY <2>1 DEF AllCases
  <2>3. ASSUME NEW s \in Sessions, NEW t \in Sessions, s # t
        PROVE  tx[s].mine \cap (tx[t].mine \cup cases) = {} /\ tx[s].locks \cap tx[t].locks = {}
    <3>1. Apart(tx[s], tx[t]) /\ Numbers(LastCase, tx[s])
      BY <2>3 DEF IInv, TxInv
    <3>2. tx[s].mine \cap cases = {}
      BY <2>1, <3>1 DEF Numbers
    <3> QED BY <3>1, <3>2 DEF Apart
  <2> QED BY <2>2, <2>3 DEF IInv, LinkInv, AnswerInv, TypeOK
<1> QED BY Always, <1>1, PTL

\* Whatever registrations race, the committed cases of the year are 1..n (cases.CreateWith).
THEOREM NumberedWithoutGapsAlways == Spec => []NumberedWithoutGaps
<1>1. IInv => NumberedWithoutGaps
  BY DEF IInv, CaseInv
<1> QED BY Always, <1>1, PTL

\* What answers a request is on a case the request is on, but for what was written by who saw it there
\* before it moved (requests.MoveToCase).
THEOREM AnswersFollowTheRequestAlways == Spec => []AnswersFollowTheRequest
<1>1. IInv => AnswersFollowTheRequest
  BY DEF IInv, AnswerInv
<1> QED BY Always, <1>1, PTL

\* Who is in a circle of waits that no registration of several cases is part of holds a row and wants a
\* greater one, which the next one of the circle holds: there would be no greatest row wanted.
LEMMA CirclesHaveARegistration ==
  ASSUME IInv, NEW ss \in SUBSET Sessions, Deadlocked(ss), \A s \in ss : ~Named(tx[s])
  PROVE  FALSE
<1>1. ASSUME NEW s \in ss
      PROVE  /\ tx[s] \in Tx /\ Own(tx[s]) /\ Numbers(LastCase, tx[s]) /\ tx[s].wants \in Seq(Nat)
             /\ tx[s].at \in {"LOCK", "INSERT"}
  <2>1. tx[s].at \in {"LOCK", "INSERT"}
    BY DEF Deadlocked, WaitsFor
  <2>2. tx[s] \in Tx /\ Own(tx[s]) /\ Numbers(LastCase, tx[s])
    BY <2>1 DEF IInv, TxInv, Idle
  <2> QED BY <2>1, <2>2 DEF Tx
<1> DEFINE wanted(s) == Head(tx[s].wants)
           H == {s \in ss : tx[s].at = "LOCK" /\ tx[s].locks # {}}
           W == {wanted(s) : s \in H}
<1>2. ASSUME NEW s \in ss, tx[s].at = "LOCK"
      PROVE  wanted(s) \in Nat /\ \A x \in tx[s].locks : x < wanted(s)
  <2>1. ~Named(tx[s]) /\ Own(tx[s]) /\ tx[s].wants \in Seq(Nat)
    BY <1>1
  <2> DEFINE m == Len(tx[s].wants)
  <2>2. m \in Nat /\ m # 0 /\ wanted(s) = tx[s].wants[1] /\ wanted(s) \in Nat
    BY <1>2, <2>1 DEF Own
  <2>3. m <= 2 /\ (m = 2 => tx[s].locks = {}) /\ (m = 1 => \A x \in tx[s].locks : x < tx[s].wants[1])
    BY <2>1 DEF Own
  <2> HIDE DEF m
  <2>4. m = 1 \/ m = 2
    BY <2>2, <2>3
  <2> QED BY <2>2, <2>3, <2>4
<1>3. ASSUME NEW s \in ss, tx[s].at = "LOCK"
      PROVE  \E t \in H : wanted(s) \in tx[t].locks
  <2>1. PICK t \in ss : wanted(s) \in tx[t].locks
    BY <1>3 DEF Deadlocked, WaitsFor
  <2>2. tx[t].at = "LOCK"
    BY <1>1, <2>1 DEF Own
  <2> QED BY <2>1, <2>2
<1>4. H # {}
  <2>1. \E s \in ss : tx[s].at = "LOCK"
    <3>1. PICK s \in ss : TRUE
      BY DEF Deadlocked
    <3>2. CASE tx[s].at = "INSERT"
      <4>1. PICK t \in ss \ {s} : tx[s].max + 1 \in tx[t].mine
        BY <3>1, <3>2 DEF Deadlocked, WaitsFor
      <4>2. CASE tx[t].at = "INSERT"
        <5>1. PICK v \in ss \ {t} : tx[t].max + 1 \in tx[v].mine
          BY <4>2 DEF Deadlocked, WaitsFor
        <5> QED BY <4>1, <5>1 DEF IInv, TxInv, Apart
      <4> QED BY <1>1, <4>2
    <3> QED BY <1>1, <3>2
  <2> QED BY <1>3, <2>1
<1> HIDE DEF wanted
<1>5. W \subseteq Nat /\ W # {}
  BY <1>2, <1>4
<1>6. IsFiniteSet(W)
  <2> DEFINE f == [s \in H |-> wanted(s)]
  <2>1. IsFiniteSet(H)
    BY ConstantsOK, FS_Subset
  <2>2. DOMAIN f = H /\ {f[x] : x \in DOMAIN f} = W
    OBVIOUS
  <2> HIDE DEF H, W, f
  <2> QED BY <2>1, <2>2, FiniteImage
<1>7. PICK s \in H : \A t \in H : wanted(t) <= wanted(s)
  <2>1. Max(W) \in W /\ \A y \in W : y <= Max(W)
    <3> HIDE DEF W
    <3> QED BY <1>5, <1>6, MaxIsGreatest
  <2> QED BY <2>1
<1>8. PICK t \in H : wanted(s) \in tx[t].locks
  BY <1>3
<1>9. wanted(s) \in Nat /\ wanted(t) \in Nat /\ wanted(s) < wanted(t) /\ wanted(t) <= wanted(s)
  BY <1>2, <1>7, <1>8
<1> QED BY <1>9

\* In every circle of waits there is a registration that names several cases: moves, which lock in a
\* fixed order, and the rest never wait for one another in one (requests.MoveToCase).
THEOREM OnlyRegistrationsDeadlockAlways == Spec => []OnlyRegistrationsDeadlock
<1>1. IInv => OnlyRegistrationsDeadlock
  BY CirclesHaveARegistration DEF OnlyRegistrationsDeadlock, Named
<1> QED BY Always, <1>1, PTL
=============================================================================
