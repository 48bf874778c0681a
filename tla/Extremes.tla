-------------------------------- MODULE Extremes --------------------------------
(***************************************************************************)
(* Facts about Max and Min of finite sets of integers, for the proofs      *)
(* about the numbers the code takes as one past the greatest it read; and, *)
(* from Min, induction for a set of numbers, for the loops over a list.    *)
(***************************************************************************)
EXTENDS FiniteSetTheorems, FiniteSetsExt, TLAPS

\* What a function gives for finitely many arguments is finite: the numbers a table holds.
THEOREM FiniteImage ==
  ASSUME NEW f, IsFiniteSet(DOMAIN f)
  PROVE  IsFiniteSet({f[x] : x \in DOMAIN f})
<1> DEFINE S == DOMAIN f
           T == {f[x] : x \in S}
           g == [x \in S |-> f[x]]
<1>1. g \in Surjection(S, T)
  BY DEF Surjection
<1>2. IsFiniteSet(T)
  <2> HIDE DEF g, T
  <2> QED BY <1>1, FS_Surjection
<1> QED BY <1>2

\* A finite set of integers that is not empty has a greatest element, which Max is: what MAX(...)
\* gives the queries that number cases, reports, traces and requests.
THEOREM MaxIsGreatest ==
  ASSUME NEW S \in SUBSET Int, IsFiniteSet(S), S # {}
  PROVE  Max(S) \in S /\ \A y \in S : y <= Max(S)
<1> DEFINE From(x) == {y \in S : y >= x}
           Tails   == {From(x) : x \in S}
           R       == StrictSubsetOrdering(S)
<1>0. ASSUME NEW x \in S
      PROVE  From(x) \in FiniteSubsetsOf(S)
  <2>1. From(x) \in SUBSET S
    OBVIOUS
  <2>2. IsFiniteSet(From(x))
    BY <2>1, FS_Subset
  <2> QED BY <2>1, <2>2 DEF FiniteSubsetsOf
<1>1. Tails \subseteq FiniteSubsetsOf(S) /\ Tails # {}
  <2> HIDE DEF From
  <2> QED BY <1>0
<1>2. IsWellFoundedOn(R, FiniteSubsetsOf(S))
  BY FS_StrictSubsetOrderingWellFounded
<1>3. PICK t \in Tails : \A u \in Tails : ~(<<u, t>> \in R)
  <2> HIDE DEF Tails, R
  <2> QED BY <1>1, <1>2, WFMin, Zenon
<1>4. PICK x \in S : t = From(x)
  OBVIOUS
<1>5. ASSUME NEW y \in S, ~(y <= x)
      PROVE  FALSE
  <2>1. y > x
    BY <1>5
  <2>2. ASSUME NEW z \in From(y)
        PROVE  z \in From(x)
    <3>1. z \in S /\ z >= y
      OBVIOUS
    <3>2. z \in Int /\ y \in Int /\ x \in Int
      BY <3>1
    <3>3. z >= x
      BY <2>1, <3>1, <3>2
    <3> QED BY <3>1, <3>3
  <2>3. x \in From(x) /\ x \notin From(y)
    BY <2>1
  <2>4. <<From(y), t>> \in R
    <3>1. From(y) \in SUBSET S /\ t \in SUBSET S
      BY <1>4
    <3>2. From(y) # t
      BY <2>3, <1>4
    <3> HIDE DEF From
    <3> QED BY <2>2, <3>1, <3>2, <1>4 DEF StrictSubsetOrdering
  <2>5. From(y) \in Tails
    OBVIOUS
  <2> QED BY <1>3, <2>4, <2>5
<1>6. \E z \in S : \A y \in S : z >= y
  BY <1>5
<1> QED BY <1>6 DEF Max

\* Likewise the least, which Min is: a cluster's anchor, the oldest of the clusters joined.
THEOREM MinIsLeast ==
  ASSUME NEW S \in SUBSET Int, IsFiniteSet(S), S # {}
  PROVE  Min(S) \in S /\ \A y \in S : Min(S) <= y
<1> DEFINE UpTo(x) == {y \in S : y <= x}
           Heads   == {UpTo(x) : x \in S}
           R       == StrictSubsetOrdering(S)
<1>0. ASSUME NEW x \in S
      PROVE  UpTo(x) \in FiniteSubsetsOf(S)
  <2>1. UpTo(x) \in SUBSET S
    OBVIOUS
  <2>2. IsFiniteSet(UpTo(x))
    BY <2>1, FS_Subset
  <2> QED BY <2>1, <2>2 DEF FiniteSubsetsOf
<1>1. Heads \subseteq FiniteSubsetsOf(S) /\ Heads # {}
  <2> HIDE DEF UpTo
  <2> QED BY <1>0
<1>2. IsWellFoundedOn(R, FiniteSubsetsOf(S))
  BY FS_StrictSubsetOrderingWellFounded
<1>3. PICK t \in Heads : \A u \in Heads : ~(<<u, t>> \in R)
  <2> HIDE DEF Heads, R
  <2> QED BY <1>1, <1>2, WFMin, Zenon
<1>4. PICK x \in S : t = UpTo(x)
  OBVIOUS
<1>5. ASSUME NEW y \in S, ~(x <= y)
      PROVE  FALSE
  <2>1. y < x
    BY <1>5
  <2>2. ASSUME NEW z \in UpTo(y)
        PROVE  z \in UpTo(x)
    <3>1. z \in S /\ z <= y
      OBVIOUS
    <3>2. z \in Int /\ y \in Int /\ x \in Int
      BY <3>1
    <3>3. z <= x
      BY <2>1, <3>1, <3>2
    <3> QED BY <3>1, <3>3
  <2>3. x \in UpTo(x) /\ x \notin UpTo(y)
    BY <2>1
  <2>4. <<UpTo(y), t>> \in R
    <3>1. UpTo(y) \in SUBSET S /\ t \in SUBSET S
      BY <1>4
    <3>2. UpTo(y) # t
      BY <2>3, <1>4
    <3> HIDE DEF UpTo
    <3> QED BY <2>2, <3>1, <3>2, <1>4 DEF StrictSubsetOrdering
  <2>5. UpTo(y) \in Heads
    OBVIOUS
  <2> QED BY <1>3, <2>4, <2>5
<1>6. \E z \in S : \A y \in S : z <= y
  BY <1>5
<1> QED BY <1>6 DEF Min

\* Induction with a set in place of a predicate: what holds of 0 turns of a loop, and of one turn more
\* whenever it holds, holds of any number of them.
LEMMA SetInduction ==
  ASSUME NEW S, 0 \in S, \A n \in Nat : n \in S => n + 1 \in S
  PROVE  Nat \subseteq S
<1> SUFFICES ASSUME NEW n \in Nat, n \notin S
             PROVE  FALSE
  OBVIOUS
<1> DEFINE T == {m \in 0..n : m \notin S}
<1>1. T \in SUBSET Int /\ T # {}
  OBVIOUS
<1>2. IsFiniteSet(T)
  <2>1. IsFiniteSet(0..n) /\ T \subseteq 0..n
    BY FS_Interval
  <2> HIDE DEF T
  <2> QED BY <2>1, FS_Subset
<1>3. Min(T) \in T /\ \A m \in T : Min(T) <= m
  <2> HIDE DEF T
  <2> QED BY <1>1, <1>2, MinIsLeast
<1>4. PICK m \in T : \A x \in T : m <= x
  BY <1>3
<1>5. m \in Nat /\ m # 0 /\ m <= n
  OBVIOUS
<1>6. m - 1 \in 0..n /\ m - 1 \notin T
  BY <1>4, <1>5
<1> QED BY <1>5, <1>6

\* f gives what a loop of L turns has after each of them.
Loops(f, L, X, first, turn) ==
  f \in [0..L -> X] /\ \A n \in 0..L : f[n] = IF n = 0 THEN first ELSE turn[n][f[n-1]]

\* A loop of so many turns, each of which makes a value of what the one before came to, comes to an end:
\* there is such a function.
LEMMA LoopRuns ==
  ASSUME NEW L \in Nat, NEW X, NEW first \in X, NEW turn \in [1..L -> [X -> X]]
  PROVE  \E f : Loops(f, L, X, first, turn)
<1> DEFINE Runs(f, k) == f \in [0..k -> X] /\ \A n \in 0..k : f[n] = IF n = 0 THEN first ELSE turn[n][f[n-1]]
           S == {k \in Nat : k <= L => \E f : Runs(f, k)}
<1>1. 0 \in S
  <2> DEFINE f == [n \in 0..0 |-> first]
  <2>1. Runs(f, 0)
    OBVIOUS
  <2> HIDE DEF f, Runs
  <2> QED BY <2>1
<1>2. \A k \in Nat : k \in S => k + 1 \in S
  <2> SUFFICES ASSUME NEW k \in Nat, k + 1 <= L, NEW f, Runs(f, k)
               PROVE  \E g : Runs(g, k + 1)
    <3> HIDE DEF Runs
    <3> QED OBVIOUS
  <2> DEFINE g == [n \in 0..(k + 1) |-> IF n = k + 1 THEN turn[k + 1][f[k]] ELSE f[n]]
  <2>1. turn[k + 1] \in [X -> X] /\ f[k] \in X
    OBVIOUS
  <2>2. g \in [0..(k + 1) -> X]
    <3>1. ASSUME NEW n \in 0..(k + 1), n # k + 1
          PROVE  f[n] \in X
      <4>1. n \in 0..k
        BY <3>1
      <4> QED BY <4>1
    <3> QED BY <2>1, <3>1
  <2>3. ASSUME NEW n \in 0..(k + 1)
        PROVE  g[n] = IF n = 0 THEN first ELSE turn[n][g[n-1]]
    <3>1. CASE n = k + 1
      <4>1. n # 0 /\ n - 1 = k /\ k \in 0..(k + 1) /\ k # k + 1
        BY <3>1
      <4>2. g[k] = f[k] /\ g[n] = turn[k + 1][f[k]]
        BY <3>1, <4>1
      <4> HIDE DEF g
      <4> QED BY <3>1, <4>1, <4>2
    <3>2. CASE n # k + 1
      <4>1. n \in 0..k /\ (n # 0 => n - 1 \in 0..(k + 1) /\ n - 1 # k + 1)
        BY <3>2
      <4>2. g[n] = f[n] /\ (n # 0 => g[n - 1] = f[n - 1])
        BY <4>1
      <4>3. f[n] = IF n = 0 THEN first ELSE turn[n][f[n-1]]
        BY <4>1
      <4> HIDE DEF g
      <4> QED BY <4>2, <4>3
    <3> QED BY <3>1, <3>2
  <2>4. Runs(g, k + 1)
    <3> HIDE DEF g
    <3> QED BY <2>2, <2>3
  <2> HIDE DEF g, Runs
  <2> QED BY <2>4
<1>3. \E f : Runs(f, L)
  <2> HIDE DEF S, Runs
  <2>1. Nat \subseteq S
    BY <1>1, <1>2, SetInduction
  <2> QED BY <2>1 DEF S
<1> QED BY <1>3 DEF Loops
=============================================================================
