-------------------------- MODULE DistributionProofs --------------------------
(***************************************************************************)
(* Theorems about Distribution, for any examiners, analyses, calls and     *)
(* bounds, and about Gallery, for any faces and bounds: two systems with   *)
(* nothing in common but the facts about finite sets they need.            *)
(*                                                                         *)
(* Of Distribution, the first half is about plan alone: Planned says what  *)
(* the loop has done after k items of the list, one turn keeps it so, and  *)
(* SetInduction carries it to the end.  The second is the invariant of the *)
(* calls: which of them hold the lock, what a distribution listed is still *)
(* pending as long as it does, and its plan is one that plan makes of that *)
(* list.  HandInv adds who holds what while a call reads, and with it      *)
(* every step is one of Assignments or none.                               *)
(*                                                                         *)
(* Gallery's invariant follows each pair of faces to the score that one of *)
(* the two matchers owes it.                                               *)
(***************************************************************************)
EXTENDS Distribution, Gallery, Extremes

-----------------------------------------------------------------------------
(* plan.                                                                   *)

Sorted(items) == \A i, j \in DOMAIN items : i < j => items[i].a < items[j].a

\* Who was given the n-th thing was, of those preferred for it, one with the least; given nothing
\* after it, they have at most one more than each of them.
Even(items, avoid, k, done) ==
  \A n \in DOMAIN done.given, i \in 1..k :
    done.given[n].a = items[i].a =>
      /\ done.given[n].user \in Preferred(items[i], avoid)
      /\ (\A m \in DOMAIN done.given : m > n => done.given[m].user # done.given[n].user)
           => \A v \in Preferred(items[i], avoid) : done.load[done.given[n].user] <= done.load[v] + 1

\* The first k items: which are given, in order, and what is left of them.
Oldest(items, count, k, done) ==
  /\ Len(done.given) <= count
  /\ \A n \in DOMAIN done.given : \E i \in 1..k :
       /\ Eligible(items[i]) # {}
       /\ done.given[n].a = items[i].a /\ done.given[n].step = items[i].step
  /\ Sorted(done.given)
  /\ \A i \in 1..k : Eligible(items[i]) # {} =>
       \/ \E n \in DOMAIN done.given : done.given[n].a = items[i].a
       \/ Len(done.given) = count /\ \A n \in DOMAIN done.given : done.given[n].a < items[i].a

Counted(load, done) == \A u \in Users : done.load[u] = load[u] + Share(done.given, u)

\* What plan has done after k items.
Planned(items, avoid, load, count, k, done) ==
  /\ done \in [load : [Users -> Nat], given : Seq(Given)]
  /\ Oldest(items, count, k, done)
  /\ Counted(load, done)
  /\ Even(items, avoid, k, done)

\* There is one with the least among some of the users, and LeastLoaded is such a one.
LEMMA LeastLoadedIsLeast ==
  ASSUME NEW us \in SUBSET Users, us # {}, NEW load \in [Users -> Nat]
  PROVE  /\ LeastLoaded(us, load) \in us
         /\ \A v \in us : load[LeastLoaded(us, load)] <= load[v]
<1> DEFINE f  == [u \in us |-> load[u]]
           L  == {f[u] : u \in DOMAIN f}
           at == {u \in us : load[u] = Min(L)}
<1>1. IsFiniteSet(us)
  BY ConstantsOK, FS_Subset
<1>2. IsFiniteSet(L) /\ L \in SUBSET Int /\ L # {}
  <2>1. L \in SUBSET Int /\ L # {} /\ DOMAIN f = us
    OBVIOUS
  <2> HIDE DEF f
  <2>2. IsFiniteSet(L)
    BY <1>1, <2>1, FiniteImage
  <2> QED BY <2>1, <2>2
<1>3. Min(L) \in L /\ \A y \in L : Min(L) <= y
  <2> HIDE DEF L
  <2> QED BY <1>2, MinIsLeast
<1>4. at # {} /\ \A u \in at, v \in us : load[u] <= load[v]
  <2>1. \A v \in us : load[v] \in L
    OBVIOUS
  <2>2. \E u \in us : load[u] = Min(L)
    BY <1>3
  <2> HIDE DEF L
  <2> QED BY <1>3, <2>1, <2>2
<1>5. IsFiniteSet(at) /\ at \in SUBSET Int
  <2>1. at \in SUBSET us
    OBVIOUS
  <2>2. us \subseteq Nat
    BY ConstantsOK
  <2> HIDE DEF at
  <2>3. IsFiniteSet(at)
    BY <1>1, <2>1, FS_Subset
  <2> QED BY <2>1, <2>2, <2>3
<1>6. Min(at) \in at /\ \A y \in at : Min(at) <= y
  <2> HIDE DEF at
  <2> QED BY <1>4, <1>5, MinIsLeast
<1>7. \E u \in us : \A v \in us : load[u] < load[v] \/ (load[u] = load[v] /\ u <= v)
  <2>1. PICK u \in at : \A y \in at : u <= y
    BY <1>6
  <2>2. \A v \in us : load[u] <= load[v] /\ load[v] \in Nat /\ load[u] \in Nat
    BY <1>4, <2>1
  <2>3. ASSUME NEW v \in us, load[u] = load[v]
        PROVE  u <= v
    <3>1. v \in at
      BY <2>1, <2>3
    <3> QED BY <2>1, <3>1
  <2> HIDE DEF at
  <2>4. \A v \in us : load[u] < load[v] \/ (load[u] = load[v] /\ u <= v)
    BY <2>2, <2>3
  <2>5. u \in us
    BY <2>1 DEF at
  <2> QED BY <2>4, <2>5
<1>8. /\ LeastLoaded(us, load) \in us
      /\ \A v \in us : \/ load[LeastLoaded(us, load)] < load[v]
                       \/ load[LeastLoaded(us, load)] = load[v] /\ LeastLoaded(us, load) <= v
  BY <1>7 DEF LeastLoaded
<1> QED BY <1>8

\* Those preferred are some of those who can take the item, if anybody can.
LEMMA PreferredAreEligible ==
  ASSUME NEW item \in Item, Eligible(item) # {}, NEW avoid \in [Analyses -> SUBSET Users]
  PROVE  /\ Preferred(item, avoid) \in SUBSET Users /\ Preferred(item, avoid) # {}
         /\ Preferred(item, avoid) \subseteq Eligible(item)
<1>1. Eligible(item) \in SUBSET Users
  BY ConstantsOK DEF Eligible, Item, Types
<1> QED BY <1>1 DEF Preferred

\* Giving one thing more to u is one more in the share of u, and of nobody else.
LEMMA ShareOfAppend ==
  ASSUME NEW given \in Seq(Given), NEW g \in Given, NEW u \in Users
  PROVE  /\ Share(given, u) \in Nat
         /\ Share(Append(given, g), u) = Share(given, u) + (IF g.user = u THEN 1 ELSE 0)
<1> DEFINE L   == Len(given)
           was == {n \in DOMAIN given : given[n].user = u}
           is  == {n \in DOMAIN Append(given, g) : Append(given, g)[n].user = u}
<1>1. L \in Nat /\ was \in SUBSET (1..L)
  OBVIOUS
<1>2. is = IF g.user = u THEN was \cup {L + 1} ELSE was
  <2>1. DOMAIN Append(given, g) = 1..(L + 1) /\ DOMAIN given = 1..L
    OBVIOUS
  <2>2. \A n \in 1..L : Append(given, g)[n] = given[n]
    OBVIOUS
  <2>3. Append(given, g)[L + 1] = g
    OBVIOUS
  <2> QED BY <1>1, <2>1, <2>2, <2>3
<1>3. L + 1 \notin was
  BY <1>1
<1> HIDE DEF was, is, L
<1>4. IsFiniteSet(was)
  <2>1. IsFiniteSet(1..L)
    BY <1>1, FS_Interval
  <2> QED BY <1>1, <2>1, FS_Subset
<1>5. Cardinality(was) \in Nat /\ Cardinality(was \cup {L + 1}) = Cardinality(was) + 1
  BY <1>3, <1>4, FS_CardinalityType, FS_AddElement
<1>6. Share(given, u) = Cardinality(was) /\ Share(Append(given, g), u) = Cardinality(is)
  BY DEF Share, was, is
<1>7. CASE g.user = u
  BY <1>2, <1>5, <1>6, <1>7
<1>8. CASE g.user # u
  BY <1>2, <1>5, <1>6, <1>8
<1> QED BY <1>7, <1>8

\* One turn of the loop.
LEMMA GivePlanned ==
  ASSUME NEW items \in Seq(Item), Sorted(items), NEW avoid \in [Analyses -> SUBSET Users],
         NEW load \in [Users -> Nat], NEW count \in Nat,
         NEW k \in Nat, k + 1 \in 1..Len(items),
         NEW done, Planned(items, avoid, load, count, k, done)
  PROVE  Planned(items, avoid, load, count, k + 1, Give(done, items[k + 1], avoid, count))
<1> DEFINE item  == items[k + 1]
           given == done.given
<1>1. /\ done \in [load : [Users -> Nat], given : Seq(Given)]
      /\ given \in Seq(Given) /\ Len(given) \in Nat /\ DOMAIN given = 1..Len(given)
  BY DEF Planned
<1>2. item \in Item /\ \A i \in 1..(k + 1) : i \in DOMAIN items /\ items[i] \in Item
  OBVIOUS
<1>0. 1..k \subseteq 1..(k + 1) /\ 1..(k + 1) = 1..k \cup {k + 1} /\ k + 1 \notin 1..k
  OBVIOUS
<1>3. \A i \in 1..k : items[i].a < item.a /\ items[i].a \in Nat /\ item.a \in Nat
  <2>1. \A i \in 1..(k + 1) : items[i].a \in Nat
    BY <1>2, ConstantsOK DEF Item
  <2>2. ASSUME NEW i \in 1..k
        PROVE  i \in DOMAIN items /\ k + 1 \in DOMAIN items /\ i < k + 1
    BY <1>2
  <2> QED BY <1>0, <2>1, <2>2 DEF Sorted
<1>4. \A n \in DOMAIN given : given[n].a < item.a
  BY <1>3 DEF Planned, Oldest
<1>5. CASE Eligible(item) = {} \/ Len(given) = count
  <2>1. Give(done, item, avoid, count) = done
    BY <1>5 DEF Give
  <2>2. Oldest(items, count, k + 1, done)
    BY <1>0, <1>4, <1>5, Zenon DEF Planned, Oldest
  <2>3. Even(items, avoid, k + 1, done)
    <3>1. \A n \in DOMAIN given : given[n].a # item.a
      <4>1. \A n \in DOMAIN given : \E i \in 1..k : given[n].a = items[i].a
        BY DEF Planned, Oldest
      <4> QED BY <1>3, <4>1
    <3> QED BY <1>0, <3>1, Zenon DEF Planned, Even
  <2> QED BY <2>1, <2>2, <2>3 DEF Planned
<1>6. CASE ~(Eligible(item) = {} \/ Len(given) = count)
  <2> DEFINE ps   == Preferred(item, avoid)
             u    == LeastLoaded(ps, done.load)
             g    == [a |-> item.a, step |-> item.step, user |-> u]
             new  == Append(given, g)
             next == [load |-> [done.load EXCEPT ![u] = @ + 1], given |-> new]
  <2>1. Give(done, item, avoid, count) = next
    BY <1>6 DEF Give
  <2>2. ps \in SUBSET Users /\ ps # {}
    BY <1>2, <1>6, PreferredAreEligible
  <2>3. u \in ps /\ \A v \in ps : done.load[u] <= done.load[v]
    BY <1>1, <2>2, LeastLoadedIsLeast
  <2> HIDE DEF u
  <2>4. g \in Given /\ g.a = item.a /\ g.step = item.step /\ g.user = u
    BY <1>2, <2>2, <2>3 DEF Given, Item
  <2> HIDE DEF g
  <2>5. /\ new \in Seq(Given) /\ Len(new) = Len(given) + 1 /\ DOMAIN new = 1..(Len(given) + 1)
        /\ new[Len(given) + 1] = g
        /\ \A n \in 1..Len(given) : new[n] = given[n]
    BY <1>1, <2>4
  <2> HIDE DEF new
  <2>6. /\ next \in [load : [Users -> Nat], given : Seq(Given)]
        /\ next.given = new
        /\ \A v \in Users : next.load[v] = done.load[v] + (IF v = u THEN 1 ELSE 0)
    BY <1>1, <2>2, <2>3, <2>5
  <2> HIDE DEF next
  <2>7. Oldest(items, count, k + 1, next)
    <3>1. Oldest(items, count, k, done)
      BY DEF Planned
    <3>2. Len(next.given) <= count
      BY <1>1, <1>6, <2>5, <2>6, <3>1 DEF Oldest
    <3>3. \A n \in DOMAIN new : \E i \in 1..(k + 1) :
            Eligible(items[i]) # {} /\ new[n].a = items[i].a /\ new[n].step = items[i].step
      <4>1. ASSUME NEW n \in 1..Len(given)
            PROVE  \E i \in 1..(k + 1) :
                     Eligible(items[i]) # {} /\ new[n].a = items[i].a /\ new[n].step = items[i].step
        <5>1. PICK i \in 1..k :
                Eligible(items[i]) # {} /\ given[n].a = items[i].a /\ given[n].step = items[i].step
          BY <1>1, <3>1 DEF Oldest
        <5>2. new[n] = given[n] /\ i \in 1..(k + 1)
          BY <1>0, <2>5
        <5> QED BY <5>1, <5>2
      <4>2. Eligible(items[k + 1]) # {} /\ g.a = items[k + 1].a /\ g.step = items[k + 1].step
        BY <1>6, <2>4
      <4>3. DOMAIN new = 1..Len(given) \cup {Len(given) + 1} /\ k + 1 \in 1..(k + 1)
        BY <1>0, <1>1, <2>5
      <4> HIDE DEF item
      <4> QED BY <2>5, <4>1, <4>2, <4>3, Zenon
    <3>4. Sorted(new)
      <4>1. DOMAIN given = 1..Len(given) /\ Len(given) \in Nat
        BY <1>1
      <4>2. ASSUME NEW i \in DOMAIN new, NEW j \in DOMAIN new, i < j
            PROVE  i \in DOMAIN given /\ (j \in DOMAIN given \/ j = Len(given) + 1)
        BY <2>5, <4>1, <4>2
      <4>3. Sorted(given)
        BY <3>1, Zenon DEF Oldest
      <4>4. ASSUME NEW i \in DOMAIN new, NEW j \in DOMAIN new, i < j
            PROVE  new[i].a < new[j].a
        <5>1. CASE j \in DOMAIN given
          <6>1. new[i] = given[i] /\ new[j] = given[j] /\ i \in DOMAIN given
            BY <2>5, <4>1, <4>2, <4>4, <5>1, Zenon
          <6>2. given[i].a < given[j].a
            BY <4>3, <4>4, <5>1, <6>1, Zenon DEF Sorted
          <6> QED BY <6>1, <6>2, Zenon
        <5>2. CASE j = Len(given) + 1
          <6>1. new[i] = given[i] /\ new[j] = g /\ i \in DOMAIN given
            BY <2>5, <4>1, <4>2, <4>4, <5>2, Zenon
          <6> QED BY <1>4, <2>4, <6>1, Zenon
        <5> QED BY <4>2, <4>4, <5>1, <5>2
      <4> QED BY <4>4 DEF Sorted
    <3>5. ASSUME NEW i \in 1..(k + 1), Eligible(items[i]) # {}
          PROVE  \E n \in DOMAIN new : new[n].a = items[i].a
      <4>1. CASE i = k + 1
        <5>1. Len(given) + 1 \in DOMAIN new
          BY <1>1, <2>5
        <5> QED BY <2>4, <2>5, <4>1, <5>1
      <4>2. CASE i \in 1..k
        <5>1. PICK n \in DOMAIN given : given[n].a = items[i].a
          BY <1>6, <3>1, <3>5, <4>2 DEF Oldest
        <5>2. n \in DOMAIN new /\ new[n] = given[n]
          BY <1>1, <2>5
        <5> QED BY <5>1, <5>2
      <4> QED BY <1>0, <4>1, <4>2
    <3> QED BY <2>6, <3>2, <3>3, <3>4, <3>5 DEF Oldest
  <2>8. Counted(load, next)
    <3>1. ASSUME NEW v \in Users
          PROVE  next.load[v] = load[v] + Share(new, v)
      <4>1. Share(given, v) \in Nat /\ Share(new, v) = Share(given, v) + (IF u = v THEN 1 ELSE 0)
        BY <1>1, <2>4, ShareOfAppend DEF new
      <4>2. done.load[v] = load[v] + Share(given, v) /\ load[v] \in Nat
        BY DEF Planned, Counted
      <4> QED BY <2>6, <4>1, <4>2
    <3> QED BY <2>6, <3>1 DEF Counted
  <2>9. Even(items, avoid, k + 1, next)
    <3> SUFFICES ASSUME NEW n \in DOMAIN new, NEW i \in 1..(k + 1), new[n].a = items[i].a
                 PROVE  /\ new[n].user \in Preferred(items[i], avoid)
                        /\ (\A m \in DOMAIN new : m > n => new[m].user # new[n].user)
                             => \A v \in Preferred(items[i], avoid) :
                                  next.load[new[n].user] <= next.load[v] + 1
      <4> QED BY <2>6 DEF Even
    <3>1. CASE n \in 1..Len(given)
      <4>0. new[n] = given[n] /\ n \in DOMAIN given
        BY <1>1, <2>5, <3>1
      <4>1. i \in 1..k
        <5>1. PICK j \in 1..k : given[n].a = items[j].a
          BY <4>0 DEF Planned, Oldest
        <5>2. items[i].a # item.a
          BY <1>3, <4>0, <5>1
        <5> QED BY <1>0, <5>2
      <4>2. /\ given[n].user \in Preferred(items[i], avoid)
            /\ (\A m \in DOMAIN given : m > n => given[m].user # given[n].user)
                 => \A v \in Preferred(items[i], avoid) : done.load[given[n].user] <= done.load[v] + 1
        BY <1>1, <2>5, <3>1, <4>1 DEF Planned, Even
      <4>3. ASSUME \A m \in DOMAIN new : m > n => new[m].user # new[n].user,
                   NEW v \in Preferred(items[i], avoid)
            PROVE  next.load[new[n].user] <= next.load[v] + 1
        <5>1. u # given[n].user
          <6>1. Len(given) + 1 \in DOMAIN new /\ Len(given) + 1 > n
            BY <1>1, <2>5, <3>1
          <6> QED BY <2>4, <2>5, <4>0, <4>3, <6>1
        <5>2. \A m \in DOMAIN given : m > n => given[m].user # given[n].user
          BY <1>1, <2>5, <3>1, <4>3
        <5>3. given[n].user \in Users
          <6>1. given[n] \in Given
            BY <1>1, <4>0
          <6> QED BY <6>1 DEF Given
        <5>4. Eligible(items[i]) # {}
          <6>1. PICK j \in 1..k : Eligible(items[j]) # {} /\ given[n].a = items[j].a
            BY <1>1, <3>1 DEF Planned, Oldest
          <6>2. i = j
            <7>1. items[i].a = items[j].a
              BY <2>5, <3>1, <6>1
            <7>2. i \in DOMAIN items /\ j \in DOMAIN items
              BY <1>2
            <7>3. items[i].a \in Nat
              BY <1>3
            <7> QED BY <7>1, <7>2, <7>3 DEF Sorted
          <6> QED BY <6>1, <6>2
        <5>5. v \in Users
          BY <1>2, <5>4, PreferredAreEligible
        <5>6. done.load[given[n].user] <= done.load[v] + 1
          BY <4>2, <5>2
        <5>7. done.load[v] \in Nat /\ done.load[given[n].user] \in Nat
          BY <1>1, <5>3, <5>5
        <5>8. next.load[given[n].user] = done.load[given[n].user] /\ next.load[v] >= done.load[v] /\ next.load[v] \in Nat
          <6> DEFINE w == given[n].user
          <6>1. w \in Users /\ u # w /\ done.load[w] \in Nat
            BY <5>1, <5>3, <5>7
          <6> HIDE DEF w
          <6>2. next.load[w] = done.load[w] + 0
            BY <2>6, <6>1
          <6>3. next.load[v] = done.load[v] + (IF v = u THEN 1 ELSE 0)
            BY <2>6, <5>5
          <6>4. next.load[w] = done.load[w]
            BY <6>1, <6>2
          <6>5. next.load[v] >= done.load[v] /\ next.load[v] \in Nat
            BY <5>7, <6>3
          <6> QED BY <6>4, <6>5 DEF w
        <5>9. new[n] = given[n]
          BY <2>5, <3>1
        <5> QED BY <5>6, <5>7, <5>8, <5>9
      <4> QED BY <2>5, <3>1, <4>2, <4>3
    <3>2. CASE n = Len(given) + 1
      <4>1. i = k + 1
        <5>1. items[i].a = item.a
          BY <2>4, <2>5, <3>2
        <5> QED BY <1>3, <5>1
      <4>2. new[n].user = u
        BY <2>4, <2>5, <3>2
      <4>3. ASSUME NEW v \in ps
            PROVE  next.load[u] <= next.load[v] + 1
        <5>1. v \in Users /\ u \in Users
          BY <2>2, <2>3
        <5>2. done.load[u] <= done.load[v] /\ done.load[v] \in Nat /\ done.load[u] \in Nat
          BY <1>1, <2>3, <5>1
        <5>3. next.load[u] = done.load[u] + 1 /\ next.load[v] = done.load[v] + (IF v = u THEN 1 ELSE 0)
          BY <2>6, <5>1
        <5> QED BY <5>2, <5>3
      <4> QED BY <2>3, <4>1, <4>2, <4>3
    <3> QED BY <1>1, <2>5, <3>1, <3>2
  <2> QED BY <2>1, <2>6, <2>7, <2>8, <2>9 DEF Planned
<1> QED BY <1>5, <1>6

\* Nothing is planned of an empty list.
LEMMA NothingPlanned ==
  ASSUME NEW items, NEW avoid, NEW load \in [Users -> Nat], NEW count \in Nat
  PROVE  Planned(items, avoid, load, count, 0, [load |-> load, given |-> <<>>])
<1> DEFINE none == [load |-> load, given |-> <<>>]
<1>1. none \in [load : [Users -> Nat], given : Seq(Given)] /\ DOMAIN none.given = {} /\ Len(none.given) = 0
  OBVIOUS
<1>2. ASSUME NEW u \in Users
      PROVE  none.load[u] = load[u] + Share(none.given, u)
  <2>1. {n \in DOMAIN none.given : none.given[n].user = u} = {}
    BY <1>1
  <2> HIDE DEF none
  <2>2. Share(none.given, u) = 0
    BY <2>1, FS_EmptySet DEF Share
  <2>3. none.load[u] = load[u] /\ load[u] \in Nat
    BY DEF none
  <2> QED BY <2>2, <2>3
<1> HIDE DEF none
<1>3. 1..0 = {}
  OBVIOUS
<1>4. Oldest(items, count, 0, none) /\ Even(items, avoid, 0, none)
  BY <1>1, <1>3 DEF Oldest, Even, Sorted
<1> QED BY <1>1, <1>2, <1>4 DEF Planned, Counted, none

\* The loop, as a function of how many items it has been through: there is one, and what it has done
\* after each is as Planned says.
LEMMA PlanIsPlanned ==
  ASSUME NEW items \in Seq(Item), Sorted(items), NEW avoid \in [Analyses -> SUBSET Users],
         NEW load \in [Users -> Nat], NEW count \in Nat
  PROVE  \E done : /\ Planned(items, avoid, load, count, Len(items), done)
                   /\ done.given = Plan(items, avoid, load, count)
<1> DEFINE L    == Len(items)
           none == [load |-> load, given |-> <<>>]
           Turn(f, n) == IF n = 0 THEN none ELSE Give(f[n-1], items[n], avoid, count)
           Loop(f, k) == f = [n \in 0..k |-> Turn(f, n)]
           S    == {k \in Nat : k <= L => \E f : Loop(f, k)}
<1>1. L \in Nat
  OBVIOUS
<1>2. 0 \in S
  <2> DEFINE f == [n \in 0..0 |-> none]
  <2>1. \A n \in 0..0 : n = 0
    OBVIOUS
  <2>2. Loop(f, 0)
    <3> HIDE DEF none
    <3> QED BY <2>1
  <2> HIDE DEF f, Loop
  <2> QED BY <2>2
<1>3. \A k \in Nat : k \in S => k + 1 \in S
  <2> SUFFICES ASSUME NEW k \in Nat, k + 1 <= L, NEW f, Loop(f, k)
               PROVE  \E g : Loop(g, k + 1)
    <3> HIDE DEF Loop
    <3> QED BY <1>1
  <2> DEFINE g == [n \in 0..(k + 1) |-> IF n = k + 1 THEN Give(f[k], items[k + 1], avoid, count) ELSE f[n]]
  <2>1. ASSUME NEW n \in 0..(k + 1)
        PROVE  g[n] = Turn(g, n)
    <3>1. CASE n = k + 1
      <4>1. n # 0 /\ n - 1 = k /\ k \in 0..(k + 1) /\ k # k + 1
        BY <3>1
      <4>2. g[k] = f[k] /\ g[n] = Give(f[k], items[k + 1], avoid, count)
        BY <3>1, <4>1
      <4> HIDE DEF g, none
      <4> QED BY <3>1, <4>1, <4>2
    <3>2. CASE n \in 0..k
      <4>1. n # k + 1 /\ (n # 0 => n - 1 \in 0..(k + 1) /\ n - 1 # k + 1)
        BY <3>2
      <4>2. g[n] = f[n] /\ (n # 0 => g[n - 1] = f[n - 1])
        BY <4>1
      <4>3. f[n] = Turn(f, n)
        BY <3>2
      <4> HIDE DEF g, none
      <4> QED BY <4>2, <4>3
    <3> QED BY <3>1, <3>2
  <2>2. g = [n \in 0..(k + 1) |-> g[n]]
    OBVIOUS
  <2>3. Loop(g, k + 1)
    <3> HIDE DEF g, none
    <3> QED BY <2>1, <2>2
  <2> HIDE DEF g, Loop
  <2> QED BY <2>3
<1>4. \E f : Loop(f, L)
  <2> HIDE DEF S, Loop, L
  <2>1. Nat \subseteq S
    BY <1>2, <1>3, SetInduction
  <2> QED BY <1>1, <2>1 DEF S
<1> DEFINE done == CHOOSE f : Loop(f, L)
<1>5. Loop(done, L) /\ Plan(items, avoid, load, count) = done[L].given
  <2>1. Loop(done, L)
    <3> HIDE DEF Loop
    <3> QED BY <1>4
  <2>2. Plan(items, avoid, load, count) = done[L].given
    BY DEF Plan
  <2> QED BY <2>1, <2>2
<1> HIDE DEF done
<1> DEFINE T == {k \in Nat : k <= L => Planned(items, avoid, load, count, k, done[k])}
<1>6. 0 \in T
  <2>1. done[0] = none
    <3>1. 0 \in 0..L
      BY <1>1
    <3> HIDE DEF none
    <3> QED BY <1>5, <3>1
  <2> QED BY <2>1, NothingPlanned
<1>7. \A k \in Nat : k \in T => k + 1 \in T
  <2> SUFFICES ASSUME NEW k \in Nat, k + 1 <= L, Planned(items, avoid, load, count, k, done[k])
               PROVE  Planned(items, avoid, load, count, k + 1, done[k + 1])
    BY <1>1
  <2>1. done[k + 1] = Give(done[k], items[k + 1], avoid, count)
    <3>1. k + 1 \in 0..L /\ k + 1 # 0 /\ (k + 1) - 1 = k
      BY <1>1
    <3> HIDE DEF none, L
    <3> QED BY <1>5, <3>1
  <2>2. k + 1 \in 1..Len(items)
    BY <1>1
  <2> QED BY <2>1, <2>2, GivePlanned
<1>8. Planned(items, avoid, load, count, L, done[L])
  <2> HIDE DEF T, L
  <2>1. Nat \subseteq T
    BY <1>6, <1>7, SetInduction
  <2> QED BY <1>1, <2>1 DEF T
<1> QED BY <1>5, <1>8

-----------------------------------------------------------------------------
(* The calls.                                                              *)

\* The points of a call at which it has the distribution lock.
Locked == {"LOCKED", "PENDING", "PLANNED", "LOOKUP", "ASSIGN"}

Held == \A c \in Calls : calls[c].at \in Locked <=> lock = c

\* The list is in order, and what it lists is pending, at the same step as when it was read.
StillPending(items) ==
  /\ Sorted(items)
  /\ \A i \in DOMAIN items : Unassigned(items[i].a) /\ items[i].step = ActiveStep(stage[items[i].a])

Listed == \A c \in Calls : calls[c].at \in {"PENDING", "PLANNED"} => StillPending(calls[c].pending)

\* What is to be written is a plan of the list.
PlannedFrom(call) ==
  \E done : /\ Planned(call.pending, call.avoid, call.load, call.req.count, Len(call.pending), done)
            /\ call.given = done.given

Drawn == \A c \in Calls : calls[c].at = "PLANNED" => PlannedFrom(calls[c])

IInv == TypeOK /\ Held /\ Listed /\ Drawn

\* What a call holds, by where it is.
LEMMA Shapes ==
  ASSUME NEW call \in Call
  PROVE  /\ call.at \in {"NONE", "BEGUN", "LOCKED", "PENDING", "PLANNED", "LOOKUP", "ASSIGN"}
         /\ call.at = "NONE" => call = Idle
         /\ call.at \in {"BEGUN", "LOCKED"} =>
              call \in [at : {"BEGUN", "LOCKED"}, req : Distributes \cup Assigns]
         /\ call.at = "PENDING" => call \in [at : {"PENDING"}, req : Distributes, pending : Seq(Item)]
         /\ call.at = "PLANNED" =>
              call \in [at : {"PLANNED"}, req : Distributes, pending : Seq(Item),
                        avoid : [Analyses -> SUBSET Users], load : [Users -> 0..Cardinality(Analyses)],
                        given : Seq(Given)]
         /\ call.at \in {"LOOKUP", "ASSIGN"} => call \in [at : {"LOOKUP", "ASSIGN"}, req : Assigns, step : Steps]
BY DEF Call, Idle

\* What a step may do to the list of another call, or of the one that makes it: nothing, if it leaves
\* what is pending so.
LEMMA PendingStands ==
  ASSUME NEW items, StillPending(items),
         \A i \in DOMAIN items : stage'[items[i].a] = stage[items[i].a] /\ holder'[items[i].a] = holder[items[i].a]
  PROVE  StillPending(items)'
BY DEF StillPending, Unassigned

\* An examiner's step: the calls stand where they are, and what is pending is nobody's to work on.
LEMMA ExaminersInv ==
  ASSUME IInv, NEW a \in Analyses, NEW next, SaveDraft(a) \/ IssueReport(a) \/ Submit(a, next)
  PROVE  IInv'
<1>1. /\ TypeOK /\ UNCHANGED <<holder, lock, calls, begun>>
      /\ \A b \in Analyses : b # a \/ Unassigned(b) => stage'[b] = stage[b]
  BY DEF IInv, SaveDraft, IssueReport, Submit, Unassigned, TypeOK
<1>2. TypeOK'
  <2>1. ActiveStep(stage[a]) \in Steps
    BY DEF ActiveStep, Steps
  <2>2. stage' \in [Analyses -> {"EXAMINATION", "VERIFICATION", "INCONSISTENCE", "REPORT", "CLOSED"}]
    BY <1>1 DEF SaveDraft, IssueReport, Submit, TypeOK
  <2>3. holder[a][ActiveStep(stage[a])] \in Users \cup {NoUser}
    BY <1>1, <2>1 DEF TypeOK
  <2>4. draft' \in [Analyses -> [Steps -> Users \cup {NoUser}]]
    <3> DEFINE step == ActiveStep(stage[a])
    <3>1. \/ draft' = draft
          \/ draft' = [draft EXCEPT ![a][step] = holder[a][step]]
          \/ draft' = [draft EXCEPT ![a][step] = NoUser]
      BY DEF SaveDraft, IssueReport, Submit
    <3>2. step \in Steps /\ holder[a][step] \in Users \cup {NoUser}
      BY <2>1, <2>3
    <3> HIDE DEF step
    <3>3. draft \in [Analyses -> [Steps -> Users \cup {NoUser}]]
      BY <1>1 DEF TypeOK
    <3>4. ASSUME NEW v \in Users \cup {NoUser}, draft' = [draft EXCEPT ![a][step] = v]
          PROVE  draft' \in [Analyses -> [Steps -> Users \cup {NoUser}]]
      <4>1. [draft[a] EXCEPT ![step] = v] \in [Steps -> Users \cup {NoUser}]
        BY <3>2, <3>3
      <4> QED BY <3>3, <3>4, <4>1
    <3> QED BY <3>1, <3>2, <3>3, <3>4
  <2>5. decided' \in [{Subject[b] : b \in Analyses} -> SUBSET Users]
    <3>1. CASE decided' = decided
      BY <1>1, <3>1 DEF TypeOK
    <3>2. CASE Submit(a, next) /\ decided' = [decided EXCEPT ![Subject[a]] = @ \cup {holder[a][ActiveStep(stage[a])]}]
      <4>1. holder[a][ActiveStep(stage[a])] \in Users
        BY <2>3, <3>2 DEF Submit
      <4> QED BY <1>1, <3>2, <4>1 DEF TypeOK
    <3> QED BY <3>1, <3>2 DEF SaveDraft, IssueReport, Submit
  <2> QED BY <1>1, <2>2, <2>4, <2>5 DEF TypeOK
<1>3. Held' /\ Drawn'
  BY <1>1 DEF IInv, Held, Drawn, PlannedFrom
<1>4. Listed'
  <2> SUFFICES ASSUME NEW c \in Calls, calls[c].at \in {"PENDING", "PLANNED"}
               PROVE  StillPending(calls[c].pending)'
    BY <1>1 DEF Listed
  <2>1. StillPending(calls[c].pending)
    BY DEF IInv, Listed
  <2>2. calls[c].pending \in Seq(Item)
    <3>1. calls[c] \in Call
      BY <1>1 DEF TypeOK
    <3> QED BY <3>1, Shapes
  <2>3. \A i \in DOMAIN calls[c].pending : calls[c].pending[i].a \in Analyses
    <3>1. ASSUME NEW i \in DOMAIN calls[c].pending
          PROVE  calls[c].pending[i] \in Item
      BY <2>2
    <3> QED BY <3>1 DEF Item
  <2> QED BY <1>1, <2>1, <2>3, PendingStands DEF StillPending
<1> QED BY <1>2, <1>3, <1>4 DEF IInv

\* A step of call c is the others' nothing: they stand as they are if the lock was free, or is c's.
LEMMA OneCallInv ==
  ASSUME IInv, NEW c \in Calls, NEW new \in Call, calls' = [calls EXCEPT ![c] = new],
         UNCHANGED <<stage, decided>>, begun' \in 0..MaxCalls,
         draft' = draft \/ draft' \in [Analyses -> [Steps -> Users \cup {NoUser}]],
         holder' \in [Analyses -> [Steps -> Users \cup {NoUser}]], holder' = holder \/ lock = c,
         \/ new.at \in Locked /\ lock' = c /\ lock \in {NoCall, c}
         \/ new.at \notin Locked /\ lock' = (IF lock = c THEN NoCall ELSE lock),
         new.at \in {"PENDING", "PLANNED"} => holder' = holder /\ StillPending(new.pending),
         new.at = "PLANNED" => PlannedFrom(new)
  PROVE  IInv'
<1>1. TypeOK /\ calls \in [Calls -> Call] /\ lock \in Calls \cup {NoCall} /\ NoCall \notin Calls
  BY ConstantsOK DEF IInv, TypeOK
<1>2. calls'[c] = new /\ \A d \in Calls \ {c} : calls'[d] = calls[d]
  BY <1>1
<1>3. TypeOK'
  BY <1>1 DEF TypeOK
<1>4. Held'
  BY <1>1, <1>2 DEF IInv, Held, Locked
<1>5. \A d \in Calls \ {c} : lock = c => calls[d].at \notin {"PENDING", "PLANNED"}
  BY DEF IInv, Held, Locked
<1>6. ASSUME NEW d \in Calls, calls'[d].at \in {"PENDING", "PLANNED"}
      PROVE  StillPending(calls[d].pending)'
  <2>1. CASE d = c
    BY <1>2, <1>6, <2>1 DEF StillPending, Unassigned
  <2>2. CASE d # c
    <3>1. holder' = holder /\ calls'[d] = calls[d] /\ StillPending(calls[d].pending)
      BY <1>2, <1>5, <1>6, <2>2 DEF IInv, Listed
    <3> QED BY <3>1 DEF StillPending, Unassigned
  <2> QED BY <2>1, <2>2
<1>7. Listed'
  BY <1>6 DEF Listed
<1>8. Drawn'
  <2> SUFFICES ASSUME NEW d \in Calls, calls'[d].at = "PLANNED"
               PROVE  PlannedFrom(calls'[d])
    BY DEF Drawn, PlannedFrom
  <2>1. CASE d = c
    BY <1>2, <2>1
  <2>2. CASE d # c
    BY <1>2, <2>2 DEF IInv, Drawn
  <2> QED BY <2>1, <2>2
<1> QED BY <1>3, <1>4, <1>7, <1>8 DEF IInv

\* A call that ends, having written or not.
LEMMA EndsInv ==
  ASSUME IInv, NEW c \in Calls, Ends(c), UNCHANGED <<stage, decided, begun>>,
         draft' = draft \/ draft' \in [Analyses -> [Steps -> Users \cup {NoUser}]],
         holder' \in [Analyses -> [Steps -> Users \cup {NoUser}]], holder' = holder \/ lock = c
  PROVE  IInv'
<1>1. Idle \in Call /\ Idle.at \notin Locked /\ Idle.at \notin {"PENDING", "PLANNED"}
  BY DEF Call, Idle, Locked
<1>2. begun \in 0..MaxCalls
  BY DEF IInv, TypeOK
<1> HIDE DEF Idle
<1> QED BY <1>1, <1>2, OneCallInv DEF Ends, Unlocked

\* Where a call is and who has the lock, as the steps of the calls use it.
LEMMA CallAt ==
  ASSUME IInv, NEW c \in Calls
  PROVE  /\ calls[c] \in Call /\ lock \in Calls \cup {NoCall}
         /\ calls[c].at \in Locked <=> lock = c
         /\ begun \in 0..MaxCalls
         /\ holder \in [Analyses -> [Steps -> Users \cup {NoUser}]]
BY DEF IInv, TypeOK, Held

\* A call begins, or takes the lock.
LEMMA StartsInv ==
  ASSUME IInv, NEW c \in Calls,
         LockCaseDistribution(c) \/ \E req \in Distributes \cup Assigns : Begin(c, req)
  PROVE  IInv'
<1>1. calls[c] \in Call /\ (calls[c].at \in Locked <=> lock = c) /\ begun \in 0..MaxCalls /\ MaxCalls \in Nat
  BY CallAt, ConstantsOK
<1>2. holder \in [Analyses -> [Steps -> Users \cup {NoUser}]]
  BY CallAt
<1>3. CASE LockCaseDistribution(c)
  <2> DEFINE new == [calls[c] EXCEPT !.at = "LOCKED"]
  <2>1. new \in Call /\ new.at = "LOCKED"
    BY <1>1, <1>3, Shapes DEF LockCaseDistribution, Call
  <2>2. new.at \in Locked /\ new.at \notin {"PENDING", "PLANNED"}
    BY <2>1 DEF Locked
  <2>3. /\ calls' = [calls EXCEPT ![c] = new] /\ lock' = c /\ lock = NoCall
        /\ UNCHANGED <<stage, holder, draft, decided, begun>>
    BY <1>3 DEF LockCaseDistribution, tables
  <2> HIDE DEF new
  <2> QED BY <1>1, <1>2, <2>1, <2>2, <2>3, OneCallInv
<1>4. ASSUME NEW req \in Distributes \cup Assigns, Begin(c, req)
      PROVE  IInv'
  <2> DEFINE new == [at |-> "BEGUN", req |-> req]
  <2>1. new \in Call /\ new.at \notin Locked /\ new.at \notin {"PENDING", "PLANNED"}
    BY DEF Call, Locked
  <2>2. /\ calls' = [calls EXCEPT ![c] = new] /\ lock' = lock /\ begun' \in 0..MaxCalls /\ lock # c
        /\ UNCHANGED <<stage, holder, draft, decided>>
    BY <1>1, <1>4 DEF Begin, tables, Locked
  <2> HIDE DEF new
  <2>3. lock' = (IF lock = c THEN NoCall ELSE lock) /\ UNCHANGED holder /\ UNCHANGED draft
    BY <2>2
  <2>4. begun' \in 0..MaxCalls /\ UNCHANGED <<stage, decided>> /\ calls' = [calls EXCEPT ![c] = new]
    BY <2>2
  <2>5. holder' \in [Analyses -> [Steps -> Users \cup {NoUser}]]
    BY <1>2, <2>3
  <2> QED BY <2>1, <2>3, <2>4, <2>5, OneCallInv
<1> QED BY <1>3, <1>4

\* Each analysis is listed once, so its rows are as many as they are, and any order of them is a list
\* of items.
LEMMA RowsAreItems ==
  ASSUME TypeOK, NEW types, NEW rows \in OldestFirst(PendingWork(types))
  PROVE  rows \in Seq(Item) /\ StillPending(rows)
<1> DEFINE work == PendingWork(types)
<1>1. ASSUME NEW x \in work
      PROVE  x \in Item /\ Unassigned(x.a) /\ x.step = ActiveStep(stage[x.a])
  <2>1. PICK a \in Analyses : /\ Unassigned(a)
                              /\ x = [a |-> a, step |-> ActiveStep(stage[a]),
                                      exclude |-> {holder[a]["VERIFICATOR"], holder[a]["REVIEWER"]} \ {NoUser}]
    BY DEF PendingWork
  <2>2. {holder[a]["VERIFICATOR"], holder[a]["REVIEWER"]} \ {NoUser} \in SUBSET Users
    BY DEF TypeOK, Steps
  <2>3. ActiveStep(stage[a]) \in Steps
    BY DEF ActiveStep, Steps
  <2> QED BY <2>1, <2>2, <2>3 DEF Item
<1>2. IsFiniteSet(work)
  <2> DEFINE bs   == {b \in Analyses : TypeOf[b] \in types /\ Unassigned(b)}
             f    == [a \in bs |-> [a |-> a, step |-> ActiveStep(stage[a]),
                                    exclude |-> {holder[a]["VERIFICATOR"], holder[a]["REVIEWER"]} \ {NoUser}]]
  <2>1. IsFiniteSet(bs)
    BY ConstantsOK, FS_Subset
  <2>2. DOMAIN f = bs /\ work = {f[a] : a \in DOMAIN f}
    BY DEF PendingWork
  <2> HIDE DEF work, f, bs
  <2> QED BY <2>1, <2>2, FiniteImage
<1> HIDE DEF work
<1>3. Cardinality(work) \in Nat
  BY <1>2, FS_CardinalityType
<1>4. rows \in [1..Cardinality(work) -> work] /\ \A i, j \in DOMAIN rows : i < j => rows[i].a < rows[j].a
  BY DEF OldestFirst, work
<1>5. rows \in Seq(Item)
  BY <1>1, <1>3, <1>4
<1> QED BY <1>1, <1>4, <1>5 DEF StillPending, Sorted

\* Distribute's first read.
LEMMA ReadsPendingInv ==
  ASSUME IInv, NEW c \in Calls, DistributeReadsPending(c)
  PROVE  IInv'
<1>1. /\ calls[c] \in Call /\ (calls[c].at \in Locked <=> lock = c) /\ begun \in 0..MaxCalls
      /\ holder \in [Analyses -> [Steps -> Users \cup {NoUser}]]
  BY CallAt
<1>2. PICK rows \in OldestFirst(PendingWork(calls[c].req.types)) :
        calls' = [calls EXCEPT ![c] = [at |-> "PENDING", req |-> calls[c].req, pending |-> rows]]
  BY DEF DistributeReadsPending
<1> DEFINE new == [at |-> "PENDING", req |-> calls[c].req, pending |-> rows]
<1>3. rows \in Seq(Item) /\ StillPending(rows)
  BY RowsAreItems DEF IInv
<1>4. calls[c].req \in Distributes
  BY <1>1, Shapes DEF DistributeReadsPending, Assigns
<1>5. new \in Call /\ new.at = "PENDING" /\ new.pending = rows
  BY <1>3, <1>4 DEF Call
<1>6. lock = c /\ lock' = c /\ UNCHANGED <<stage, holder, draft, decided, begun>>
  BY <1>1 DEF DistributeReadsPending, Locked, tables
<1>7. new.at \in Locked /\ new.at # "PLANNED"
  BY <1>5 DEF Locked
<1> HIDE DEF new
<1>8. calls' = [calls EXCEPT ![c] = new]
  BY <1>2 DEF new
<1> QED BY <1>1, <1>3, <1>5, <1>6, <1>7, <1>8, OneCallInv

\* Its second read, and the plan.
LEMMA ReadsExaminersInv ==
  ASSUME IInv, NEW c \in Calls, DistributeReadsExaminers(c)
  PROVE  IInv'
<1> DEFINE call  == calls[c]
           avoid == [a \in Analyses |-> PriorDeciders(a)]
           load  == [u \in Users |-> Load(u)]
           given == Plan(call.pending, avoid, load, call.req.count)
           new   == [at |-> "PLANNED", req |-> call.req, pending |-> call.pending, avoid |-> avoid,
                     load |-> load, given |-> given]
<1>1. /\ call \in Call /\ (call.at \in Locked <=> lock = c) /\ begun \in 0..MaxCalls
      /\ holder \in [Analyses -> [Steps -> Users \cup {NoUser}]]
  BY CallAt
<1>2. call.at = "PENDING" /\ StillPending(call.pending)
  BY DEF DistributeReadsExaminers, IInv, Listed
<1>3. call.req \in Distributes /\ call.pending \in Seq(Item) /\ call.req.count \in Nat
  BY <1>1, <1>2, Shapes, ConstantsOK DEF Distributes
<1>4. avoid \in [Analyses -> SUBSET Users]
  <2>1. ASSUME NEW a \in Analyses
        PROVE  PriorDeciders(a) \in SUBSET Users
    BY DEF PriorDeciders, IInv, TypeOK
  <2> QED BY <2>1
<1>5. load \in [Users -> 0..Cardinality(Analyses)] /\ load \in [Users -> Nat]
  <2>1. ASSUME NEW u \in Users
        PROVE  Load(u) \in 0..Cardinality(Analyses)
    <3> DEFINE mine == {a \in Analyses : stage[a] # "CLOSED" /\ holder[a][ActiveStep(stage[a])] = u}
    <3>1. mine \in SUBSET Analyses /\ IsFiniteSet(Analyses)
      BY ConstantsOK
    <3>2. Load(u) = Cardinality(mine)
      BY DEF Load
    <3> HIDE DEF mine
    <3>3. Cardinality(mine) \in Nat /\ Cardinality(Analyses) \in Nat /\ Cardinality(mine) <= Cardinality(Analyses)
      BY <3>1, FS_Subset, FS_CardinalityType
    <3> QED BY <3>2, <3>3
  <2>2. 0..Cardinality(Analyses) \subseteq Nat
    OBVIOUS
  <2> QED BY <2>1, <2>2
<1> HIDE DEF avoid, load
<1>6. PICK done : /\ Planned(call.pending, avoid, load, call.req.count, Len(call.pending), done)
                  /\ done.given = given
  BY <1>2, <1>3, <1>4, <1>5, PlanIsPlanned DEF StillPending
<1>7. given \in Seq(Given)
  BY <1>6 DEF Planned
<1> HIDE DEF given
<1>8. /\ new \in Call /\ new.at = "PLANNED" /\ new.pending = call.pending
  BY <1>3, <1>4, <1>5, <1>7 DEF Call
<1>9. PlannedFrom(new)
  BY <1>6 DEF PlannedFrom
<1>10. lock = c /\ lock' = c /\ UNCHANGED <<stage, holder, draft, decided, begun>>
  BY <1>1, <1>2 DEF DistributeReadsExaminers, Locked, tables
<1>11. new.at \in Locked
  BY <1>8 DEF Locked
<1>12. calls' = [calls EXCEPT ![c] = new]
  BY DEF DistributeReadsExaminers, avoid, load, given
<1> HIDE DEF new
<1> QED BY <1>1, <1>2, <1>8, <1>9, <1>10, <1>11, <1>12, OneCallInv

\* What a distribution writes are its examiners.
LEMMA WritesInv ==
  ASSUME IInv, NEW c \in Calls, DistributeWrites(c)
  PROVE  IInv'
<1>1. /\ calls[c] \in Call /\ (calls[c].at \in Locked <=> lock = c)
      /\ holder \in [Analyses -> [Steps -> Users \cup {NoUser}]]
  BY CallAt
<1>2. lock = c /\ calls[c].given \in Seq(Given)
  BY <1>1, Shapes DEF DistributeWrites, Locked
<1>3. ASSUME NEW a, NEW s, NEW g \in GivenTo(calls[c].given, a, s)
      PROVE  g.user \in Users
  <2>1. g \in Given
    BY <1>2 DEF GivenTo, Range
  <2> QED BY <2>1 DEF Given
<1>4. holder' \in [Analyses -> [Steps -> Users \cup {NoUser}]]
  <2>1. ASSUME NEW a \in Analyses, NEW s \in Steps
        PROVE  (IF GivenTo(calls[c].given, a, s) = {} THEN holder[a][s]
                ELSE (CHOOSE g \in GivenTo(calls[c].given, a, s) : TRUE).user) \in Users \cup {NoUser}
    BY <1>1, <1>3
  <2> QED BY <2>1 DEF DistributeWrites
<1> QED BY <1>2, <1>4, EndsInv DEF DistributeWrites

\* Assign checks, looks its examiner up and writes.
LEMMA AssignInv ==
  ASSUME IInv, NEW c \in Calls, AssignChecks(c) \/ AssignLooksUp(c) \/ AssignWrites(c)
  PROVE  IInv'
<1>1. /\ calls[c] \in Call /\ (calls[c].at \in Locked <=> lock = c) /\ begun \in 0..MaxCalls
      /\ holder \in [Analyses -> [Steps -> Users \cup {NoUser}]]
  BY CallAt
<1>2. CASE AssignChecks(c)
  <2>1. CASE Ends(c)
    BY <1>1, <1>2, <2>1, EndsInv DEF AssignChecks, tables
  <2>2. CASE ~Ends(c)
    <3> DEFINE req == calls[c].req
               new == [at |-> IF req.user = NoUser THEN "ASSIGN" ELSE "LOOKUP", req |-> req,
                       step |-> ActiveStep(stage[req.a])]
    <3>1. req \in Assigns /\ lock = c
      BY <1>1, <1>2, Shapes DEF AssignChecks, Distributes, Locked
    <3>2. ActiveStep(stage[req.a]) \in Steps
      BY DEF ActiveStep, Steps
    <3>3. new \in Call /\ new.at \in {"ASSIGN", "LOOKUP"}
      BY <3>1, <3>2 DEF Call
    <3>4. calls' = [calls EXCEPT ![c] = new] /\ lock' = c /\ UNCHANGED <<stage, holder, draft, decided, begun>>
      BY <1>2, <2>2, <3>1 DEF AssignChecks, tables
    <3> HIDE DEF new
    <3>5. new.at \in Locked /\ new.at \notin {"PENDING", "PLANNED"}
      BY <3>3 DEF Locked
    <3> QED BY <1>1, <3>1, <3>3, <3>4, <3>5, OneCallInv
  <2> QED BY <2>1, <2>2
<1>3. CASE AssignLooksUp(c)
  <2>1. CASE Ends(c)
    BY <1>1, <1>3, <2>1, EndsInv DEF AssignLooksUp, tables
  <2>2. CASE ~Ends(c)
    <3> DEFINE new == [calls[c] EXCEPT !.at = "ASSIGN"]
    <3>1. calls[c] \in [at : {"LOOKUP", "ASSIGN"}, req : Assigns, step : Steps] /\ lock = c
      BY <1>1, <1>3, Shapes DEF AssignLooksUp, Locked
    <3>2. new \in Call /\ new.at = "ASSIGN"
      BY <3>1 DEF Call
    <3>3. calls' = [calls EXCEPT ![c] = new] /\ lock' = c /\ UNCHANGED <<stage, holder, draft, decided, begun>>
      BY <1>3, <2>2, <3>1 DEF AssignLooksUp, tables
    <3> HIDE DEF new
    <3>4. new.at \in Locked /\ new.at \notin {"PENDING", "PLANNED"}
      BY <3>2 DEF Locked
    <3> QED BY <1>1, <3>1, <3>2, <3>3, <3>4, OneCallInv
  <2> QED BY <2>1, <2>2
<1>4. CASE AssignWrites(c)
  <2> DEFINE a == calls[c].req.a
             s == calls[c].step
             u == calls[c].req.user
  <2>1. calls[c] \in [at : {"LOOKUP", "ASSIGN"}, req : Assigns, step : Steps] /\ lock = c
    BY <1>1, <1>4, Shapes DEF AssignWrites, Locked
  <2>2. a \in Analyses /\ s \in Steps /\ u \in Users \cup {NoUser}
    BY <2>1 DEF Assigns
  <2>3. /\ holder' = [holder EXCEPT ![a][s] = u] /\ draft' = [draft EXCEPT ![a][s] = NoUser]
        /\ Ends(c) /\ UNCHANGED <<stage, decided, begun>>
    BY <1>4 DEF AssignWrites
  <2> HIDE DEF a, s, u
  <2>4. ASSUME NEW x \in [Analyses -> [Steps -> Users \cup {NoUser}]], NEW v \in Users \cup {NoUser}
        PROVE  [x EXCEPT ![a][s] = v] \in [Analyses -> [Steps -> Users \cup {NoUser}]]
    <3>1. [x[a] EXCEPT ![s] = v] \in [Steps -> Users \cup {NoUser}]
      BY <2>2
    <3> QED BY <2>2, <3>1
  <2>5. holder \in [Analyses -> [Steps -> Users \cup {NoUser}]] /\ draft \in [Analyses -> [Steps -> Users \cup {NoUser}]]
    BY DEF IInv, TypeOK
  <2>6. /\ holder' \in [Analyses -> [Steps -> Users \cup {NoUser}]]
        /\ draft' \in [Analyses -> [Steps -> Users \cup {NoUser}]]
    BY <2>2, <2>3, <2>4, <2>5
  <2> QED BY <2>1, <2>3, <2>6, EndsInv
<1> QED BY <1>2, <1>3, <1>4

-----------------------------------------------------------------------------
(* The theorems.                                                           *)

\* Nothing is handed out yet.
LEMMA InitInv == Init => IInv
<1> SUFFICES ASSUME Init
             PROVE  IInv
  OBVIOUS
<1>1. TypeOK
  BY ConstantsOK DEF Init, TypeOK, Call
<1>2. \A c \in Calls : calls[c].at = "NONE" /\ lock # c
  BY ConstantsOK DEF Init, Idle
<1>3. Held /\ Listed /\ Drawn
  BY <1>2 DEF Held, Listed, Drawn, Locked
<1> QED BY <1>1, <1>3 DEF IInv

\* Every step keeps it.
THEOREM StepInv == IInv /\ [Next]_vars => IInv'
<1> SUFFICES ASSUME IInv, [Next]_vars
             PROVE  IInv'
  OBVIOUS
<1>1. ASSUME NEW a \in Analyses, SaveDraft(a) \/ IssueReport(a)
      PROVE  IInv'
  BY <1>1, ExaminersInv
<1>2. ASSUME NEW a \in Analyses, NEW next \in {"VERIFICATION", "INCONSISTENCE", "REPORT"}, Submit(a, next)
      PROVE  IInv'
  BY <1>2, ExaminersInv
<1>3. ASSUME NEW c \in Calls, NEW req \in Distributes \cup Assigns, Begin(c, req)
      PROVE  IInv'
  BY <1>3, StartsInv
<1>4. ASSUME NEW c \in Calls, Proceed(c)
      PROVE  IInv'
  BY <1>4, StartsInv, ReadsPendingInv, ReadsExaminersInv, WritesInv, AssignInv DEF Proceed
<1>5. ASSUME NEW c \in Calls, Rollback(c)
      PROVE  IInv'
  <2>1. UNCHANGED <<stage, holder, draft, decided, begun>> /\ Ends(c)
    BY <1>5 DEF Rollback, tables
  <2>2. holder \in [Analyses -> [Steps -> Users \cup {NoUser}]]
    BY CallAt
  <2> QED BY <2>1, <2>2, EndsInv
<1>6. CASE UNCHANGED vars
  <2>1. UNCHANGED <<stage, holder, draft, decided, lock, calls, begun>>
    BY <1>6 DEF vars, tables
  <2> QED BY <2>1 DEF IInv, TypeOK, Held, Listed, Drawn, StillPending, Unassigned, PlannedFrom
<1> QED BY <1>1, <1>2, <1>3, <1>4, <1>5, <1>6 DEF Next

\* The invariant always holds.
LEMMA Always == Spec => []IInv
BY InitInv, StepInv, PTL DEF Spec

\* Every call is where its fields say, and what it plans are examiners of the analyses' steps.
THEOREM TypeCorrect == Spec => []TypeOK
<1>1. IInv => TypeOK
  BY DEF IInv
<1> QED BY Always, <1>1, PTL

\* One call at a time has the distribution lock, from when it takes it until it ends ("concurrent
\* distributions and manual assignments run one at a time", distribution.go:143).
THEOREM OneAtATime ==
  Spec => [](\A c, d \in Calls : calls[c].at \in Locked /\ calls[d].at \in Locked => c = d)
<1>1. IInv => \A c, d \in Calls : calls[c].at \in Locked /\ calls[d].at \in Locked => c = d
  BY DEF IInv, Held
<1> QED BY Always, <1>1, PTL

\* What a distribution listed is still pending, at the same step, for as long as it reads and plans,
\* whatever the examiners do meanwhile.
THEOREM ListedIsStillPending == Spec => []Listed
<1>1. IInv => Listed
  BY DEF IInv
<1> QED BY Always, <1>1, PTL

\* plan hands out the oldest items that somebody can take, each once and up to the count, for any list.
THEOREM OldestHandedOutAlways == Spec => []OldestHandedOut
<1>1. ASSUME IInv, NEW c \in Calls, calls[c].at = "PLANNED"
      PROVE  LET pending == calls[c].pending
                 given   == calls[c].given
                 able    == {i \in DOMAIN pending : Eligible(pending[i]) # {}}
             IN  /\ Len(given) <= calls[c].req.count
                 /\ \A n \in DOMAIN given : \E i \in able : given[n].a = pending[i].a
                 /\ \A m, n \in DOMAIN given : m < n => given[m].a < given[n].a
                 /\ \A i \in able :
                      \/ \E n \in DOMAIN given : given[n].a = pending[i].a
                      \/ Len(given) = calls[c].req.count /\ \A n \in DOMAIN given : given[n].a < pending[i].a
  <2>1. PICK done : /\ Planned(calls[c].pending, calls[c].avoid, calls[c].load, calls[c].req.count,
                               Len(calls[c].pending), done)
                    /\ calls[c].given = done.given
    BY <1>1 DEF IInv, Drawn, PlannedFrom
  <2>2. calls[c].pending \in Seq(Item)
    BY <1>1, Shapes DEF IInv, TypeOK
  <2>3. DOMAIN calls[c].pending = 1..Len(calls[c].pending)
    BY <2>2
  <2> QED BY <2>1, <2>3 DEF Planned, Oldest, Sorted
<1>2. IInv => OldestHandedOut
  BY <1>1 DEF OldestHandedOut
<1> QED BY Always, <1>2, PTL

\* The loads even out among those preferred, and who worked on the pairs gets them only when nobody
\* else can, for any loads and lists.
THEOREM LoadsEvenOutAlways == Spec => []LoadsEvenOut
<1>1. ASSUME IInv, NEW c \in Calls, calls[c].at = "PLANNED",
             NEW item \in Range(calls[c].pending), NEW n \in DOMAIN calls[c].given,
             calls[c].given[n].a = item.a, NEW v \in Eligible(item)
      PROVE  LET given  == calls[c].given
                 end(u) == calls[c].load[u] + Share(given, u)
                 avoids(u, x) == u \in calls[c].avoid[given[x].a]
                 last(x) == \A m \in DOMAIN given : m > x => given[m].user # given[x].user
             IN  /\ avoids(given[n].user, n) => avoids(v, n)
                 /\ last(n) /\ (avoids(v, n) => avoids(given[n].user, n))
                      => end(given[n].user) <= end(v) + 1
  <2> DEFINE items == calls[c].pending
             avoid == calls[c].avoid
             given == calls[c].given
             u     == given[n].user
             a     == item.a
  <2>1. PICK done : Planned(items, avoid, calls[c].load, calls[c].req.count, Len(items), done) /\ given = done.given
    BY <1>1 DEF IInv, Drawn, PlannedFrom
  <2>2. /\ items \in Seq(Item) /\ DOMAIN items = 1..Len(items) /\ avoid \in [Analyses -> SUBSET Users]
        /\ calls[c].load \in [Users -> 0..Cardinality(Analyses)]
    BY <1>1, Shapes DEF IInv, TypeOK
  <2>3. PICK i \in 1..Len(items) : item = items[i]
    BY <2>2 DEF Range
  <2>4. item \in Item /\ Eligible(item) # {} /\ a \in Analyses
    <3>1. items[i] \in Item
      BY <2>2
    <3>2. item \in Item
      BY <2>3, <3>1
    <3>3. Eligible(item) # {}
      OBVIOUS
    <3> QED BY <3>2, <3>3 DEF Item
  <2>5. u \in Preferred(item, avoid)
    BY <1>1, <2>1, <2>3 DEF Planned, Even
  <2>6. Preferred(item, avoid) \in SUBSET Users /\ Preferred(item, avoid) \subseteq Eligible(item)
    BY <2>2, <2>4, PreferredAreEligible
  <2>7. u \in avoid[a] => v \in avoid[a]
    BY <1>1, <2>5 DEF Preferred
  <2>8. ASSUME \A m \in DOMAIN given : m > n => given[m].user # u,
               v \in avoid[a] => u \in avoid[a]
        PROVE  calls[c].load[u] + Share(given, u) <= calls[c].load[v] + Share(given, v) + 1
    <3>1. v \in Preferred(item, avoid)
      BY <1>1, <2>5, <2>8 DEF Preferred
    <3>2. done.load[u] <= done.load[v] + 1
      BY <1>1, <2>1, <2>3, <2>8, <3>1 DEF Planned, Even
    <3>3. u \in Users /\ v \in Users
      BY <2>5, <2>6, <3>1
    <3>4. done.load[u] = calls[c].load[u] + Share(given, u) /\ done.load[v] = calls[c].load[v] + Share(given, v)
      BY <2>1, <3>3 DEF Planned, Counted
    <3> QED BY <3>2, <3>4
  <2> HIDE DEF u
  <2> QED BY <1>1, <2>7, <2>8 DEF u
<1>2. IInv => LoadsEvenOut
  BY <1>1 DEF LoadsEvenOut
<1> QED BY Always, <1>2, PTL

\* Calls under way are as many as the pool has connections, at most.
Connected == IsFiniteSet(UnderWay) /\ Free >= 0

\* Only a call that begins takes a connection, and there is one left when it does.
LEMMA ConnectedStep ==
  ASSUME IInv, Connected, [Next]_vars
  PROVE  Connected'
<1>1. calls \in [Calls -> Call] /\ PoolSize \in Nat
  BY ConstantsOK DEF IInv, TypeOK
<1>2. Cardinality(UnderWay) \in Nat
  BY FS_CardinalityType DEF Connected
<1>3. ASSUME UnderWay' \subseteq UnderWay
      PROVE  Connected'
  <2> DEFINE now == UnderWay'
  <2>1. now \in SUBSET UnderWay /\ IsFiniteSet(UnderWay)
    BY <1>3 DEF Connected
  <2> HIDE DEF now
  <2>2. IsFiniteSet(now) /\ Cardinality(now) <= Cardinality(UnderWay)
    BY <2>1, FS_Subset
  <2>3. Cardinality(now) \in Nat
    BY <2>2, FS_CardinalityType
  <2> QED BY <1>1, <1>2, <2>2, <2>3 DEF Connected, Free, now
<1>4. ASSUME NEW c \in Calls, NEW req \in Distributes \cup Assigns, Begin(c, req)
      PROVE  Connected'
  <2>1. c \notin UnderWay /\ Free > 0
    BY <1>4 DEF Begin, UnderWay
  <2>2. UnderWay' = UnderWay \cup {c}
    BY <1>1, <1>4 DEF Begin, UnderWay
  <2>3. IsFiniteSet(UnderWay \cup {c}) /\ Cardinality(UnderWay \cup {c}) = Cardinality(UnderWay) + 1
    BY <2>1, FS_AddElement DEF Connected
  <2> QED BY <1>1, <1>2, <2>1, <2>2, <2>3 DEF Connected, Free
<1>5. ASSUME NEW c \in Calls, NEW new, calls[c].at # "NONE", calls' = [calls EXCEPT ![c] = new]
      PROVE  UnderWay' \subseteq UnderWay
  BY <1>1, <1>5 DEF UnderWay
<1>6. ASSUME UNCHANGED calls
      PROVE  UnderWay' \subseteq UnderWay
  BY <1>6 DEF UnderWay
<1>7. ASSUME NEW c \in Calls, Proceed(c) \/ Rollback(c)
      PROVE  UnderWay' \subseteq UnderWay
  <2>1. calls[c].at # "NONE"
    BY <1>7 DEF Proceed, Rollback, LockCaseDistribution, DistributeReadsPending, DistributeReadsExaminers,
                DistributeWrites, AssignChecks, AssignLooksUp, AssignWrites
  <2>2. \E new : calls' = [calls EXCEPT ![c] = new]
    <3>1. CASE Ends(c)
      BY <3>1 DEF Ends
    <3>2. CASE LockCaseDistribution(c)
      BY <3>2 DEF LockCaseDistribution
    <3>3. CASE DistributeReadsPending(c)
      BY <3>3 DEF DistributeReadsPending
    <3>4. CASE DistributeReadsExaminers(c)
      BY <3>4 DEF DistributeReadsExaminers
    <3>5. CASE AssignChecks(c) /\ ~Ends(c)
      BY <3>5 DEF AssignChecks
    <3>6. CASE AssignLooksUp(c) /\ ~Ends(c)
      BY <3>6 DEF AssignLooksUp
    <3>7. Rollback(c) \/ DistributeWrites(c) \/ AssignWrites(c) => Ends(c)
      BY DEF Rollback, DistributeWrites, AssignWrites
    <3> QED BY <1>7, <3>1, <3>2, <3>3, <3>4, <3>5, <3>6, <3>7 DEF Proceed
  <2> QED BY <1>5, <2>1, <2>2
<1>8. CASE UNCHANGED vars
  BY <1>3, <1>6, <1>8 DEF vars
<1>9. ASSUME NEW a \in Analyses, NEW next, SaveDraft(a) \/ IssueReport(a) \/ Submit(a, next)
      PROVE  UNCHANGED calls
  BY <1>9 DEF SaveDraft, IssueReport, Submit
<1> QED BY <1>3, <1>4, <1>6, <1>7, <1>8, <1>9 DEF Next

\* The pool is never overdrawn.
LEMMA ConnectedAlways == Spec => []Connected
<1>1. Init => Connected
  <2> SUFFICES ASSUME Init
               PROVE  Connected
    OBVIOUS
  <2>1. UnderWay = {}
    BY DEF Init, Idle, UnderWay
  <2> QED BY <2>1, ConstantsOK, FS_EmptySet DEF Connected, Free
<1>2. IInv /\ Connected /\ [Next]_vars => Connected'
  BY ConnectedStep
<1> QED BY Always, <1>1, <1>2, PTL DEF Spec

\* Calls under way all wait in one case only: the pool's connections are all with them, the one that
\* holds the lock wants another to look its examiner up on, and the rest want the lock.
THEOREM OnlyAStarvedPoolStallsAlways == Spec => []OnlyAStarvedPoolStalls
<1>1. ASSUME IInv, Connected, UnderWay # {}, \A c \in UnderWay : Waits(c)
      PROVE  Starved /\ \A c \in UnderWay \ {lock} : calls[c].at = "BEGUN"
  <2>1. \A c \in UnderWay : c \in Calls /\ (calls[c].at \in Locked <=> lock = c)
    BY <1>1, CallAt DEF UnderWay
  <2>2. \A c \in UnderWay : \/ calls[c].at = "BEGUN" /\ lock # NoCall
                            \/ calls[c].at = "LOOKUP" /\ ~(Free > 0) /\ lock = c
    BY <1>1, <2>1 DEF Waits, Locked
  <2>3. lock \in Calls
    BY <1>1, <2>1, <2>2, CallAt
  <2>4. calls[lock].at \in Locked
    BY <1>1, <2>3, CallAt
  <2>5. lock \in UnderWay
    BY <2>3, <2>4 DEF UnderWay, Locked
  <2>6. calls[lock].at = "LOOKUP" /\ ~(Free > 0)
    BY <2>2, <2>4, <2>5 DEF Locked
  <2>7. Free = 0
    <3>1. Free \in Int
      BY <1>1, ConstantsOK, FS_CardinalityType DEF Free, Connected
    <3> QED BY <1>1, <2>6, <3>1 DEF Connected
  <2>8. lock # NoCall
    BY <2>3, ConstantsOK
  <2> QED BY <2>2, <2>6, <2>7, <2>8 DEF Starved
<1>2. IInv /\ Connected => OnlyAStarvedPoolStalls
  BY <1>1 DEF OnlyAStarvedPoolStalls
<1> QED BY Always, ConnectedAlways, <1>2, PTL

\* No distribution takes a step from who got it while it read ("two admins distributing at once cannot
\* hand the same pending work out twice", LockCaseDistribution in src/db/queries/analyses.sql).
THEOREM HandedOutOnceAlways == Spec => HandedOutOnce
<1>1. ASSUME IInv, [Next]_vars, NEW c \in Calls, calls[c].at = "PLANNED", calls'[c].at = "NONE",
             NEW a \in Analyses, NEW s \in Steps, holder[a][s] # NoUser
      PROVE  holder'[a][s] = holder[a][s]
  <2>1. CASE DistributeWrites(c)
    <3> DEFINE given == calls[c].given
               items == calls[c].pending
    <3>1. PICK done : /\ Planned(items, calls[c].avoid, calls[c].load, calls[c].req.count, Len(items), done)
                      /\ given = done.given
      BY <1>1 DEF IInv, Drawn, PlannedFrom
    <3>2. items \in Seq(Item) /\ given \in Seq(Given)
      BY <1>1, Shapes DEF IInv, TypeOK
    <3>3. ASSUME NEW g \in GivenTo(given, a, s)
          PROVE  FALSE
      <4>1. PICK n \in DOMAIN given : given[n].a = a /\ given[n].step = s
        BY DEF GivenTo, Range
      <4>2. PICK i \in 1..Len(items) : given[n].a = items[i].a /\ given[n].step = items[i].step
        BY <3>1, <4>1 DEF Planned, Oldest
      <4>3. i \in DOMAIN items
        BY <3>2
      <4>4. Unassigned(items[i].a) /\ items[i].step = ActiveStep(stage[items[i].a])
        BY <1>1, <4>3 DEF IInv, Listed, StillPending
      <4> QED BY <1>1, <4>1, <4>2, <4>4 DEF Unassigned
    <3> HIDE DEF given
    <3>4. GivenTo(given, a, s) = {}
      BY <3>3
    <3> QED BY <2>1, <3>4 DEF DistributeWrites, given
  <2>2. CASE ~DistributeWrites(c)
    <3>1. ASSUME NEW d \in Calls \ {c}, DistributeWrites(d) \/ AssignWrites(d)
          PROVE  FALSE
      BY <1>1, <3>1 DEF IInv, Held, Locked, DistributeWrites, AssignWrites
    <3>2. ~AssignWrites(c)
      BY <1>1 DEF AssignWrites
    <3>3. holder' = holder
      BY <1>1, <2>2, <3>1, <3>2 DEF Next, SaveDraft, IssueReport, Submit, Begin, Proceed, LockCaseDistribution,
         DistributeReadsPending, DistributeReadsExaminers, AssignChecks, AssignLooksUp, Rollback, vars, tables
    <3> QED BY <3>3
  <2> QED BY <2>1, <2>2
<1>2. IInv /\ [Next]_vars =>
        (\A c \in Calls : calls[c].at = "PLANNED" /\ calls'[c].at = "NONE" =>
           \A a \in Analyses, s \in Steps : holder[a][s] # NoUser => holder'[a][s] = holder[a][s])
  BY <1>1
<1>3. IInv /\ [Next]_vars =>
        [\A c \in Calls : calls[c].at = "PLANNED" /\ calls'[c].at = "NONE" =>
           \A a \in Analyses, s \in Steps : holder[a][s] # NoUser => holder'[a][s] = holder[a][s]]_vars
  BY <1>2
<1> QED BY Always, <1>3, PTL DEF Spec, HandedOutOnce

-----------------------------------------------------------------------------
(* Distribution implements Assignments.                                    *)

\* Nobody holds a step before it is active.
NotAhead == \A a \in Analyses, s \in Steps : s \notin Handed!ReachedSteps(stage[a]) => holder[a][s] = NoUser

\* Whoever holds a step of what a distribution listed is still among those it excludes.
Excludes(call) ==
  call.at \in {"PENDING", "PLANNED"} =>
    \A i \in DOMAIN call.pending, s \in Steps : holder[call.pending[i].a][s] \in call.pending[i].exclude \cup {NoUser}

\* What Assign checked still holds: the step has been active, its examiner has no other and is fit for it.
Checked(call) ==
  call.at \in {"LOOKUP", "ASSIGN"} =>
    /\ call.step \in Handed!ReachedSteps(stage[call.req.a])
    /\ call.req.user # NoUser => \A s \in Steps : holder[call.req.a][s] # call.req.user
    /\ call.at = "ASSIGN" => call.req.user \in ExaminersOf[call.req.a] \cup {NoUser}

HandInv == NotAhead /\ \A c \in Calls : Excludes(calls[c]) /\ Checked(calls[c])

\* Stages only add to the steps an analysis has come to.
LEMMA ReachedGrows ==
  ASSUME TypeOK, NEW a \in Analyses, NEW next \in {"VERIFICATION", "INCONSISTENCE", "REPORT"},
         SaveDraft(a) \/ IssueReport(a) \/ Submit(a, next)
  PROVE  /\ UNCHANGED <<holder, calls>>
         /\ \A b \in Analyses : Handed!ReachedSteps(stage[b]) \subseteq Handed!ReachedSteps(stage'[b])
<1>1. UNCHANGED <<holder, calls>>
  BY DEF SaveDraft, IssueReport, Submit
<1>2. \/ UNCHANGED stage
      \/ stage[a] = "REPORT" /\ stage' = [stage EXCEPT ![a] = "CLOSED"]
      \/ stage[a] = "EXAMINATION" /\ stage' = [stage EXCEPT ![a] = next]
      \/ stage[a] \in {"VERIFICATION", "INCONSISTENCE"} /\ next # "VERIFICATION" /\ stage' = [stage EXCEPT ![a] = next]
  BY DEF SaveDraft, IssueReport, Submit
<1>3. ASSUME NEW b \in Analyses
      PROVE  Handed!ReachedSteps(stage[b]) \subseteq Handed!ReachedSteps(stage'[b])
  <2>1. \/ stage'[b] = stage[b]
        \/ stage[b] = "REPORT" /\ stage'[b] = "CLOSED"
        \/ stage[b] = "EXAMINATION" /\ stage'[b] \in {"VERIFICATION", "INCONSISTENCE", "REPORT"}
        \/ stage[b] \in {"VERIFICATION", "INCONSISTENCE"} /\ stage'[b] \in {"INCONSISTENCE", "REPORT"}
    BY <1>2 DEF TypeOK
  <2> QED BY <2>1 DEF Handed!ReachedSteps, Handed!Steps
<1> QED BY <1>1, <1>3

\* A step of call c is the others' nothing.
LEMMA OneCallHand ==
  ASSUME IInv, HandInv, NEW c \in Calls, NEW new, calls' = [calls EXCEPT ![c] = new], UNCHANGED stage,
         holder' = holder \/ (lock = c /\ new.at = "NONE" /\ NotAhead'),
         new.at \notin {"NONE", "BEGUN", "LOCKED"} => Excludes(new) /\ Checked(new)
  PROVE  HandInv'
<1>1. calls \in [Calls -> Call] /\ calls'[c] = new /\ \A d \in Calls \ {c} : calls'[d] = calls[d]
  BY DEF IInv, TypeOK
<1>2. NotAhead'
  BY DEF HandInv, NotAhead
<1>3. CASE holder' = holder
  <2>1. Excludes(new)' /\ Checked(new)'
    BY <1>3 DEF Excludes, Checked
  <2>2. ASSUME NEW d \in Calls \ {c}
        PROVE  Excludes(calls[d])' /\ Checked(calls[d])'
    BY <1>1, <1>3 DEF HandInv, Excludes, Checked
  <2>3. Excludes(calls[c])' /\ Checked(calls[c])'
    BY <1>1, <2>1 DEF Excludes, Checked
  <2> QED BY <1>2, <2>2, <2>3 DEF HandInv
<1>4. CASE lock = c /\ new.at = "NONE"
  <2>1. ASSUME NEW d \in Calls
        PROVE  calls'[d].at \notin {"PENDING", "PLANNED", "LOOKUP", "ASSIGN"}
    BY <1>1, <1>4 DEF IInv, Held, Locked
  <2> QED BY <1>2, <2>1 DEF HandInv, Excludes, Checked
<1> QED BY <1>3, <1>4

\* What is planned for an item of the list: the analysis's active step, which is nobody's, for a candidate.
LEMMA PlannedForCandidates ==
  ASSUME IInv, HandInv, NEW c \in Calls, calls[c].at = "PLANNED"
  PROVE  /\ calls[c].given \in Seq(Given) /\ Len(calls[c].given) <= MaxCount /\ Sorted(calls[c].given)
         /\ \A n \in DOMAIN calls[c].given :
              LET g == calls[c].given[n]
              IN  /\ g.a \in Analyses /\ g.user \in Users
                  /\ Unassigned(g.a) /\ g.step = ActiveStep(stage[g.a])
                  /\ g.user \in Handed!Candidates(g.a)
<1> DEFINE given == calls[c].given
           items == calls[c].pending
<1>1. /\ calls[c].req \in Distributes /\ items \in Seq(Item) /\ given \in Seq(Given)
      /\ calls[c].avoid \in [Analyses -> SUBSET Users]
  BY CallAt, Shapes
<1>2. PICK done : Planned(items, calls[c].avoid, calls[c].load, calls[c].req.count, Len(items), done) /\ given = done.given
  BY DEF IInv, Drawn, PlannedFrom
<1>3. Len(given) <= MaxCount /\ Sorted(given)
  <2>1. calls[c].req.count \in 1..MaxCount /\ Len(given) \in Nat /\ MaxCount \in Nat
    BY <1>1, ConstantsOK DEF Distributes
  <2>2. Len(given) <= calls[c].req.count /\ Sorted(given)
    BY <1>2 DEF Planned, Oldest
  <2> QED BY <2>1, <2>2
<1>4. ASSUME NEW n \in DOMAIN given
      PROVE  /\ given[n].a \in Analyses /\ given[n].user \in Users
             /\ Unassigned(given[n].a) /\ given[n].step = ActiveStep(stage[given[n].a])
             /\ given[n].user \in Handed!Candidates(given[n].a)
  <2>1. PICK i \in 1..Len(items) : /\ Eligible(items[i]) # {}
                                   /\ given[n].a = items[i].a /\ given[n].step = items[i].step
    BY <1>2 DEF Planned, Oldest
  <2>2. i \in DOMAIN items /\ items[i] \in Item
    BY <1>1
  <2>3. Unassigned(items[i].a) /\ items[i].step = ActiveStep(stage[items[i].a])
    BY <2>2 DEF IInv, Listed, StillPending
  <2>4. given[n].user \in Preferred(items[i], calls[c].avoid)
    BY <1>2, <2>1 DEF Planned, Even
  <2>5. given[n].user \in Eligible(items[i])
    BY <1>1, <2>1, <2>2, <2>4, PreferredAreEligible
  <2>6. items[i].a \in Analyses
    BY <2>2 DEF Item
  <2>7. given[n].user \in Users
    BY <2>5, <2>6, ConstantsOK DEF Eligible, Types
  <2>8. \A s \in Steps : holder[items[i].a][s] \in items[i].exclude \cup {NoUser}
    BY <2>2 DEF HandInv, Excludes
  <2>9. given[n].user \in ExaminersOf[items[i].a] /\ given[n].user \notin items[i].exclude
    BY <2>5, <2>6 DEF Eligible, ExaminersOf
  <2>10. given[n].user \in Handed!Candidates(items[i].a)
    BY <2>7, <2>8, <2>9, ConstantsOK DEF Handed!Candidates, Handed!Steps, Steps
  <2> QED BY <2>1, <2>3, <2>6, <2>7, <2>10
<1> HIDE DEF given, items
<1> QED BY <1>1, <1>3, <1>4 DEF given

\* What a distribution writes to step s of a is what it planned for it, if anything.
LEMMA WrittenIsPlanned ==
  ASSUME IInv, HandInv, NEW c \in Calls, DistributeWrites(c), NEW a \in Analyses
  PROVE  /\ \A n \in DOMAIN calls[c].given : calls[c].given[n].a = a =>
              holder'[a] = [holder[a] EXCEPT ![ActiveStep(stage[a])] = calls[c].given[n].user]
         /\ (\A n \in DOMAIN calls[c].given : calls[c].given[n].a # a) => holder'[a] = holder[a]
<1> DEFINE given == calls[c].given
           act   == ActiveStep(stage[a])
<1>1. /\ given \in Seq(Given) /\ Sorted(given)
      /\ \A n \in DOMAIN given : given[n].step = ActiveStep(stage[given[n].a])
  BY PlannedForCandidates DEF DistributeWrites
<1>2. holder[a] \in [Steps -> Users \cup {NoUser}] /\ act \in Steps
  BY DEF IInv, TypeOK, ActiveStep, Steps
<1>3. holder'[a] = [s \in Steps |-> IF GivenTo(given, a, s) = {} THEN holder[a][s]
                                    ELSE (CHOOSE g \in GivenTo(given, a, s) : TRUE).user]
  BY DEF DistributeWrites
<1> HIDE DEF act
<1>4. ASSUME NEW n \in DOMAIN given, given[n].a = a
      PROVE  holder'[a] = [holder[a] EXCEPT ![act] = given[n].user]
  <2>1. \A m \in DOMAIN given : given[m].a = a => m = n
    <3>1. a \in Nat /\ DOMAIN given \subseteq Int
      BY <1>1, ConstantsOK
    <3> HIDE DEF given
    <3> QED BY <1>1, <1>4, <3>1 DEF Sorted
  <2>2. given[n].step = act
    BY <1>1, <1>4 DEF act
  <2>3. GivenTo(given, a, act) = {given[n]}
    BY <1>4, <2>1, <2>2 DEF GivenTo, Range
  <2>4. \A s \in Steps : s # act => GivenTo(given, a, s) = {}
    BY <2>1, <2>2 DEF GivenTo, Range
  <2> HIDE DEF given
  <2>5. (CHOOSE g \in GivenTo(given, a, act) : TRUE) = given[n]
    BY <2>3
  <2> QED BY <1>2, <1>3, <2>3, <2>4, <2>5
<1>5. ASSUME \A n \in DOMAIN given : given[n].a # a
      PROVE  holder'[a] = holder[a]
  <2>1. \A s : GivenTo(given, a, s) = {}
    BY <1>5 DEF GivenTo, Range
  <2> HIDE DEF given
  <2> QED BY <1>2, <1>3, <2>1
<1> QED BY <1>4, <1>5 DEF act

\* The list a distribution reads names who holds the other steps: a later one nobody has yet.
LEMMA ListExcludes ==
  ASSUME IInv, HandInv, NEW types, NEW rows \in OldestFirst(PendingWork(types)), NEW i \in DOMAIN rows, NEW s \in Steps
  PROVE  holder[rows[i].a][s] \in rows[i].exclude \cup {NoUser}
<1>1. rows[i] \in PendingWork(types)
  BY DEF OldestFirst
<1>2. PICK a \in Analyses : /\ Unassigned(a)
                            /\ rows[i].a = a
                            /\ rows[i].exclude = {holder[a]["VERIFICATOR"], holder[a]["REVIEWER"]} \ {NoUser}
  BY <1>1 DEF PendingWork
<1>3. CASE s # "INCONSISTENCE"
  BY <1>2, <1>3 DEF Steps
<1>4. CASE s = "INCONSISTENCE"
  <2>1. stage[a] \in {"EXAMINATION", "VERIFICATION", "INCONSISTENCE"}
    BY <1>2 DEF IInv, TypeOK, Unassigned
  <2>2. CASE stage[a] = "INCONSISTENCE"
    BY <1>2, <1>4, <2>2 DEF Unassigned, ActiveStep
  <2>3. CASE stage[a] # "INCONSISTENCE"
    <3>1. s \notin Handed!ReachedSteps(stage[a])
      BY <1>4, <2>1, <2>3 DEF Handed!ReachedSteps
    <3> QED BY <1>2, <3>1 DEF HandInv, NotAhead
  <2> QED BY <2>2, <2>3
<1> QED BY <1>3, <1>4

\* The active step has been reached.
LEMMA ActiveIsReached ==
  ASSUME TypeOK, NEW a \in Analyses
  PROVE  ActiveStep(stage[a]) \in Handed!ReachedSteps(stage[a]) /\ ActiveStep(stage[a]) \in Steps
BY DEF TypeOK, ActiveStep, Handed!ReachedSteps, Handed!Steps, Steps

\* Every step keeps it.
LEMMA HandStep ==
  ASSUME IInv, HandInv, [Next]_vars
  PROVE  HandInv'
<1>1. TypeOK
  BY DEF IInv
<1>2. ASSUME NEW a \in Analyses, NEW next \in {"VERIFICATION", "INCONSISTENCE", "REPORT"},
             SaveDraft(a) \/ IssueReport(a) \/ Submit(a, next)
      PROVE  HandInv'
  <2>1. /\ UNCHANGED <<holder, calls>>
        /\ \A b \in Analyses : Handed!ReachedSteps(stage[b]) \subseteq Handed!ReachedSteps(stage'[b])
    BY <1>1, <1>2, ReachedGrows
  <2>2. NotAhead'
    BY <2>1 DEF HandInv, NotAhead
  <2>3. ASSUME NEW c \in Calls
        PROVE  Excludes(calls[c])' /\ Checked(calls[c])'
    <3>1. Excludes(calls[c])'
      BY <2>1 DEF HandInv, Excludes
    <3>2. calls[c].at \in {"LOOKUP", "ASSIGN"} => calls[c].req.a \in Analyses
      BY CallAt, Shapes DEF Assigns
    <3>3. Checked(calls[c])'
      BY <2>1, <3>2 DEF HandInv, Checked
    <3> QED BY <3>1, <3>3
  <2> QED BY <2>2, <2>3 DEF HandInv
<1>3. ASSUME NEW c \in Calls, NEW req, LockCaseDistribution(c) \/ Begin(c, req)
      PROVE  HandInv'
  <2>1. PICK new : /\ calls' = [calls EXCEPT ![c] = new] /\ new.at \in {"LOCKED", "BEGUN"}
                   /\ UNCHANGED <<stage, holder>>
    <3>1. CASE Begin(c, req)
      BY <3>1 DEF Begin, tables
    <3>2. CASE LockCaseDistribution(c)
      <4>1. calls[c] \in [at : {"BEGUN", "LOCKED"}, req : Distributes \cup Assigns]
        BY <3>2, CallAt, Shapes DEF LockCaseDistribution
      <4>2. [calls[c] EXCEPT !.at = "LOCKED"].at = "LOCKED"
        BY <4>1
      <4> QED BY <3>2, <4>2 DEF LockCaseDistribution, tables
    <3> QED BY <1>3, <3>1, <3>2
  <2> QED BY <2>1, OneCallHand
<1>4. ASSUME NEW c \in Calls, Ends(c), UNCHANGED <<stage, holder>>
      PROVE  HandInv'
  <2>1. calls' = [calls EXCEPT ![c] = Idle] /\ Idle.at = "NONE"
    BY <1>4 DEF Ends, Idle
  <2> HIDE DEF Idle
  <2> QED BY <1>4, <2>1, OneCallHand
<1>5. ASSUME NEW c \in Calls, DistributeReadsPending(c)
      PROVE  HandInv'
  <2>1. PICK rows \in OldestFirst(PendingWork(calls[c].req.types)) :
          calls' = [calls EXCEPT ![c] = [at |-> "PENDING", req |-> calls[c].req, pending |-> rows]]
    BY <1>5 DEF DistributeReadsPending
  <2>2. PICK new : /\ new = [at |-> "PENDING", req |-> calls[c].req, pending |-> rows]
                   /\ calls' = [calls EXCEPT ![c] = new]
    BY <2>1
  <2>3. \A i \in DOMAIN rows, s \in Steps : holder[rows[i].a][s] \in rows[i].exclude \cup {NoUser}
    BY ListExcludes
  <2>4. Excludes(new) /\ Checked(new)
    BY <2>2, <2>3 DEF Excludes, Checked
  <2> QED BY <1>5, <2>2, <2>4, OneCallHand DEF DistributeReadsPending, tables
<1>6. ASSUME NEW c \in Calls, DistributeReadsExaminers(c)
      PROVE  HandInv'
  <2>1. PICK new : /\ new.at = "PLANNED" /\ new.pending = calls[c].pending
                   /\ calls' = [calls EXCEPT ![c] = new]
    BY <1>6 DEF DistributeReadsExaminers
  <2>2. Excludes(new) /\ Checked(new)
    BY <1>6, <2>1 DEF HandInv, Excludes, Checked, DistributeReadsExaminers
  <2> QED BY <1>6, <2>1, <2>2, OneCallHand DEF DistributeReadsExaminers, tables
<1>7. ASSUME NEW c \in Calls, DistributeWrites(c)
      PROVE  HandInv'
  <2>1. calls[c].at = "PLANNED" /\ Ends(c) /\ UNCHANGED stage
    BY <1>7 DEF DistributeWrites
  <2>2. ASSUME NEW a \in Analyses, NEW s \in Steps, s \notin Handed!ReachedSteps(stage[a])
        PROVE  holder'[a][s] = NoUser
    <3>1. holder[a][s] = NoUser
      BY <2>2 DEF HandInv, NotAhead
    <3>2. s # ActiveStep(stage[a])
      BY <1>1, <2>2, ActiveIsReached
    <3>3. holder[a] \in [Steps -> Users \cup {NoUser}]
      BY <1>1 DEF TypeOK
    <3>4. holder'[a][s] = holder[a][s]
      BY <1>7, <3>2, <3>3, WrittenIsPlanned
    <3> QED BY <3>1, <3>4
  <2>3. NotAhead'
    BY <2>1, <2>2 DEF NotAhead
  <2>4. lock = c
    BY <2>1, CallAt DEF Locked
  <2>5. calls' = [calls EXCEPT ![c] = Idle] /\ Idle.at = "NONE"
    BY <2>1 DEF Ends, Idle
  <2> HIDE DEF Idle
  <2> QED BY <2>1, <2>3, <2>4, <2>5, OneCallHand
<1>8. ASSUME NEW c \in Calls, AssignChecks(c), ~Ends(c)
      PROVE  HandInv'
  <2> DEFINE req == calls[c].req
  <2>1. req \in Assigns
    BY <1>8, CallAt, Shapes DEF AssignChecks, Distributes
  <2>2. PICK new : /\ new = [at |-> IF req.user = NoUser THEN "ASSIGN" ELSE "LOOKUP", req |-> req,
                             step |-> ActiveStep(stage[req.a])]
                   /\ calls' = [calls EXCEPT ![c] = new]
    BY <1>8 DEF AssignChecks
  <2>3. req.user # NoUser => \A s \in Steps : holder[req.a][s] # req.user
    BY <1>8 DEF AssignChecks, Refused
  <2>4. ActiveStep(stage[req.a]) \in Handed!ReachedSteps(stage[req.a])
    BY <1>1, <2>1, ActiveIsReached DEF Assigns
  <2>5. Excludes(new) /\ Checked(new)
    BY <2>2, <2>3, <2>4 DEF Excludes, Checked
  <2> QED BY <1>8, <2>2, <2>5, OneCallHand DEF AssignChecks, tables
<1>9. ASSUME NEW c \in Calls, AssignLooksUp(c), ~Ends(c)
      PROVE  HandInv'
  <2>1. calls[c] \in [at : {"LOOKUP", "ASSIGN"}, req : Assigns, step : Steps]
    BY <1>9, CallAt, Shapes DEF AssignLooksUp
  <2>2. PICK new : /\ new = [calls[c] EXCEPT !.at = "ASSIGN"] /\ calls' = [calls EXCEPT ![c] = new]
    BY <1>9 DEF AssignLooksUp
  <2>3. new.at = "ASSIGN" /\ new.req = calls[c].req /\ new.step = calls[c].step
    BY <2>1, <2>2
  <2>4. calls[c].req.user \in ExaminersOf[calls[c].req.a]
    BY <1>9, <2>1 DEF AssignLooksUp, ExaminersOf, Assigns
  <2>5. Checked(calls[c]) /\ calls[c].at = "LOOKUP"
    BY <1>9 DEF HandInv, AssignLooksUp
  <2>6. Excludes(new) /\ Checked(new)
    BY <2>3, <2>4, <2>5 DEF Excludes, Checked
  <2> QED BY <1>9, <2>2, <2>6, OneCallHand DEF AssignLooksUp, tables
<1>10. ASSUME NEW c \in Calls, AssignWrites(c)
      PROVE  HandInv'
  <2> DEFINE a == calls[c].req.a
             u == calls[c].req.user
             t == calls[c].step
  <2>1. calls[c].at = "ASSIGN" /\ Ends(c) /\ UNCHANGED stage /\ holder' = [holder EXCEPT ![a][t] = u]
    BY <1>10 DEF AssignWrites
  <2>2. t \in Handed!ReachedSteps(stage[a])
    BY <2>1 DEF HandInv, Checked
  <2>3. holder \in [Analyses -> [Steps -> Users \cup {NoUser}]]
    BY <1>1 DEF TypeOK
  <2>4. ASSUME NEW b \in Analyses, NEW s \in Steps, s \notin Handed!ReachedSteps(stage[b])
        PROVE  holder'[b][s] = NoUser
    <3>1. holder[b][s] = NoUser
      BY <2>4 DEF HandInv, NotAhead
    <3>2. b # a \/ s # t
      BY <2>2, <2>4
    <3> HIDE DEF a, t, u
    <3> QED BY <2>1, <2>3, <3>1, <3>2
  <2>5. NotAhead'
    BY <2>1, <2>4 DEF NotAhead
  <2>6. lock = c
    BY <2>1, CallAt DEF Locked
  <2>7. calls' = [calls EXCEPT ![c] = Idle] /\ Idle.at = "NONE"
    BY <2>1 DEF Ends, Idle
  <2> HIDE DEF Idle
  <2> QED BY <2>1, <2>5, <2>6, <2>7, OneCallHand
<1>11. ASSUME NEW c \in Calls, Proceed(c) \/ Rollback(c)
       PROVE  HandInv'
  <2>1. AssignChecks(c) \/ AssignLooksUp(c) \/ Rollback(c) => UNCHANGED <<stage, holder>>
    BY DEF AssignChecks, AssignLooksUp, Rollback, tables
  <2>2. Rollback(c) => Ends(c)
    BY DEF Rollback
  <2> QED BY <1>3, <1>4, <1>5, <1>6, <1>7, <1>8, <1>9, <1>10, <1>11, <2>1, <2>2 DEF Proceed
<1>12. CASE UNCHANGED vars
  <2>1. UNCHANGED <<stage, holder, calls>>
    BY <1>12 DEF vars, tables
  <2> QED BY <2>1 DEF HandInv, NotAhead, Excludes, Checked
<1> QED BY <1>2, <1>3, <1>11, <1>12 DEF Next

\* A submit, or a report's issue, is somebody finishing the active step.
LEMMA SubmitFinishes ==
  ASSUME TypeOK, NEW a \in Analyses, NEW next \in {"VERIFICATION", "INCONSISTENCE", "REPORT"},
         SaveDraft(a) \/ IssueReport(a) \/ Submit(a, next)
  PROVE  [Handed!AssignmentsNext]_(Handed!assignmentVars)
<1>1. CASE SaveDraft(a)
  BY <1>1 DEF SaveDraft, Handed!assignmentVars
<1>2. CASE IssueReport(a)
  <2>1. ActiveStep("REPORT") = "VERIFICATOR" /\ Handed!ActiveStep("REPORT") = "VERIFICATOR"
    BY DEF ActiveStep, Handed!ActiveStep
  <2>2. Handed!Finish(a, "CLOSED")
    BY <1>2, <2>1 DEF IssueReport, Handed!Finish
  <2> QED BY <2>2 DEF Handed!AssignmentsNext
<1>3. CASE Submit(a, next)
  <2>1. ActiveStep(stage[a]) = Handed!ActiveStep(stage[a])
    BY DEF ActiveStep, Handed!ActiveStep
  <2>2. Handed!Finish(a, next)
    BY <1>3, <2>1 DEF Submit, Handed!Finish
  <2> QED BY <2>2 DEF Handed!AssignmentsNext
<1> QED BY <1>1, <1>2, <1>3

\* What Assign writes is a reassignment of a step that has been active.
LEMMA AssignReassigns ==
  ASSUME IInv, HandInv, NEW c \in Calls, AssignWrites(c)
  PROVE  Handed!AssignmentsNext
<1> DEFINE a == calls[c].req.a
           u == calls[c].req.user
           t == calls[c].step
<1>1. calls[c].at = "ASSIGN" /\ holder' = [holder EXCEPT ![a][t] = u] /\ UNCHANGED stage
  BY DEF AssignWrites
<1>2. a \in Analyses /\ u \in Users \cup {NoUser} /\ t \in Steps
  <2>1. calls[c] \in [at : {"LOOKUP", "ASSIGN"}, req : Assigns, step : Steps]
    BY <1>1, CallAt, Shapes
  <2> QED BY <2>1 DEF Assigns
<1>3. /\ t \in Handed!ReachedSteps(stage[a]) /\ u \in ExaminersOf[a] \cup {NoUser}
      /\ u # NoUser => \A s \in Steps : holder[a][s] # u
  BY <1>1 DEF HandInv, Checked
<1>4. u \in Handed!Candidates(a) \cup {NoUser} /\ t \in Handed!Steps
  BY <1>2, <1>3 DEF Handed!Candidates, Handed!Steps, Steps
<1>5. Handed!Reassign(a, t, u)
  BY <1>1, <1>3, <1>4 DEF Handed!Reassign
<1> HIDE DEF a, t, u
<1> QED BY <1>2, <1>4, <1>5 DEF Handed!AssignmentsNext

\* What a distribution writes it hands out at once, to the candidates of the moment.
LEMMA WritesHandOut ==
  ASSUME IInv, HandInv, NEW c \in Calls, DistributeWrites(c)
  PROVE  [Handed!AssignmentsNext]_(Handed!assignmentVars)
<1> DEFINE given == calls[c].given
           ToOf(a, u) == \E n \in DOMAIN given : given[n].a = a /\ given[n].user = u
           to == [a \in Analyses |-> IF \E n \in DOMAIN given : given[n].a = a
                                     THEN CHOOSE u \in Users : ToOf(a, u) ELSE NoUser]
           S == {a \in Analyses : to[a] # NoUser}
<1>1. /\ given \in Seq(Given) /\ Len(given) <= MaxCount /\ Sorted(given)
      /\ \A n \in DOMAIN given :
           /\ given[n].a \in Analyses /\ given[n].user \in Users
           /\ Unassigned(given[n].a) /\ given[n].step = ActiveStep(stage[given[n].a])
           /\ given[n].user \in Handed!Candidates(given[n].a)
  BY PlannedForCandidates DEF DistributeWrites
<1>2. UNCHANGED stage /\ holder' = [a \in Analyses |-> holder'[a]]
  BY DEF DistributeWrites
<1>3. \A a \in Analyses :
        /\ \A n \in DOMAIN given : given[n].a = a =>
             holder'[a] = [holder[a] EXCEPT ![ActiveStep(stage[a])] = given[n].user]
        /\ (\A n \in DOMAIN given : given[n].a # a) => holder'[a] = holder[a]
  BY WrittenIsPlanned
<1>4. holder \in [Analyses -> [Steps -> Users \cup {NoUser}]] /\ NoUser \notin Users
  BY ConstantsOK DEF IInv, TypeOK
<1> HIDE DEF given
<1>5. ASSUME NEW a \in Analyses
      PROVE  \/ to[a] = NoUser /\ \A n \in DOMAIN given : given[n].a # a
             \/ to[a] # NoUser /\ \E n \in DOMAIN given : given[n].a = a /\ given[n].user = to[a]
  <2>1. CASE \E n \in DOMAIN given : given[n].a = a
    <3>1. \E u \in Users : ToOf(a, u)
      BY <1>1, <2>1
    <3>2. to[a] = CHOOSE u \in Users : ToOf(a, u)
      BY <2>1
    <3>3. to[a] \in Users /\ ToOf(a, to[a])
      BY <3>1, <3>2
    <3> QED BY <1>4, <3>3
  <2>2. CASE \A n \in DOMAIN given : given[n].a # a
    BY <2>2
  <2> QED BY <2>1, <2>2
<1>6. to \in [Analyses -> Users \cup {NoUser}]
  <2>1. \A a \in Analyses : to[a] \in Users \cup {NoUser}
    BY <1>1, <1>5
  <2>2. to = [a \in Analyses |-> to[a]]
    OBVIOUS
  <2> HIDE DEF to
  <2> QED BY <2>1, <2>2
<1> HIDE DEF to
<1>7. CASE S = {}
  <2>1. \A a \in Analyses : holder'[a] = holder[a]
    BY <1>3, <1>5, <1>7
  <2>2. holder' = holder
    BY <1>2, <1>4, <2>1
  <2> QED BY <1>2, <2>2 DEF Handed!assignmentVars
<1>8. CASE S # {}
  <2>1. Cardinality(S) <= MaxCount
    <3> DEFINE L == Len(given)
               f == [n \in 1..L |-> given[n].a]
    <3>1. L \in Nat /\ DOMAIN given = 1..L
      BY <1>1
    <3>2. \A a \in S : \E n \in 1..L : f[n] = a
      BY <1>5, <3>1
    <3>3. \A n \in 1..L : f[n] \in S
      <4>1. ASSUME NEW n \in 1..L
            PROVE  given[n].a \in S
        BY <1>1, <1>5, <3>1
      <4> QED BY <4>1
    <3> HIDE DEF S
    <3>4. f \in Surjection(1..L, S)
      BY <3>2, <3>3 DEF Surjection
    <3>5. ExistsSurjection(1..L, S)
      BY <3>4 DEF ExistsSurjection
    <3>6. Cardinality(S) <= L
      BY <3>1, <3>5, FS_SurjCardinalityBound
    <3>7. L <= MaxCount /\ MaxCount \in Nat
      BY <1>1, ConstantsOK
    <3>8. IsFiniteSet(S)
      BY <3>1, <3>4, FS_Surjection, FS_Interval
    <3>9. Cardinality(S) \in Nat
      BY <3>8, FS_CardinalityType
    <3> HIDE DEF L
    <3> QED BY <3>1, <3>6, <3>7, <3>9
  <2>2. \A a : ActiveStep(stage[a]) = Handed!ActiveStep(stage[a])
    BY DEF ActiveStep, Handed!ActiveStep
  <2>3. ASSUME NEW a \in S
        PROVE  /\ stage[a] \notin {"REPORT", "CLOSED"}
               /\ holder[a][Handed!ActiveStep(stage[a])] = NoUser
               /\ to[a] \in Handed!Candidates(a)
    <3>1. PICK n \in DOMAIN given : given[n].a = a /\ given[n].user = to[a]
      BY <1>5
    <3>2. Unassigned(a) /\ to[a] \in Handed!Candidates(a)
      BY <1>1, <3>1
    <3> QED BY <2>2, <3>2 DEF Unassigned
  <2>4. ASSUME NEW a \in Analyses
        PROVE  holder'[a] = IF a \in S THEN [holder[a] EXCEPT ![Handed!ActiveStep(stage[a])] = to[a]] ELSE holder[a]
    <3>1. CASE a \in S
      <4>1. PICK n \in DOMAIN given : given[n].a = a /\ given[n].user = to[a]
        BY <1>5, <3>1
      <4> QED BY <1>3, <2>2, <3>1, <4>1
    <3>2. CASE a \notin S
      BY <1>3, <1>5, <3>2
    <3> QED BY <3>1, <3>2
  <2>5. holder' = [a \in Analyses |-> IF a \in S THEN [holder[a] EXCEPT ![Handed!ActiveStep(stage[a])] = to[a]]
                                      ELSE holder[a]]
    BY <1>2, <2>4
  <2>6. Handed!Cardinality(S) <= MaxCount
    BY <2>1 DEF Handed!Cardinality, Cardinality
  <2>7. \A a \in S : /\ stage[a] \notin {"REPORT", "CLOSED"}
                     /\ holder[a][Handed!ActiveStep(stage[a])] = NoUser
                     /\ to[a] \in Handed!Candidates(a)
    BY <2>3
  <2>8. Handed!HandOut(to)
    BY <1>2, <1>8, <2>5, <2>6, <2>7 DEF Handed!HandOut
  <2> QED BY <1>6, <2>8 DEF Handed!AssignmentsNext
<1> QED BY <1>7, <1>8

\* Every step of Distribution is one of Assignments, or changes nothing it tells.
LEMMA HandedStep == IInv /\ HandInv /\ [Next]_vars => [Handed!AssignmentsNext]_(Handed!assignmentVars)
<1> SUFFICES ASSUME IInv, HandInv, [Next]_vars
             PROVE  [Handed!AssignmentsNext]_(Handed!assignmentVars)
  OBVIOUS
<1>1. CASE UNCHANGED <<stage, holder>>
  BY <1>1 DEF Handed!assignmentVars
<1>2. ASSUME NEW a \in Analyses, NEW next \in {"VERIFICATION", "INCONSISTENCE", "REPORT"},
             SaveDraft(a) \/ IssueReport(a) \/ Submit(a, next)
      PROVE  [Handed!AssignmentsNext]_(Handed!assignmentVars)
  BY <1>2, SubmitFinishes DEF IInv
<1>3. ASSUME NEW c \in Calls, Proceed(c)
      PROVE  [Handed!AssignmentsNext]_(Handed!assignmentVars)
  <2>1. \/ DistributeWrites(c) \/ AssignWrites(c)
        \/ UNCHANGED <<stage, holder>>
    BY <1>3 DEF Proceed, LockCaseDistribution, DistributeReadsPending, DistributeReadsExaminers, AssignChecks,
                AssignLooksUp, tables
  <2> QED BY <1>1, <2>1, WritesHandOut, AssignReassigns
<1>4. ASSUME NEW c \in Calls, NEW req, Begin(c, req) \/ Rollback(c)
      PROVE  UNCHANGED <<stage, holder>>
  BY <1>4 DEF Begin, Rollback, tables
<1>5. CASE UNCHANGED vars
  BY <1>1, <1>5 DEF vars, tables
<1> QED BY <1>1, <1>2, <1>3, <1>4, <1>5 DEF Next

\* The calls, which read under a lock the submits do not take and write later, hand work out as
\* Assignments says: at once, what is nobody's, to who is fit for it and has no other step of the analysis.
THEOREM ImplementsAssignmentsAlways == Spec => ImplementsAssignments
<1>1. Init => HandInv
  <2> SUFFICES ASSUME Init
               PROVE  HandInv
    OBVIOUS
  <2>1. NotAhead
    BY DEF Init, NotAhead
  <2>2. \A c \in Calls : calls[c].at = "NONE"
    BY DEF Init, Idle
  <2> QED BY <2>1, <2>2 DEF HandInv, Excludes, Checked
<1>2. IInv /\ HandInv /\ [Next]_vars => HandInv'
  BY HandStep
<1>3. Init => Handed!AssignmentsInit
  BY DEF Init, Handed!AssignmentsInit, Handed!Steps, Steps
<1> QED BY Always, <1>1, <1>2, <1>3, HandedStep, PTL DEF Spec, ImplementsAssignments, Handed!AssignmentsSpec

\* No examiner holds two steps of one analysis.
NobodyHoldsTwo ==
  \A a \in Analyses, s, t \in Steps : s # t /\ holder[a][s] # NoUser => holder[a][s] # holder[a][t]

\* "An examiner never takes two steps of one analysis" (ListPendingWork in src/db/queries/analyses.sql),
\* handed out automatically or by coordinators, in any order and with submits in between.
THEOREM NobodyHoldsTwoAlways == Spec => []NobodyHoldsTwo
<1>1. ASSUME NobodyHoldsTwo, TypeOK, [Handed!AssignmentsNext]_(Handed!assignmentVars)
      PROVE  NobodyHoldsTwo'
  <2>1. /\ holder \in [Analyses -> [Steps -> Users \cup {NoUser}]]
        /\ \A st : Handed!ActiveStep(st) \in Steps
        /\ Handed!Steps = Steps
    BY <1>1 DEF TypeOK, Handed!ActiveStep, Handed!Steps, Steps
  <2>2. ASSUME NEW a \in Analyses, NEW s \in Steps, NEW u \in Handed!Candidates(a) \cup {NoUser},
               holder'[a] = [holder[a] EXCEPT ![s] = u], NEW r \in Steps, NEW t \in Steps,
               r # t, holder'[a][r] # NoUser
        PROVE  holder'[a][r] # holder'[a][t]
    <3>1. u # NoUser => \A x \in Steps : holder[a][x] # u
      BY <2>1, <2>2 DEF Handed!Candidates
    <3>2. holder[a] \in [Steps -> Users \cup {NoUser}]
      BY <2>1
    <3> QED BY <1>1, <2>2, <3>1, <3>2 DEF NobodyHoldsTwo
  <2>3. ASSUME NEW a \in Analyses, holder'[a] = holder[a], NEW r \in Steps, NEW t \in Steps,
               r # t, holder'[a][r] # NoUser
        PROVE  holder'[a][r] # holder'[a][t]
    BY <1>1, <2>3 DEF NobodyHoldsTwo
  <2>4. ASSUME NEW a \in Analyses
        PROVE  \/ holder'[a] = holder[a]
               \/ \E s \in Steps : \E u \in Handed!Candidates(a) \cup {NoUser} :
                    holder'[a] = [holder[a] EXCEPT ![s] = u]
    <3>1. CASE UNCHANGED holder
      BY <3>1
    <3>2. ASSUME NEW b \in Analyses, NEW s \in Handed!Steps, NEW u \in Users \cup {NoUser}, Handed!Reassign(b, s, u)
          PROVE  \/ holder'[a] = holder[a]
                 \/ holder'[a] = [holder[a] EXCEPT ![s] = u] /\ (u = NoUser \/ u \in Handed!Candidates(a))
      BY <2>1, <3>2 DEF Handed!Reassign
    <3>3. ASSUME NEW to, Handed!HandOut(to)
          PROVE  \/ holder'[a] = holder[a]
                 \/ /\ holder'[a] = [holder[a] EXCEPT ![Handed!ActiveStep(stage[a])] = to[a]]
                    /\ to[a] \in Handed!Candidates(a)
      BY <2>1, <3>3 DEF Handed!HandOut
    <3>4. ASSUME NEW b, NEW next, Handed!Finish(b, next)
          PROVE  UNCHANGED holder
      BY <3>4 DEF Handed!Finish
    <3>5. \/ UNCHANGED holder
          \/ \E b \in Analyses, s \in Handed!Steps, u \in Users \cup {NoUser} : Handed!Reassign(b, s, u)
          \/ \E to : Handed!HandOut(to)
      BY <1>1, <3>4 DEF Handed!AssignmentsNext, Handed!assignmentVars
    <3>6. ASSUME \E b \in Analyses, s \in Handed!Steps, u \in Users \cup {NoUser} : Handed!Reassign(b, s, u)
          PROVE  \/ holder'[a] = holder[a]
                 \/ \E s \in Steps : \E u \in Handed!Candidates(a) \cup {NoUser} :
                      holder'[a] = [holder[a] EXCEPT ![s] = u]
      BY <2>1, <3>2, <3>6
    <3>7. ASSUME \E to : Handed!HandOut(to)
          PROVE  \/ holder'[a] = holder[a]
                 \/ \E s \in Steps : \E u \in Handed!Candidates(a) \cup {NoUser} :
                      holder'[a] = [holder[a] EXCEPT ![s] = u]
      BY <2>1, <3>3, <3>7
    <3> QED BY <3>1, <3>5, <3>6, <3>7
  <2>5. ASSUME NEW a \in Analyses, NEW r \in Steps, NEW t \in Steps, r # t, holder'[a][r] # NoUser
        PROVE  holder'[a][r] # holder'[a][t]
    BY <2>2, <2>3, <2>4, <2>5
  <2> QED BY <2>5 DEF NobodyHoldsTwo
<1>2. Init => NobodyHoldsTwo
  BY DEF Init, NobodyHoldsTwo
<1>3. Handed!AssignmentsSpec => [][Handed!AssignmentsNext]_(Handed!assignmentVars)
  BY DEF Handed!AssignmentsSpec
<1>4. ImplementsAssignments => Handed!AssignmentsSpec
  BY DEF ImplementsAssignments
<1> QED BY TypeCorrect, ImplementsAssignmentsAlways, <1>1, <1>2, <1>3, <1>4, PTL DEF Spec

-----------------------------------------------------------------------------
(* Gallery.  Two matched faces were compared: which invariant says so      *)
(* depends on whose each of them is.  Two of the worker's (SyncSync): the  *)
(* band that marked the later one searched when the other had its row.     *)
(* One of each (SyncBulk): either the batch read the worker's face, or     *)
(* that came later, and then the band knew the gallery's.  Two of the      *)
(* gallery (BulkBulk): the later batch read the earlier ones' members.     *)
(* Whatever is replaced meanwhile is overtaken, and so in no run as it is. *)

\* f's row is of the worker's path.
Synced(f) == Embedded(f) /\ emb[f].path = "SYNC"

\* f's batch is a finished one.
Finished(f) == batchOf[f] # 0 /\ status[batchOf[f]] = "MATCHED"

\* f's row is, as it is, of the backlog the band is searching for; and was searched for.
InBand(f) == band.at = "SEARCH" /\ Current(f) \in band.todo /\ f \notin overtaken
Looked(f) == InBand(f) /\ {Current(f)} \in band.found

\* f's row is, as it is, what the batch in flight will have compared.
InBatch(f) == /\ match.at \in {"READ", "SCORED"} /\ batchOf[f] = match.batch
              /\ f \notin overtaken /\ shards[f] \subseteq {emb[f].vec}

\* The rows: a face has a photo before it has a vector, a batch only takes the gallery's, and what
\* of the gallery is marked is of a finished batch.
RowsInv ==
  /\ \A f \in Faces : Embedded(f) => photo[f] # 0
  /\ \A x \in tasks : photo[x[1]] # 0
  /\ \A x \in enrol.found : photo[x[1]] # 0
  /\ \A f \in Faces : emb[f].path = "BULK" \/ emb[f].matched => Embedded(f)
  /\ \A f \in Faces : batchOf[f] # 0 => emb[f].path = "BULK" /\ status[batchOf[f]] # "NONE"
  /\ \A f \in Faces : emb[f].path = "BULK" /\ emb[f].matched => Finished(f)

\* The band: its backlog is of the worker's path, and what was not replaced under it is as it was
\* read; the faces it knows are all that had a row to be compared with.
BandInv ==
  /\ \A x \in band.todo : Synced(x[1]) /\ (x[1] \notin overtaken => x = Current(x[1]))
  /\ band.at # "SEARCH" => band.found = {}
  /\ band.at = "NONE" => band = NoBand
  /\ band.at = "SEARCH" =>
       \A f \in Faces : Synced(f) /\ (emb[f].matched \/ \E x \in band.todo : x[1] = f) => f \in band.known
  /\ \A p \in band.found : \E x \in band.todo, y \in Vector : p = {x, y}

\* The batch in flight: it is not finished, its members are the gallery's, and no other batch
\* finishes under it.
MatchInv ==
  /\ match.at = "NONE" => match = NoMatch
  /\ match.at # "NONE" => match.batch # 0 /\ status[match.batch] = "SELECTED"
  /\ match.at \in {"READ", "SCORED"} =>
       /\ match.earlier = {f \in Faces : Finished(f)}
       /\ \A y \in match.others : Synced(y[1])
  /\ match.at # "SCORED" => match.found = {}
  /\ match.at = "SCORED" =>
       \A p \in match.found : \E x, y \in Vector :
         /\ p = {x, y} /\ x[1] \in Members(match.batch)
         /\ Synced(y[1]) \/ y[1] \in Members(match.batch) \cup match.earlier

\* The batch of g has y to compare g with, has compared them, or their scores are recorded.
Took(g, y) ==
  \/ match.at = "READ" /\ batchOf[g] = match.batch /\ y \in match.others
  \/ match.at = "SCORED" /\ batchOf[g] = match.batch /\ {Current(g), y} \in match.found
  \/ {Current(g), y} \in compared

\* Two of the worker's path.
SyncSync(f, g) ==
  /\ Settled(f) /\ Settled(g) => {Current(f), Current(g)} \in compared
  /\ Looked(f) /\ (InBand(g) \/ Settled(g)) => {Current(f), Current(g)} \in band.found

\* f of the worker's path, g of the gallery: the batch took f in, or the band finds g.
SyncBulk(f, g) ==
  Settled(g) \/ InBatch(g) =>
    /\ Settled(f) => Took(g, Current(f))
    /\ Looked(f) => Took(g, Current(f)) \/ {Current(f), Current(g)} \in band.found
    /\ InBand(f) /\ g \notin band.known => Took(g, Current(f))

\* Two of the gallery.
BulkBulk(f, g) ==
  /\ Settled(f) /\ Settled(g) => {Current(f), Current(g)} \in compared
  /\ match.at = "SCORED" /\ InBatch(f) /\ (InBatch(g) \/ Settled(g)) => {Current(f), Current(g)} \in match.found

PairsInv ==
  \A f, g \in Faces : f # g =>
    /\ Synced(f) /\ Synced(g) => SyncSync(f, g)
    /\ Synced(f) /\ emb[g].path = "BULK" => SyncBulk(f, g)
    /\ emb[f].path = "BULK" /\ emb[g].path = "BULK" => BulkBulk(f, g)

\* Of two faces of the gallery whose scores are recorded, both are of finished batches.
ScoresInv ==
  \A x, y \in Vector :
    {x, y} \in compared /\ x[1] # y[1] /\ ~Synced(x[1]) /\ ~Synced(y[1]) => Finished(x[1])

GalleryInv == GalleryTypeOK /\ RowsInv /\ BandInv /\ MatchInv /\ PairsInv /\ ScoresInv

-----------------------------------------------------------------------------
(* Types.                                                                  *)

LEMMA VectorParts ==
  ASSUME NEW x \in Vector
  PROVE  x[1] \in Faces /\ x[2] \in Photos /\ x = <<x[1], x[2]>>
BY DEF Vector

LEMMA PairOf ==
  ASSUME NEW x \in Vector, NEW y \in Vector
  PROVE  {x, y} \in Pair
BY DEF Pair

LEMMA CurrentIsVector ==
  ASSUME GalleryTypeOK, NEW f \in Faces, Embedded(f)
  PROVE  Current(f) \in Vector /\ emb[f].vec \in Photos
BY GalleryConstantsOK DEF GalleryTypeOK, Embedded, Current, Vector, Photos

LEMMA BatchesOK ==
  ASSUME GalleryTypeOK
  PROVE  /\ IsFiniteSet(SelectedBatch) /\ SelectedBatch \in SUBSET Int
         /\ SelectedBatch # {} => Min(SelectedBatch) \in SelectedBatch
<1>1. 1 \in Int /\ MaxBatches \in Int /\ SelectedBatch \in SUBSET (1..MaxBatches)
  BY GalleryConstantsOK DEF SelectedBatch
<1>2. IsFiniteSet(1..MaxBatches)
  BY <1>1, FS_Interval
<1>3. SelectedBatch \in SUBSET Int
  BY <1>1
<1> HIDE DEF SelectedBatch
<1>4. IsFiniteSet(SelectedBatch)
  BY <1>1, <1>2, FS_Subset
<1> QED BY <1>3, <1>4, MinIsLeast

\* The faces' rows as a batch's shards hold them.
LEMMA ShardsFilled ==
  ASSUME GalleryTypeOK, NEW want \in SUBSET Faces, \A f \in want : Embedded(f)
  PROVE  /\ Filled(want) \in [Faces -> SUBSET Photos]
         /\ \A f \in Faces : Filled(want)[f] \subseteq {emb[f].vec} <=> shards[f] \subseteq {emb[f].vec}
         /\ \A f \in want : Filled(want)[f] # {}
<1>1. \A f \in want : {emb[f].vec} \in SUBSET Photos
  BY CurrentIsVector
<1>2. shards \in [Faces -> SUBSET Photos]
  BY DEF GalleryTypeOK
<1> QED BY <1>1, <1>2 DEF Filled

LEMMA MembersEmbedded ==
  ASSUME GalleryTypeOK, RowsInv, MatchInv, match.at # "NONE"
  PROVE  /\ match.batch \in 1..MaxBatches /\ status[match.batch] = "SELECTED"
         /\ \A f \in Faces : batchOf[f] = match.batch => Embedded(f) /\ emb[f].path = "BULK" /\ ~Finished(f)
         /\ \A f \in Faces : Finished(f) => Embedded(f) /\ emb[f].path = "BULK"
BY GalleryConstantsOK DEF GalleryTypeOK, RowsInv, MatchInv, Finished

\* What the matcher compares: a row of each member with those of the batch, a row at least of each
\* of the earlier ones, and the others.
LEMMA Scored ==
  ASSUME GalleryTypeOK, RowsInv, MatchInv, MatchScores
  PROVE  /\ match.at = "READ" /\ shards' = Filled(Members(match.batch) \cup match.earlier)
         /\ shards' \in [Faces -> SUBSET Photos]
         /\ \E own, earlier \in SUBSET Vector :
              /\ match' = [match EXCEPT !.at = "SCORED",
                                        !.found = Pairings(own, own \cup earlier \cup match.others)]
              /\ \A x \in own : x[1] \in Members(match.batch)
              /\ \A f \in Members(match.batch) : shards'[f] \subseteq {emb[f].vec} => Current(f) \in own
              /\ \A x \in earlier : x[1] \in match.earlier
              /\ \A f \in match.earlier : shards'[f] \subseteq {emb[f].vec} => Current(f) \in earlier
<1> DEFINE want == Members(match.batch) \cup match.earlier
<1>1. match.at = "READ" /\ shards' = Filled(want)
  BY DEF MatchScores
<1>2. want \in SUBSET Faces /\ \A f \in want : Embedded(f)
  BY <1>1, MembersEmbedded DEF GalleryTypeOK, MatchInv, Members
<1> HIDE DEF want
<1>3. shards' \in [Faces -> SUBSET Photos] /\ \A f \in want : shards'[f] # {}
  BY <1>1, <1>2, ShardsFilled
<1>4. PICK v \in [Members(match.batch) -> Photos] :
        /\ \A f \in Members(match.batch) : v[f] \in shards'[f]
        /\ LET own     == {<<f, v[f]>> : f \in Members(match.batch)}
               earlier == UNION {{<<f, w>> : w \in shards'[f]} : f \in match.earlier}
           IN  match' = [match EXCEPT !.at = "SCORED",
                           !.found = Pairings(own, own \cup earlier \cup match.others)]
  BY Zenon DEF MatchScores
<1> DEFINE own     == {<<f, v[f]>> : f \in Members(match.batch)}
           earlier == UNION {{<<f, w>> : w \in shards'[f]} : f \in match.earlier}
<1>5. Members(match.batch) \subseteq Faces /\ match.earlier \subseteq Faces
  BY DEF Members, GalleryTypeOK
<1>6. own \in SUBSET Vector /\ \A x \in own : x[1] \in Members(match.batch)
  BY <1>5 DEF Vector
<1>7. earlier \in SUBSET Vector /\ \A x \in earlier : x[1] \in match.earlier
  BY <1>3, <1>5 DEF Vector
<1>8. ASSUME NEW f \in Members(match.batch), shards'[f] \subseteq {emb[f].vec}
      PROVE  Current(f) \in own
  <2>1. v[f] = emb[f].vec
    BY <1>4, <1>8
  <2> QED BY <2>1 DEF Current
<1>9. ASSUME NEW f \in match.earlier, shards'[f] \subseteq {emb[f].vec}
      PROVE  Current(f) \in earlier
  <2>1. emb[f].vec \in shards'[f]
    BY <1>3, <1>9 DEF want
  <2> QED BY <2>1 DEF Current
<1>10. match' = [match EXCEPT !.at = "SCORED", !.found = Pairings(own, own \cup earlier \cup match.others)]
  BY <1>4, Zenon
<1> HIDE DEF own, earlier
<1> QED BY <1>1, <1>3, <1>6, <1>7, <1>8, <1>9, <1>10 DEF want

\* A row of the table.
Row == [vec : 0..MaxPhotos, path : {"SYNC", "BULK"}, matched : BOOLEAN]

LEMMA Upserted ==
  ASSUME GalleryTypeOK, NEW x \in tasks, UpsertFeatureEmbedding(x[1], x[2])
  PROVE  /\ emb' \in [Faces -> Row]
         /\ x[1] \in Faces /\ emb'[x[1]].vec = x[2] /\ emb'[x[1]].path = emb[x[1]].path /\ ~emb'[x[1]].matched
         /\ x[2] \in Photos /\ x[2] # 0
         /\ \A f \in Faces : f # x[1] => emb'[f] = emb[f]
         /\ \A f \in Faces : f # x[1] => (f \in overtaken' <=> f \in overtaken)
         /\ x[1] \in InFlight => x[1] \in overtaken'
<1>1. x[1] \in Faces /\ x[2] \in Photos /\ x[2] \in 0..MaxPhotos /\ x[2] # 0
  <2>1. x \in Vector
    BY DEF GalleryTypeOK
  <2> QED BY <2>1, VectorParts, GalleryConstantsOK DEF Photos
<1>2. emb \in [Faces -> Row]
  BY DEF GalleryTypeOK, Row
<1>3. emb' = [emb EXCEPT ![x[1]].vec = x[2], ![x[1]].matched = FALSE]
  BY DEF UpsertFeatureEmbedding
<1>5. /\ emb' = [f \in Faces |-> emb'[f]]
      /\ \A f \in Faces : f # x[1] => emb'[f] = emb[f]
      /\ emb'[x[1]] = [emb[x[1]] EXCEPT !.vec = x[2], !.matched = FALSE]
  BY <1>1, <1>2, <1>3
<1>6. /\ emb'[x[1]].vec = x[2] /\ emb'[x[1]].path = emb[x[1]].path /\ ~emb'[x[1]].matched
      /\ emb'[x[1]] \in Row
  <2>1. PICK r \in Row : r = emb[x[1]]
    BY <1>1, <1>2
  <2>2. [r EXCEPT !.vec = x[2]] \in Row /\ [r EXCEPT !.vec = x[2]].path = r.path
        /\ [r EXCEPT !.vec = x[2]].vec = x[2]
    BY <1>1, <2>1 DEF Row
  <2>3. PICK q \in Row : q = [r EXCEPT !.vec = x[2]]
    BY <2>2
  <2>4. [q EXCEPT !.matched = FALSE] \in Row /\ [q EXCEPT !.matched = FALSE].path = q.path
        /\ [q EXCEPT !.matched = FALSE].vec = q.vec /\ ~[q EXCEPT !.matched = FALSE].matched
    BY <2>3 DEF Row
  <2>5. emb'[x[1]] = [q EXCEPT !.matched = FALSE]
    BY <1>5, <2>1, <2>3
  <2> QED BY <2>1, <2>2, <2>3, <2>4, <2>5
<1>7. emb' \in [Faces -> Row]
  BY <1>2, <1>5, <1>6
<1>8. \A f \in Faces : f # x[1] => (f \in overtaken' <=> f \in overtaken)
  BY DEF UpsertFeatureEmbedding
<1>9. x[1] \in InFlight => x[1] \in overtaken'
  BY DEF UpsertFeatureEmbedding
<1> QED BY <1>1, <1>5, <1>6, <1>7, <1>8, <1>9

LEMMA Marked ==
  ASSUME GalleryTypeOK, NEW marked, MarkFeatureEmbeddingMatched(marked)
  PROVE  /\ emb' \in [Faces -> Row]
         /\ \A f \in Faces : /\ emb'[f].vec = emb[f].vec /\ emb'[f].path = emb[f].path
                             /\ emb'[f].matched <=> emb[f].matched \/ f \in marked
<1>1. emb \in [Faces -> Row]
  BY DEF GalleryTypeOK, Row
<1>2. ASSUME NEW f \in Faces
      PROVE  /\ emb'[f] \in Row /\ emb'[f].vec = emb[f].vec /\ emb'[f].path = emb[f].path
             /\ emb'[f].matched <=> emb[f].matched \/ f \in marked
  <2>1. emb[f] \in Row
    BY <1>1
  <2>2. CASE f \in marked
    <3>1. emb'[f] = [emb[f] EXCEPT !.matched = TRUE]
      BY <2>2 DEF MarkFeatureEmbeddingMatched
    <3> QED BY <2>1, <2>2, <3>1 DEF Row
  <2>3. CASE f \notin marked
    <3>1. emb'[f] = emb[f]
      BY <2>3 DEF MarkFeatureEmbeddingMatched
    <3> QED BY <2>1, <2>3, <3>1
  <2> QED BY <2>2, <2>3
<1>3. emb' = [f \in Faces |-> emb'[f]]
  BY DEF MarkFeatureEmbeddingMatched
<1> QED BY <1>2, <1>3

\* A page inserts rows of the gallery's path where there was none.
LEMMA Inserted ==
  ASSUME GalleryTypeOK, NEW result \in [enrol.found -> Outcomes], EnrolWrites(result)
  PROVE  /\ emb' \in [Faces -> Row]
         /\ \A f \in Faces :
              \/ emb'[f] = emb[f]
              \/ /\ ~Embedded(f) /\ emb'[f].path = "BULK" /\ ~emb'[f].matched /\ emb'[f].vec # 0
                 /\ \E x \in enrol.found : x[1] = f
<1> DEFINE new == {x \in enrol.found : result[x] = "EMBEDDED" /\ ~Embedded(x[1])}
<1>1. emb \in [Faces -> Row] /\ 0 \notin Photos /\ Photos \subseteq 0..MaxPhotos
  BY GalleryConstantsOK DEF GalleryTypeOK, Row, Photos
<1>2. emb' = [f \in Faces |->
                IF \E v \in Photos : <<f, v>> \in new
                  THEN [NoRow EXCEPT !.vec = CHOOSE v \in Photos : <<f, v>> \in new, !.path = "BULK"]
                  ELSE emb[f]]
  BY DEF EnrolWrites
<1>3. ASSUME NEW f \in Faces
      PROVE  /\ emb'[f] \in Row
             /\ \/ emb'[f] = emb[f]
                \/ /\ ~Embedded(f) /\ emb'[f].path = "BULK" /\ ~emb'[f].matched /\ emb'[f].vec # 0
                   /\ \E x \in enrol.found : x[1] = f
  <2>1. CASE \E v \in Photos : <<f, v>> \in new
    <3> DEFINE w == CHOOSE v \in Photos : <<f, v>> \in new
    <3>1. w \in Photos /\ <<f, w>> \in new
      BY <2>1, Zenon
    <3>2. <<f, w>> \in enrol.found /\ ~Embedded(f)
      BY <3>1
    <3>3. emb'[f] = [NoRow EXCEPT !.vec = w, !.path = "BULK"]
      BY <1>2, <2>1
    <3> HIDE DEF w
    <3>4. emb'[f] = [vec |-> w, path |-> "BULK", matched |-> FALSE]
      BY <3>3 DEF NoRow
    <3> HIDE DEF new
    <3> QED BY <1>1, <3>1, <3>2, <3>4 DEF Row
  <2>2. CASE ~\E v \in Photos : <<f, v>> \in new
    <3>1. emb'[f] = emb[f]
      BY <1>2, <2>2
    <3> QED BY <1>1, <3>1
  <2> QED BY <2>1, <2>2
<1>4. emb' = [f \in Faces |-> emb'[f]]
  BY <1>2
<1> QED BY <1>3, <1>4

\* A search pairs x with each that has a row and is known.
LEMMA Found ==
  ASSUME GalleryTypeOK, NEW x \in band.todo, BandSearches(x)
  PROVE  /\ band'.found \in SUBSET Pair
         /\ band.at = "SEARCH" /\ band' = [band EXCEPT !.found = band'.found]
         /\ band.found \subseteq band'.found /\ {x} \in band'.found
         /\ \A g \in Faces : g # x[1] /\ g \in band.known /\ Embedded(g) => {x, Current(g)} \in band'.found
         /\ \A p \in band'.found : p \in band.found \/ \E y \in Vector : p = {x, y}
         /\ \A y : {y} \in band'.found => {y} \in band.found \/ y = x
<1> DEFINE near == FindNearestFeatureEmbeddings(x[1], band.known)
<1>1. \A y \in near : y \in Vector /\ y # x
  BY CurrentIsVector DEF FindNearestFeatureEmbeddings, Rows, Current
<1>2. \A g \in Faces : g # x[1] /\ g \in band.known /\ Embedded(g) => Current(g) \in near
  BY DEF FindNearestFeatureEmbeddings, Rows
<1>3. band'.found = band.found \cup {{x}} \cup {{x, y} : y \in near}
  BY DEF BandSearches, GalleryTypeOK
<1>4. band.at = "SEARCH" /\ band' = [band EXCEPT !.found = band'.found] /\ x \in Vector
  BY DEF BandSearches, GalleryTypeOK
<1> HIDE DEF near
<1>5. {x} \in Pair /\ \A y \in near : {x, y} \in Pair
  <2>1. {x} = {x, x}
    OBVIOUS
  <2>2. {x, x} \in Pair
    BY <1>4, PairOf
  <2>3. \A y \in near : {x, y} \in Pair
    BY <1>1, <1>4, PairOf
  <2> QED BY <2>1, <2>2, <2>3
<1>6. band.found \in SUBSET Pair
  BY DEF GalleryTypeOK
<1>7. band'.found \in SUBSET Pair
  BY <1>3, <1>5, <1>6
<1>8. \A g \in Faces : g # x[1] /\ g \in band.known /\ Embedded(g) => {x, Current(g)} \in band'.found
  BY <1>2, <1>3
<1>9. \A p \in band'.found : p \in band.found \/ \E y \in Vector : p = {x, y}
  <2>1. {x} = {x, x}
    OBVIOUS
  <2> QED BY <1>1, <1>3, <1>4, <2>1, Zenon
<1>10. ASSUME NEW y, {y} \in band'.found
       PROVE  {y} \in band.found \/ y = x
  BY <1>3, <1>10
<1> QED BY <1>3, <1>4, <1>7, <1>8, <1>9, <1>10

LEMMA TypeStep ==
  ASSUME GalleryTypeOK, RowsInv, MatchInv, GalleryNext
  PROVE  GalleryTypeOK'
<1> USE DEF GalleryTypeOK
<1>1. ASSUME NEW f \in Faces, Upload(f)
      PROVE  GalleryTypeOK'
  BY <1>1, GalleryConstantsOK DEF Upload
<1>2. ASSUME NEW f \in Faces, ComputeReads(f)
      PROVE  GalleryTypeOK'
  <2>1. <<f, photo[f]>> \in Vector
    BY <1>2, GalleryConstantsOK DEF ComputeReads, Vector, Photos
  <2> QED BY <1>2, <2>1 DEF ComputeReads
<1>3. ASSUME NEW x \in tasks, ComputeForIdentityFeature(x)
      PROVE  GalleryTypeOK'
  <2>1. x[1] \in Faces /\ emb' \in [Faces -> Row]
    BY <1>3, Upserted DEF ComputeForIdentityFeature
  <2>2. overtaken' \subseteq Faces
    BY <1>3, <2>1 DEF ComputeForIdentityFeature, UpsertFeatureEmbedding
  <2> QED BY <1>3, <2>1, <2>2 DEF ComputeForIdentityFeature, Row
<1>4. ASSUME NEW x \in tasks, ComputeEnds(x)
      PROVE  GalleryTypeOK'
  BY <1>4 DEF ComputeEnds
<1>5. CASE BandReads
  <2>1. ListUnmatchedFeatureEmbeddings \subseteq Vector
    BY CurrentIsVector DEF ListUnmatchedFeatureEmbeddings, Rows
  <2> QED BY <1>5, <2>1 DEF BandReads
<1>6. CASE BandLoadsFeatures
  BY <1>6 DEF BandLoadsFeatures
<1>7. ASSUME NEW x \in band.todo, BandSearches(x)
      PROVE  GalleryTypeOK'
  BY <1>7, Found DEF BandSearches
<1>8. CASE BandRecords
  <2>1. emb' \in [Faces -> Row]
    BY <1>8, Marked DEF BandRecords
  <2> QED BY <1>8, <2>1 DEF BandRecords, NoBand, Row
<1>9. CASE BandFails
  BY <1>9 DEF BandFails, NoBand
<1>10. ASSUME NEW page \in SUBSET Known, EnrolPage(page)
       PROVE  GalleryTypeOK'
  <2>1. {<<f, photo[f]>> : f \in page} \subseteq Vector
    BY <1>10, GalleryConstantsOK DEF EnrolPage, Pending, Vector, Photos, Faces
  <2> QED BY <1>10, <2>1 DEF EnrolPage
<1>11. ASSUME NEW result \in [enrol.found -> Outcomes], EnrolWrites(result)
       PROVE  GalleryTypeOK'
  <2>1. emb' \in [Faces -> Row]
    BY <1>11, Inserted
  <2>2. outcome' \in [Faces -> Outcomes]
    <3>1. ASSUME NEW f \in Faces, \E x \in enrol.found : x[1] = f /\ result[x] # "NONE"
          PROVE  result[CHOOSE x \in enrol.found : x[1] = f] \in Outcomes
      <4>1. (CHOOSE x \in enrol.found : x[1] = f) \in enrol.found
        BY <3>1
      <4> QED BY <4>1
    <3> QED BY <1>11, <3>1 DEF EnrolWrites
  <2>3. enrol' \in [at : {"NONE", "PAGE", "WRITTEN"}, found : SUBSET Vector]
    BY <1>11 DEF EnrolWrites
  <2> QED BY <1>11, <2>1, <2>2, <2>3 DEF EnrolWrites, Row
<1>12. CASE EnrolShards
  BY <1>12 DEF EnrolShards, NoPage
<1>13. CASE EnrolDies
  BY <1>13, GalleryConstantsOK DEF EnrolDies, NoPage
<1>14. ASSUME NEW taken \in SUBSET Known, NewBatch(taken)
       PROVE  GalleryTypeOK'
  <2>1. PICK b \in 1..MaxBatches :
          /\ status' = [status EXCEPT ![b] = "SELECTED"]
          /\ batchOf' = [f \in Faces |-> IF f \in taken THEN b ELSE batchOf[f]]
          /\ match' = [match EXCEPT !.at = "SELECTED", !.batch = b]
    BY <1>14 DEF NewBatch
  <2>2. b \in 0..MaxBatches
    BY GalleryConstantsOK
  <2> QED BY <1>14, <2>1, <2>2 DEF NewBatch
<1>15. CASE MatchResumes
  <2>1. Min(SelectedBatch) \in 0..MaxBatches
    <3>1. Min(SelectedBatch) \in 1..MaxBatches
      BY <1>15, BatchesOK DEF MatchResumes, SelectedBatch
    <3> QED BY <3>1, GalleryConstantsOK
  <2> QED BY <1>15, <2>1 DEF MatchResumes
<1>16. CASE MatchReads
  <2>1. Others \subseteq Vector
    BY CurrentIsVector DEF Others, Rows
  <2> QED BY <1>16, <2>1 DEF MatchReads
<1>17. CASE MatchScores
  <2>1. PICK own, earlier \in SUBSET Vector :
          match' = [match EXCEPT !.at = "SCORED",
                                 !.found = Pairings(own, own \cup earlier \cup match.others)]
    BY <1>17, Scored, Zenon
  <2>2. Pairings(own, own \cup earlier \cup match.others) \in SUBSET Pair
    BY DEF Pairings, Pair
  <2>3. match' \in [at : {"NONE", "SELECTED", "READ", "SCORED"}, batch : 0..MaxBatches, earlier : SUBSET Faces,
                    others : SUBSET Vector, found : SUBSET Pair]
    BY <2>1, <2>2
  <2> QED BY <1>17, <2>3, Scored DEF MatchScores
<1>18. CASE LoadScores
  <2>1. emb' \in [Faces -> Row]
    BY <1>18, Marked DEF LoadScores
  <2>2. NoMatch \in [at : {"NONE", "SELECTED", "READ", "SCORED"}, batch : 0..MaxBatches, earlier : SUBSET Faces,
                     others : SUBSET Vector, found : SUBSET Pair]
    BY GalleryConstantsOK DEF NoMatch
  <2> QED BY <1>18, <2>1, <2>2 DEF LoadScores, Row
<1>19. CASE MatchDies
  <2>1. NoMatch \in [at : {"NONE", "SELECTED", "READ", "SCORED"}, batch : 0..MaxBatches, earlier : SUBSET Faces,
                     others : SUBSET Vector, found : SUBSET Pair]
    BY GalleryConstantsOK DEF NoMatch
  <2> QED BY <1>19, <2>1, GalleryConstantsOK DEF MatchDies
<1> QED
  BY <1>1, <1>2, <1>3, <1>4, <1>5, <1>6, <1>7, <1>8, <1>9, <1>10, <1>11, <1>12, <1>13, <1>14, <1>15,
     <1>16, <1>17, <1>18, <1>19 DEF GalleryNext

-----------------------------------------------------------------------------
(* The rows and the batches.                                               *)

\* A row stays, on its path, and what is of a finished batch stays so.
Keeps ==
  \A f \in Faces : /\ Embedded(f) => Embedded(f)' /\ emb'[f].path = emb[f].path
                   /\ Synced(f) => Synced(f)'
                   /\ photo[f] # 0 => photo'[f] # 0
                   /\ Finished(f) => Finished(f)'

\* What only touches neither the table nor the batches keeps them.
LEMMA Untouched ==
  ASSUME UNCHANGED <<photo, emb, batchOf, status>>
  PROVE  Keeps
BY DEF Keeps, Embedded, Synced, Finished

LEMMA TakenUp ==
  ASSUME GalleryTypeOK, RowsInv, NEW taken \in SUBSET Known, NewBatch(taken)
  PROVE  \E b \in 1..MaxBatches :
           /\ status[b] = "NONE" /\ b # 0 /\ match.at = "NONE" /\ taken \subseteq Waiting
           /\ status' = [status EXCEPT ![b] = "SELECTED"]
           /\ batchOf' = [f \in Faces |-> IF f \in taken THEN b ELSE batchOf[f]]
           /\ match' = [match EXCEPT !.at = "SELECTED", !.batch = b]
           /\ \A f \in Faces : batchOf[f] # b
<1>1. PICK b \in 1..MaxBatches :
        /\ \A d \in 1..MaxBatches : status[d] = "NONE" <=> d >= b
        /\ status' = [status EXCEPT ![b] = "SELECTED"]
        /\ batchOf' = [f \in Faces |-> IF f \in taken THEN b ELSE batchOf[f]]
        /\ match' = [match EXCEPT !.at = "SELECTED", !.batch = b]
  BY DEF NewBatch
<1>2. b # 0 /\ status[b] = "NONE"
  BY <1>1, GalleryConstantsOK
<1>3. \A f \in Faces : batchOf[f] # b
  BY <1>2 DEF RowsInv
<1> QED BY <1>1, <1>2, <1>3 DEF NewBatch

LEMMA RowsStep ==
  ASSUME GalleryTypeOK, RowsInv, MatchInv, BandInv, GalleryNext
  PROVE  RowsInv' /\ Keeps
<1>1. ASSUME NEW f \in Faces, Upload(f)
      PROVE  RowsInv' /\ Keeps
  <2>1. \A g \in Faces : photo[g] # 0 => photo'[g] # 0
    BY <1>1, GalleryConstantsOK DEF Upload, GalleryTypeOK
  <2>2. \A x \in tasks \cup enrol.found : x[1] \in Faces
    BY VectorParts DEF GalleryTypeOK
  <2> QED BY <1>1, <2>1, <2>2 DEF Upload, RowsInv, Keeps, Embedded, Synced, Finished
<1>2. ASSUME NEW f \in Faces, ComputeReads(f)
      PROVE  RowsInv' /\ Keeps
  BY <1>2, Untouched DEF ComputeReads, RowsInv, Embedded, Finished
<1>3. ASSUME NEW x \in tasks, ComputeForIdentityFeature(x)
      PROVE  RowsInv' /\ Keeps
  <2>1. x[1] \in Faces /\ emb'[x[1]].vec # 0 /\ emb'[x[1]].path = emb[x[1]].path /\ ~emb'[x[1]].matched
        /\ \A f \in Faces : f # x[1] => emb'[f] = emb[f]
    BY <1>3, Upserted DEF ComputeForIdentityFeature
  <2>2. UNCHANGED <<photo, batchOf, status, enrol>> /\ tasks' \subseteq tasks /\ photo[x[1]] # 0
    BY <1>3 DEF ComputeForIdentityFeature, RowsInv
  <2>3. \A f \in Faces : Finished(f)' <=> Finished(f)
    BY <2>2 DEF Finished
  <2> QED BY <2>1, <2>2, <2>3 DEF RowsInv, Keeps, Embedded, Synced
<1>4. ASSUME NEW x \in tasks, ComputeEnds(x)
      PROVE  RowsInv' /\ Keeps
  BY <1>4, Untouched DEF ComputeEnds, RowsInv, Embedded, Finished
<1>5. CASE BandReads \/ BandLoadsFeatures \/ BandFails
  BY <1>5, Untouched DEF BandReads, BandLoadsFeatures, BandFails, RowsInv, Embedded, Finished
<1>6. ASSUME NEW x \in band.todo, BandSearches(x)
      PROVE  RowsInv' /\ Keeps
  BY <1>6, Untouched DEF BandSearches, RowsInv, Embedded, Finished
<1>7. CASE BandRecords
  <2>1. /\ UNCHANGED <<photo, tasks, enrol, batchOf, status>>
        /\ \A f \in Faces : /\ emb'[f].vec = emb[f].vec /\ emb'[f].path = emb[f].path
                            /\ emb'[f].matched => emb[f].matched \/ \E x \in band.todo : x[1] = f
    BY <1>7, Marked DEF BandRecords
  <2>2. \A x \in band.todo : Synced(x[1])
    BY DEF BandInv
  <2>3. \A f \in Faces : Finished(f)' <=> Finished(f)
    BY <2>1 DEF Finished
  <2>4. \A f \in Faces : (\E x \in band.todo : x[1] = f) => Embedded(f) /\ emb[f].path # "BULK"
    BY <2>2 DEF Synced
  <2> QED BY <2>1, <2>3, <2>4 DEF RowsInv, Keeps, Embedded, Synced
<1>8. ASSUME NEW page \in SUBSET Known, EnrolPage(page)
      PROVE  RowsInv' /\ Keeps
  <2>1. \A x \in enrol'.found : photo[x[1]] # 0
    BY <1>8 DEF EnrolPage, Pending
  <2> QED BY <1>8, <2>1, Untouched DEF EnrolPage, RowsInv, Embedded, Finished
<1>9. ASSUME NEW result \in [enrol.found -> Outcomes], EnrolWrites(result)
      PROVE  RowsInv' /\ Keeps
  <2>1. \A f \in Faces :
          \/ emb'[f] = emb[f]
          \/ /\ ~Embedded(f) /\ emb'[f].path = "BULK" /\ ~emb'[f].matched /\ emb'[f].vec # 0
             /\ \E x \in enrol.found : x[1] = f
    BY <1>9, Inserted
  <2>2. UNCHANGED <<photo, tasks, batchOf, status>> /\ enrol'.found \subseteq enrol.found
    BY <1>9 DEF EnrolWrites
  <2>3. \A f \in Faces : Finished(f)' <=> Finished(f)
    BY <2>2 DEF Finished
  <2> QED BY <2>1, <2>2, <2>3 DEF RowsInv, Keeps, Embedded, Synced
<1>10. CASE EnrolShards \/ EnrolDies
  BY <1>10, Untouched DEF EnrolShards, EnrolDies, NoPage, RowsInv, Embedded, Finished
<1>11. ASSUME NEW taken \in SUBSET Known, NewBatch(taken)
       PROVE  RowsInv' /\ Keeps
  <2>1. PICK b \in 1..MaxBatches :
           /\ status[b] = "NONE" /\ b # 0 /\ match.at = "NONE" /\ taken \subseteq Waiting
           /\ status' = [status EXCEPT ![b] = "SELECTED"]
           /\ batchOf' = [f \in Faces |-> IF f \in taken THEN b ELSE batchOf[f]]
           /\ \A f \in Faces : batchOf[f] # b
    BY <1>11, TakenUp
  <2>2. UNCHANGED <<photo, emb, tasks, enrol>>
    BY <1>11 DEF NewBatch
  <2>3. \A f \in Faces : f \in taken => emb[f].path = "BULK" /\ ~emb[f].matched /\ batchOf[f] = 0
    BY <2>1 DEF Waiting
  <2>4. \A f \in Faces : IF f \in taken THEN batchOf'[f] = b /\ status'[batchOf'[f]] = "SELECTED"
                         ELSE batchOf'[f] = batchOf[f] /\ (batchOf[f] # 0 => status'[batchOf[f]] = status[batchOf[f]])
    BY <2>1, GalleryConstantsOK DEF GalleryTypeOK
  <2>5. \A f \in Faces : Finished(f) => Finished(f)'
    BY <2>3, <2>4 DEF Finished
  <2> QED BY <2>1, <2>2, <2>3, <2>4, <2>5 DEF RowsInv, Keeps, Embedded, Synced
<1>12. CASE MatchResumes \/ MatchReads \/ MatchScores \/ MatchDies
  BY <1>12, Untouched DEF MatchResumes, MatchReads, MatchScores, MatchDies, RowsInv, Embedded, Finished
<1>13. CASE LoadScores
  <2>1. match.batch \in 1..MaxBatches /\ status[match.batch] = "SELECTED"
        /\ \A f \in Members(match.batch) : Embedded(f) /\ emb[f].path = "BULK" /\ batchOf[f] = match.batch
    BY <1>13, MembersEmbedded DEF LoadScores, Members
  <2>2. /\ UNCHANGED <<photo, tasks, enrol, batchOf>> /\ status' = [status EXCEPT ![match.batch] = "MATCHED"]
        /\ \A f \in Faces : /\ emb'[f].vec = emb[f].vec /\ emb'[f].path = emb[f].path
                            /\ emb'[f].matched <=> emb[f].matched \/ f \in Members(match.batch)
    BY <1>13, Marked DEF LoadScores
  <2>3. \A f \in Faces : batchOf[f] # 0 => /\ status'[batchOf[f]] # "NONE"
                                           /\ Finished(f) \/ f \in Members(match.batch) => Finished(f)'
    BY <2>1, <2>2 DEF Finished, GalleryTypeOK, RowsInv
  <2>4. \A f \in Faces : Finished(f) \/ f \in Members(match.batch) => batchOf[f] # 0
    BY <2>1, GalleryConstantsOK DEF Finished
  <2> QED BY <2>1, <2>2, <2>3, <2>4 DEF RowsInv, Keeps, Embedded, Synced
<1> QED
  BY <1>1, <1>2, <1>3, <1>4, <1>5, <1>6, <1>7, <1>8, <1>9, <1>10, <1>11, <1>12, <1>13 DEF GalleryNext

-----------------------------------------------------------------------------
(* The band.                                                               *)

\* A step that leaves the band alone, and under which none of its backlog is replaced unnoticed.
LEMMA BandCarried ==
  ASSUME GalleryTypeOK, BandInv, Keeps, UNCHANGED band,
         \A x \in band.todo : x[1] \notin overtaken' => x[1] \notin overtaken /\ emb'[x[1]].vec = emb[x[1]].vec,
         \A f \in Faces : Synced(f)' /\ emb'[f].matched => Synced(f) /\ emb[f].matched
  PROVE  BandInv'
<1>1. \A x \in band.todo : x[1] \in Faces /\ Synced(x[1]) /\ Synced(x[1])'
  BY VectorParts DEF GalleryTypeOK, BandInv, Keeps
<1>2. \A x \in band.todo : x[1] \notin overtaken' => x = Current(x[1])'
  BY DEF BandInv, Current
<1>3. band.at = "SEARCH" =>
        \A f \in Faces : Synced(f)' /\ (emb'[f].matched \/ \E x \in band.todo : x[1] = f) => f \in band.known
  BY <1>1 DEF BandInv
<1> QED BY <1>1, <1>2, <1>3 DEF BandInv

LEMMA BandStep ==
  ASSUME GalleryTypeOK, RowsInv, MatchInv, BandInv, GalleryNext
  PROVE  BandInv'
<1>0. Keeps
  BY RowsStep
<1>1. ASSUME UNCHANGED <<band, emb, overtaken>>
      PROVE  BandInv'
  BY <1>0, <1>1, BandCarried DEF Synced, Embedded
<1>2. ASSUME NEW f \in Faces, Upload(f) \/ ComputeReads(f)
      PROVE  BandInv'
  BY <1>1, <1>2 DEF Upload, ComputeReads
<1>3. ASSUME NEW x \in tasks, ComputeEnds(x)
      PROVE  BandInv'
  BY <1>1, <1>3 DEF ComputeEnds
<1>4. ASSUME NEW x \in tasks, ComputeForIdentityFeature(x)
      PROVE  BandInv'
  <2>1. /\ x[1] \in Faces /\ ~emb'[x[1]].matched
        /\ \A f \in Faces : f # x[1] => emb'[f] = emb[f]
        /\ \A f \in Faces : f # x[1] => (f \in overtaken' <=> f \in overtaken)
        /\ x[1] \in InFlight => x[1] \in overtaken'
    BY <1>4, Upserted DEF ComputeForIdentityFeature
  <2>2. UNCHANGED band
    BY <1>4 DEF ComputeForIdentityFeature
  <2>3. \A y \in band.todo : y[1] \in Faces /\ y[1] \in InFlight
    BY VectorParts DEF GalleryTypeOK, InFlight
  <2>4. \A y \in band.todo : y[1] \notin overtaken' => y[1] \notin overtaken /\ emb'[y[1]].vec = emb[y[1]].vec
    BY <2>1, <2>3
  <2>5. \A f \in Faces : Synced(f)' /\ emb'[f].matched => Synced(f) /\ emb[f].matched
    BY <2>1 DEF Synced, Embedded
  <2> QED BY <1>0, <2>2, <2>4, <2>5, BandCarried
<1>5. CASE BandReads
  <2>1. /\ band' = [band EXCEPT !.at = "READ", !.todo = ListUnmatchedFeatureEmbeddings]
        /\ band.found = {} /\ emb' = emb
    BY <1>5 DEF BandReads, BandInv
  <2>2. \A x \in ListUnmatchedFeatureEmbeddings : Synced(x[1]) /\ x = Current(x[1])
    BY DEF ListUnmatchedFeatureEmbeddings, Rows, Synced, Current
  <2>3. band'.at = "READ" /\ band'.found = {} /\ band'.todo = ListUnmatchedFeatureEmbeddings
    BY <2>1 DEF GalleryTypeOK
  <2> QED BY <2>1, <2>2, <2>3 DEF BandInv, Synced, Embedded, Current
<1>6. CASE BandLoadsFeatures
  <2>1. band' = [band EXCEPT !.at = "SEARCH", !.known = {f \in Faces : photo[f] # 0}] /\ UNCHANGED <<emb, overtaken>>
        /\ band.found = {}
    BY <1>6 DEF BandLoadsFeatures, BandInv
  <2>2. /\ band'.at = "SEARCH" /\ band'.found = {} /\ band'.todo = band.todo
        /\ \A f \in Faces : Embedded(f) => f \in band'.known
    BY <2>1 DEF GalleryTypeOK, RowsInv
  <2> QED BY <2>1, <2>2 DEF BandInv, Synced, Embedded, Current
<1>7. ASSUME NEW x \in band.todo, BandSearches(x)
      PROVE  BandInv'
  <2>1. /\ band.at = "SEARCH" /\ band' = [band EXCEPT !.found = band'.found]
        /\ \A p \in band'.found : p \in band.found \/ \E y \in Vector : p = {x, y}
    BY <1>7, Found
  <2>2. band'.at = "SEARCH" /\ band'.todo = band.todo /\ band'.known = band.known
    BY <2>1 DEF GalleryTypeOK
  <2>3. UNCHANGED <<emb, overtaken>>
    BY <1>7 DEF BandSearches
  <2>4. \A p \in band'.found : \E a \in band.todo, y \in Vector : p = {a, y}
    BY <2>1 DEF BandInv
  <2> QED BY <2>1, <2>2, <2>3, <2>4 DEF BandInv, Synced, Embedded, Current
<1>8. CASE BandRecords \/ BandFails
  BY <1>8 DEF BandRecords, BandFails, NoBand, BandInv
<1>9. ASSUME NEW page \in SUBSET Known, EnrolPage(page)
      PROVE  BandInv'
  BY <1>1, <1>9 DEF EnrolPage
<1>10. ASSUME NEW result \in [enrol.found -> Outcomes], EnrolWrites(result)
       PROVE  BandInv'
  <2>1. \A f \in Faces : emb'[f] = emb[f] \/ (~Embedded(f) /\ emb'[f].path = "BULK")
    BY <1>10, Inserted
  <2>2. UNCHANGED <<band, overtaken>>
    BY <1>10 DEF EnrolWrites
  <2>3. \A y \in band.todo : y[1] \in Faces /\ Embedded(y[1])
    BY VectorParts DEF GalleryTypeOK, BandInv, Synced
  <2>4. \A y \in band.todo : y[1] \notin overtaken' => y[1] \notin overtaken /\ emb'[y[1]].vec = emb[y[1]].vec
    BY <2>1, <2>2, <2>3
  <2>5. \A f \in Faces : Synced(f)' /\ emb'[f].matched => Synced(f) /\ emb[f].matched
    BY <2>1 DEF Synced, Embedded
  <2> QED BY <1>0, <2>2, <2>4, <2>5, BandCarried
<1>11. CASE EnrolShards \/ EnrolDies \/ MatchResumes \/ MatchScores \/ MatchDies
  BY <1>1, <1>11 DEF EnrolShards, EnrolDies, MatchResumes, MatchScores, MatchDies
<1>12. ASSUME NEW taken \in SUBSET Known, NewBatch(taken)
       PROVE  BandInv'
  BY <1>1, <1>12 DEF NewBatch
<1>13. CASE MatchReads
  <2>1. \A f \in Faces : f \in Members(match.batch) => emb[f].path = "BULK"
    BY <1>13, MembersEmbedded DEF MatchReads, Members
  <2>2. UNCHANGED <<band, emb>> /\ overtaken' = overtaken \ Members(match.batch)
    BY <1>13 DEF MatchReads
  <2>3. \A y \in band.todo : y[1] \in Faces /\ emb[y[1]].path = "SYNC"
    BY VectorParts DEF GalleryTypeOK, BandInv, Synced
  <2>4. \A y \in band.todo : y[1] \notin overtaken' => y[1] \notin overtaken /\ emb'[y[1]].vec = emb[y[1]].vec
    BY <2>1, <2>2, <2>3
  <2> QED BY <1>0, <2>2, <2>4, BandCarried DEF Synced, Embedded
<1>14. CASE LoadScores
  <2>1. UNCHANGED <<band, overtaken>>
        /\ \A f \in Faces : /\ emb'[f].vec = emb[f].vec /\ emb'[f].path = emb[f].path
                            /\ emb'[f].matched <=> emb[f].matched \/ f \in Members(match.batch)
    BY <1>14, Marked DEF LoadScores
  <2>2. \A f \in Faces : f \in Members(match.batch) => emb[f].path = "BULK"
    BY <1>14, MembersEmbedded DEF LoadScores, Members
  <2>3. \A f \in Faces : Synced(f)' /\ emb'[f].matched => Synced(f) /\ emb[f].matched
    BY <2>1, <2>2 DEF Synced, Embedded
  <2>4. \A y \in band.todo : y[1] \notin overtaken' => y[1] \notin overtaken /\ emb'[y[1]].vec = emb[y[1]].vec
    BY <2>1, VectorParts DEF GalleryTypeOK
  <2> QED BY <1>0, <2>1, <2>3, <2>4, BandCarried
<1> QED
  BY <1>2, <1>3, <1>4, <1>5, <1>6, <1>7, <1>8, <1>9, <1>10, <1>11, <1>12, <1>13, <1>14 DEF GalleryNext

-----------------------------------------------------------------------------
(* The batch in flight.                                                    *)

\* A step that leaves the batch in flight alone, and finishes none.
LEMMA MatchCarried ==
  ASSUME GalleryTypeOK, MatchInv, Keeps, UNCHANGED <<match, batchOf, status>>
  PROVE  MatchInv'
<1>1. {f \in Faces : Finished(f)}' = {f \in Faces : Finished(f)}
  BY DEF Finished
<1>2. Members(match.batch)' = Members(match.batch)
  BY DEF Members
<1>3. match.at \in {"READ", "SCORED"} => \A y \in match.others : Synced(y[1])'
  BY VectorParts DEF GalleryTypeOK, MatchInv, Keeps
<1>4. match.at = "SCORED" =>
       \A p \in match.found : \E x, y \in Vector :
         /\ p = {x, y} /\ x[1] \in Members(match.batch)
         /\ Synced(y[1])' \/ y[1] \in Members(match.batch) \cup match.earlier
  <2> SUFFICES ASSUME match.at = "SCORED", NEW p \in match.found
               PROVE  \E x, y \in Vector :
                        /\ p = {x, y} /\ x[1] \in Members(match.batch)
                        /\ Synced(y[1])' \/ y[1] \in Members(match.batch) \cup match.earlier
    OBVIOUS
  <2>1. PICK x, y \in Vector : /\ p = {x, y} /\ x[1] \in Members(match.batch)
                               /\ Synced(y[1]) \/ y[1] \in Members(match.batch) \cup match.earlier
    BY DEF MatchInv
  <2>2. Synced(y[1]) => Synced(y[1])'
    BY VectorParts DEF Keeps
  <2> QED BY <2>1, <2>2
<1> QED BY <1>1, <1>2, <1>3, <1>4 DEF MatchInv

LEMMA MatchStep ==
  ASSUME GalleryTypeOK, RowsInv, MatchInv, BandInv, GalleryNext
  PROVE  MatchInv'
<1>0. Keeps
  BY RowsStep
<1>1. ASSUME UNCHANGED <<match, batchOf, status>>
      PROVE  MatchInv'
  BY <1>0, <1>1, MatchCarried
<1>2. ASSUME NEW f \in Faces, Upload(f) \/ ComputeReads(f)
      PROVE  MatchInv'
  BY <1>1, <1>2 DEF Upload, ComputeReads
<1>3. ASSUME NEW x \in tasks, ComputeForIdentityFeature(x) \/ ComputeEnds(x)
      PROVE  MatchInv'
  BY <1>1, <1>3 DEF ComputeForIdentityFeature, ComputeEnds
<1>4. CASE BandReads \/ BandLoadsFeatures \/ BandRecords \/ BandFails \/ EnrolShards \/ EnrolDies
  BY <1>1, <1>4 DEF BandReads, BandLoadsFeatures, BandRecords, BandFails, EnrolShards, EnrolDies
<1>5. ASSUME NEW x \in band.todo, BandSearches(x)
      PROVE  MatchInv'
  BY <1>1, <1>5 DEF BandSearches
<1>6. ASSUME NEW page \in SUBSET Known, EnrolPage(page)
      PROVE  MatchInv'
  BY <1>1, <1>6 DEF EnrolPage
<1>7. ASSUME NEW result \in [enrol.found -> Outcomes], EnrolWrites(result)
      PROVE  MatchInv'
  BY <1>1, <1>7 DEF EnrolWrites
<1>8. ASSUME NEW taken \in SUBSET Known, NewBatch(taken)
      PROVE  MatchInv'
  <2>1. PICK b \in 1..MaxBatches : /\ b # 0 /\ match.at = "NONE"
                                   /\ status' = [status EXCEPT ![b] = "SELECTED"]
                                   /\ match' = [match EXCEPT !.at = "SELECTED", !.batch = b]
    BY <1>8, TakenUp
  <2>2. match'.at = "SELECTED" /\ match'.batch = b /\ match'.found = {} /\ status'[b] = "SELECTED"
    BY <2>1 DEF GalleryTypeOK, MatchInv, NoMatch
  <2> QED BY <2>1, <2>2 DEF MatchInv
<1>9. CASE MatchResumes
  <2>1. Min(SelectedBatch) # 0 /\ status[Min(SelectedBatch)] = "SELECTED"
    BY <1>9, BatchesOK DEF MatchResumes, SelectedBatch
  <2>2. match'.at = "SELECTED" /\ match'.batch = Min(SelectedBatch) /\ match'.found = {} /\ status' = status
    BY <1>9 DEF MatchResumes, GalleryTypeOK, MatchInv, NoMatch
  <2> QED BY <2>1, <2>2 DEF MatchInv
<1>10. CASE MatchReads
  <2>1. match'.at = "READ" /\ match'.batch = match.batch /\ match'.found = {} /\ match'.others = Others
        /\ match'.earlier = {f \in Faces : Finished(f)}
    BY <1>10 DEF MatchReads, GalleryTypeOK, MatchInv, Finished
  <2>2. UNCHANGED <<emb, batchOf, status>> /\ match.batch # 0 /\ status[match.batch] = "SELECTED"
    BY <1>10 DEF MatchReads, MatchInv
  <2>3. \A y \in Others : Synced(y[1])
    BY DEF Others, Rows, Current, Synced
  <2> QED BY <2>1, <2>2, <2>3 DEF MatchInv, Synced, Embedded, Finished
<1>11. CASE MatchScores
  <2>1. PICK own, earlier \in SUBSET Vector :
          /\ match' = [match EXCEPT !.at = "SCORED",
                                    !.found = Pairings(own, own \cup earlier \cup match.others)]
          /\ \A x \in own : x[1] \in Members(match.batch)
          /\ \A x \in earlier : x[1] \in match.earlier
    BY <1>11, Scored, Zenon
  <2>2. /\ match'.at = "SCORED" /\ match'.batch = match.batch /\ match'.others = match.others
        /\ match'.earlier = match.earlier
        /\ match'.found = Pairings(own, own \cup earlier \cup match.others)
    BY <2>1 DEF GalleryTypeOK
  <2>3. match.at = "READ" /\ UNCHANGED <<emb, batchOf, status>>
    BY <1>11 DEF MatchScores
  <2>4. match.others \subseteq Vector /\ \A y \in match.others : Synced(y[1])
    BY <2>3 DEF MatchInv, GalleryTypeOK
  <2>5. \A p \in match'.found : \E x, y \in Vector :
          /\ p = {x, y} /\ x[1] \in Members(match.batch)
          /\ Synced(y[1]) \/ y[1] \in Members(match.batch) \cup match.earlier
    BY <2>1, <2>2, <2>4 DEF Pairings
  <2>6. match.earlier = {f \in Faces : Finished(f)} /\ match.batch # 0 /\ status[match.batch] = "SELECTED"
    BY <2>3 DEF MatchInv
  <2>7. \A f : /\ Synced(f)' <=> Synced(f)
               /\ Finished(f)' <=> Finished(f)
               /\ f \in Members(match.batch)' <=> f \in Members(match.batch)
    BY <2>2, <2>3 DEF Synced, Embedded, Finished, Members
  <2>8. {f \in Faces : Finished(f)}' = {f \in Faces : Finished(f)} /\ Members(match.batch)' = Members(match.batch)
    BY <2>2, <2>3 DEF Finished, Members
  <2>9. \A p \in match'.found : \E x, y \in Vector :
          /\ p = {x, y} /\ x[1] \in Members(match.batch)'
          /\ Synced(y[1])' \/ y[1] \in Members(match.batch)' \cup match'.earlier
    <3> SUFFICES ASSUME NEW p \in match'.found
                 PROVE  \E x, y \in Vector :
                          /\ p = {x, y} /\ x[1] \in Members(match.batch)'
                          /\ Synced(y[1])' \/ y[1] \in Members(match.batch)' \cup match'.earlier
      OBVIOUS
    <3>1. PICK x, y \in Vector : /\ p = {x, y} /\ x[1] \in Members(match.batch)
                                 /\ Synced(y[1]) \/ y[1] \in Members(match.batch) \cup match.earlier
      BY <2>5
    <3>2. match'.earlier = match.earlier
      BY <2>2
    <3>3. Synced(y[1])' <=> Synced(y[1])
      BY <2>7
    <3> QED BY <2>8, <3>1, <3>2, <3>3, Zenon
  <2>10. \A y \in match'.others : Synced(y[1])'
    BY <2>2, <2>4, <2>7
  <2> QED BY <2>2, <2>3, <2>6, <2>8, <2>9, <2>10 DEF MatchInv
<1>12. CASE LoadScores \/ MatchDies
  BY <1>12 DEF LoadScores, MatchDies, NoMatch, MatchInv
<1> QED
  BY <1>2, <1>3, <1>4, <1>5, <1>6, <1>7, <1>8, <1>9, <1>10, <1>11, <1>12 DEF GalleryNext

-----------------------------------------------------------------------------
(* The pairs.                                                              *)

\* What a batch took of a settled face is recorded: its batch is finished.
LEMMA SettledTook ==
  ASSUME GalleryTypeOK, RowsInv, MatchInv, NEW g \in Faces, Settled(g), emb[g].path = "BULK"
  PROVE  /\ Finished(g) /\ ~InBatch(g) /\ (match.at # "NONE" => batchOf[g] # match.batch)
         /\ \A y : Took(g, y) <=> {Current(g), y} \in compared
<1>1. Finished(g)
  BY DEF Settled, RowsInv
<1>2. match.at # "NONE" => batchOf[g] # match.batch
  BY <1>1 DEF Finished, MatchInv
<1> QED BY <1>1, <1>2 DEF Took, InBatch

\* What a step does to nobody's disadvantage: what is settled or in a run is so already, as it
\* was, and what is found or recorded stays.
Carries ==
  /\ \A f \in Faces :
       /\ Settled(f)' => Settled(f)
       /\ InBand(f)'  => InBand(f)
       /\ Looked(f)'  => Looked(f)
       /\ InBatch(f)' => InBatch(f)
       /\ Settled(f)' \/ InBand(f)' \/ InBatch(f)' => emb'[f].vec = emb[f].vec /\ emb'[f].path = emb[f].path
  /\ compared \subseteq compared'
  /\ band'.at = "SEARCH" => band.found \subseteq band'.found /\ band'.known = band.known
  /\ match'.at = "SCORED" => match.at = "SCORED" /\ match.found \subseteq match'.found
  /\ \A g \in Faces, y \in Vector :
       emb[g].path = "BULK" /\ (Settled(g)' \/ InBatch(g)') /\ Took(g, y) => Took(g, y)'

LEMMA PairsCarried ==
  ASSUME GalleryTypeOK, PairsInv, Carries
  PROVE  PairsInv'
<1> SUFFICES ASSUME NEW f \in Faces, NEW g \in Faces, f # g
             PROVE  /\ Synced(f)' /\ Synced(g)' => SyncSync(f, g)'
                    /\ Synced(f)' /\ emb'[g].path = "BULK" => SyncBulk(f, g)'
                    /\ emb'[f].path = "BULK" /\ emb'[g].path = "BULK" => BulkBulk(f, g)'
  BY DEF PairsInv
<1> DEFINE Active(h) == Settled(h)' \/ InBand(h)' \/ InBatch(h)'
<1>1. \A h \in Faces : Active(h) => /\ Current(h)' = Current(h)
                                    /\ Synced(h)' <=> Synced(h)
                                    /\ emb'[h].path = emb[h].path
                                    /\ Embedded(h)' <=> Embedded(h)
  BY DEF Carries, Current, Synced, Embedded
<1>2. \A h \in Faces : /\ Settled(h)' => Settled(h) /\ Active(h)
                       /\ InBand(h)'  => InBand(h) /\ Active(h) /\ band'.at = "SEARCH"
                       /\ Looked(h)'  => Looked(h) /\ Active(h) /\ band'.at = "SEARCH"
                       /\ InBatch(h)' => InBatch(h) /\ Active(h)
  BY DEF Carries, Looked, InBand
<1>3. compared \subseteq compared' /\ (band'.at = "SEARCH" => band.found \subseteq band'.found /\ band'.known = band.known)
      /\ (match'.at = "SCORED" => match.at = "SCORED" /\ match.found \subseteq match'.found)
  BY DEF Carries
<1> HIDE DEF Active
<1>4. Synced(f)' /\ Synced(g)' => SyncSync(f, g)'
  BY <1>1, <1>2, <1>3 DEF PairsInv, SyncSync
<1>5. ASSUME Synced(f)', emb'[g].path = "BULK", Settled(g)' \/ InBatch(g)'
      PROVE  /\ Settled(f)' => Took(g, Current(f))'
             /\ Looked(f)' => Took(g, Current(f))' \/ {Current(f), Current(g)}' \in band'.found
             /\ InBand(f)' /\ g \notin band'.known => Took(g, Current(f))'
  <2>1. emb[g].path = "BULK" /\ (Settled(g) \/ InBatch(g)) /\ Current(g)' = Current(g)
    BY <1>1, <1>2, <1>5
  <2> SUFFICES ASSUME Settled(f)' \/ InBand(f)' \/ Looked(f)'
               PROVE  /\ Settled(f)' => Took(g, Current(f))'
                      /\ Looked(f)' => Took(g, Current(f))' \/ {Current(f), Current(g)}' \in band'.found
                      /\ InBand(f)' /\ g \notin band'.known => Took(g, Current(f))'
    OBVIOUS
  <2>2. Synced(f) /\ Current(f)' = Current(f)
    BY <1>1, <1>2, <1>5
  <2>3. PICK y \in Vector : y = Current(f)
    BY <2>2, CurrentIsVector DEF Synced
  <2>4. Took(g, y) => Took(g, y)'
    BY <1>5, <2>1 DEF Carries
  <2>5. Took(g, Current(f))' <=> Took(g, y)'
    BY <2>2, <2>3 DEF Took
  <2>6. SyncBulk(f, g)
    BY <2>1, <2>2 DEF PairsInv
  <2> QED BY <1>2, <1>3, <2>1, <2>2, <2>3, <2>4, <2>5, <2>6 DEF SyncBulk
<1>6. emb'[f].path = "BULK" /\ emb'[g].path = "BULK" => BulkBulk(f, g)'
  BY <1>1, <1>2, <1>3 DEF PairsInv, BulkBulk
<1> QED BY <1>4, <1>5, <1>6 DEF SyncBulk

LEMMA UpsertPairs ==
  ASSUME GalleryTypeOK, PairsInv, NEW x \in tasks, ComputeForIdentityFeature(x)
  PROVE  PairsInv'
<1>1. /\ x[1] \in Faces /\ ~emb'[x[1]].matched
      /\ \A f \in Faces : f # x[1] => emb'[f] = emb[f]
      /\ \A f \in Faces : f # x[1] => (f \in overtaken' <=> f \in overtaken)
      /\ x[1] \in InFlight => x[1] \in overtaken'
  BY Upserted DEF ComputeForIdentityFeature
<1>2. UNCHANGED <<shards, batchOf, status, band, match, compared>>
  BY DEF ComputeForIdentityFeature
<1>3. ~Settled(x[1])' /\ ~InBatch(x[1])' /\ ~InBand(x[1])' /\ ~Looked(x[1])'
  <2>1. ~Settled(x[1])'
    BY <1>1 DEF Settled
  <2>2. InBatch(x[1])' => x[1] \in InFlight
    BY <1>1, <1>2 DEF InBatch, InFlight
  <2>3. InBand(x[1])' => x[1] \in InFlight
    <3>1. Current(x[1])'[1] = x[1]
      BY DEF Current
    <3> QED BY <1>2, <3>1 DEF InBand, InFlight
  <2> QED BY <1>1, <2>1, <2>2, <2>3 DEF InBatch, InBand, Looked
<1>4. ASSUME NEW f \in Faces, f # x[1]
      PROVE  /\ Settled(f)' <=> Settled(f)
             /\ InBand(f)' <=> InBand(f)
             /\ Looked(f)' <=> Looked(f)
             /\ InBatch(f)' <=> InBatch(f)
             /\ Current(f)' = Current(f)
             /\ \A y : Took(f, y)' <=> Took(f, y)
  BY <1>1, <1>2, <1>4 DEF Settled, InBand, Looked, InBatch, Current, Took
<1>5. Carries
  BY <1>1, <1>2, <1>3, <1>4 DEF Carries
<1> QED BY <1>5, PairsCarried

\* A step of the band or of a page, that nobody's pairs are of.
LEMMA AsidePairs ==
  ASSUME GalleryTypeOK, PairsInv, UNCHANGED <<batchOf, match, compared>>,
         band'.at = "SEARCH" => band' = band,
         \A f \in Faces : shards[f] \subseteq shards'[f],
         \A f \in Faces : Settled(f)' \/ InBand(f)' \/ InBatch(f)' =>
           emb'[f] = emb[f] /\ f \notin overtaken
  PROVE  PairsInv'
<1>1. ASSUME NEW f \in Faces, Settled(f)' \/ InBand(f)' \/ InBatch(f)'
      PROVE  /\ Current(f)' = Current(f)
             /\ Settled(f)' => Settled(f)
             /\ InBand(f)' => InBand(f)
             /\ Looked(f)' => Looked(f)
             /\ InBatch(f)' => InBatch(f)
             /\ \A y : Took(f, y) => Took(f, y)'
  <2>1. emb'[f] = emb[f] /\ f \notin overtaken /\ shards[f] \subseteq shards'[f] /\ UNCHANGED <<batchOf, match, compared>>
    BY <1>1
  <2>2. Current(f)' = Current(f)
    BY <2>1 DEF Current
  <2>3. InBand(f)' => InBand(f)
    BY <2>1, <2>2 DEF InBand
  <2>4. Looked(f)' => Looked(f)
    BY <2>2, <2>3 DEF Looked, InBand
  <2> QED BY <2>1, <2>2, <2>3, <2>4 DEF Settled, InBatch, Took
<1>2. \A f \in Faces : Looked(f)' => InBand(f)'
  BY DEF Looked
<1>3. Carries
  BY <1>1, <1>2 DEF Carries
<1> QED BY <1>3, PairsCarried

LEMMA BandReadsPairs ==
  ASSUME GalleryTypeOK, RowsInv, MatchInv, PairsInv, BandReads \/ BandFails
  PROVE  PairsInv'
<1>1. UNCHANGED <<emb, shards, batchOf, match, compared>> /\ band'.at # "SEARCH"
  <2>1. CASE BandReads
    BY <2>1 DEF BandReads, GalleryTypeOK
  <2>2. CASE BandFails
    BY <2>2 DEF BandFails, NoBand
  <2> QED BY <2>1, <2>2
<1>2. ASSUME NEW f \in Faces, f \in overtaken, f \notin overtaken'
      PROVE  ~emb[f].matched /\ emb[f].path = "SYNC"
  <2>1. BandReads
    BY <1>2 DEF BandFails
  <2>2. band'.todo = ListUnmatchedFeatureEmbeddings /\ overtaken' = overtaken \ {x[1] : x \in band'.todo}
    BY <2>1 DEF BandReads, GalleryTypeOK
  <2>3. \A x \in ListUnmatchedFeatureEmbeddings : ~emb[x[1]].matched /\ emb[x[1]].path = "SYNC"
    BY DEF ListUnmatchedFeatureEmbeddings, Current
  <2> QED BY <1>2, <2>2, <2>3
<1>3. ASSUME NEW f \in Faces, Settled(f)' \/ InBand(f)' \/ InBatch(f)'
      PROVE  f \notin overtaken
  <2>1. ~InBand(f)'
    BY <1>1 DEF InBand
  <2>2. InBatch(f)' => emb[f].path = "BULK"
    BY <1>1 DEF InBatch, RowsInv, MatchInv
  <2>3. Settled(f)' => emb[f].matched
    BY <1>1 DEF Settled
  <2>4. f \notin overtaken'
    BY <1>3, <2>1 DEF Settled, InBatch
  <2> QED BY <1>2, <1>3, <2>1, <2>2, <2>3, <2>4
<1> QED BY <1>1, <1>3, AsidePairs

LEMMA EnrolPairs ==
  ASSUME GalleryTypeOK, RowsInv, BandInv, MatchInv, PairsInv,
         EnrolShards \/ \E result \in [enrol.found -> Outcomes] : EnrolWrites(result)
  PROVE  PairsInv'
<1>1. UNCHANGED <<batchOf, match, compared, band, overtaken>> /\ \A f \in Faces : shards[f] \subseteq shards'[f]
  BY DEF EnrolShards, EnrolWrites
<1>2. ASSUME NEW f \in Faces, Settled(f)' \/ InBand(f)' \/ InBatch(f)'
      PROVE  emb'[f] = emb[f] /\ f \notin overtaken
  <2>1. f \notin overtaken
    BY <1>1, <1>2 DEF Settled, InBand, InBatch
  <2>2. CASE EnrolShards
    BY <2>1, <2>2 DEF EnrolShards
  <2>3. ASSUME NEW result \in [enrol.found -> Outcomes], EnrolWrites(result)
        PROVE  emb'[f] = emb[f]
    <3>1. \/ emb'[f] = emb[f]
          \/ ~Embedded(f) /\ emb'[f].path = "BULK" /\ ~emb'[f].matched
      BY <2>3, Inserted
    <3>2. InBand(f)' => Embedded(f)
      <4>1. Current(f)'[1] = f
        BY DEF Current
      <4> QED BY <1>1, <4>1 DEF InBand, BandInv, Synced
    <3>3. InBatch(f)' => Embedded(f)
      BY <1>1 DEF InBatch, RowsInv, MatchInv
    <3> QED BY <1>2, <3>1, <3>2, <3>3 DEF Settled
  <2> QED BY <2>1, <2>2, <2>3
<1> QED BY <1>1, <1>2, AsidePairs

\* A batch begins, is taken up, or dies: only what is settled counts, and that is recorded.
LEMMA BatchPairs ==
  ASSUME GalleryTypeOK, RowsInv, MatchInv, PairsInv,
         MatchResumes \/ MatchDies \/ \E taken \in SUBSET Known : NewBatch(taken)
  PROVE  PairsInv'
<1>1. UNCHANGED <<emb, shards, band, overtaken, compared>> /\ match'.at \notin {"READ", "SCORED"}
  <2>1. CASE MatchResumes
    BY <2>1 DEF MatchResumes, GalleryTypeOK
  <2>2. CASE MatchDies
    BY <2>2 DEF MatchDies, NoMatch
  <2>3. ASSUME NEW taken \in SUBSET Known, NewBatch(taken)
        PROVE  UNCHANGED <<emb, shards, band, overtaken, compared>> /\ match'.at = "SELECTED"
    BY <2>3, TakenUp DEF NewBatch, GalleryTypeOK
  <2> QED BY <2>1, <2>2, <2>3
<1>2. \A f \in Faces : /\ Settled(f)' <=> Settled(f)
                       /\ InBand(f)' <=> InBand(f)
                       /\ Looked(f)' <=> Looked(f)
                       /\ ~InBatch(f)'
                       /\ Current(f)' = Current(f)
  BY <1>1 DEF Settled, InBand, Looked, InBatch, Current
<1>3. \A g \in Faces, y \in Vector : emb[g].path = "BULK" /\ Settled(g) /\ Took(g, y) => Took(g, y)'
  <2> SUFFICES ASSUME NEW g \in Faces, NEW y \in Vector, emb[g].path = "BULK", Settled(g), Took(g, y)
               PROVE  Took(g, y)'
    OBVIOUS
  <2>1. {Current(g), y} \in compared
    BY SettledTook
  <2> QED BY <1>1, <1>2, <2>1 DEF Took
<1>4. Carries
  BY <1>1, <1>2, <1>3 DEF Carries
<1> QED BY <1>4, PairsCarried

LEMMA BandLoadsPairs ==
  ASSUME GalleryTypeOK, RowsInv, BandInv, PairsInv, BandLoadsFeatures
  PROVE  PairsInv'
<1>1. /\ UNCHANGED <<emb, shards, batchOf, status, match, compared, overtaken>>
      /\ band'.found = {} /\ \A f \in Faces : Embedded(f) => f \in band'.known
  BY DEF BandLoadsFeatures, GalleryTypeOK, BandInv, RowsInv
<1>2. \A f \in Faces : /\ Settled(f)' <=> Settled(f)
                       /\ InBatch(f)' <=> InBatch(f)
                       /\ Current(f)' = Current(f)
                       /\ ~Looked(f)'
                       /\ Synced(f)' <=> Synced(f)
                       /\ emb'[f] = emb[f]
                       /\ emb[f].path = "BULK" => f \in band'.known
                       /\ \A y : Took(f, y)' <=> Took(f, y)
  BY <1>1 DEF Settled, InBatch, Current, Looked, Synced, Embedded, Took, RowsInv
<1> SUFFICES ASSUME NEW f \in Faces, NEW g \in Faces, f # g
             PROVE  /\ Synced(f)' /\ Synced(g)' => SyncSync(f, g)'
                    /\ Synced(f)' /\ emb'[g].path = "BULK" => SyncBulk(f, g)'
                    /\ emb'[f].path = "BULK" /\ emb'[g].path = "BULK" => BulkBulk(f, g)'
  BY DEF PairsInv
<1>3. Synced(f)' /\ Synced(g)' => SyncSync(f, g)'
  BY <1>1, <1>2 DEF PairsInv, SyncSync
<1>4. Synced(f)' /\ emb'[g].path = "BULK" => SyncBulk(f, g)'
  <2> SUFFICES ASSUME Synced(f), emb[g].path = "BULK", Settled(g) \/ InBatch(g), Settled(f)
               PROVE  Took(g, Current(f))'
    BY <1>2 DEF SyncBulk
  <2>1. Took(g, Current(f))
    BY DEF PairsInv, SyncBulk
  <2> QED BY <1>1, <1>2, <2>1 DEF Took
<1>5. emb'[f].path = "BULK" /\ emb'[g].path = "BULK" => BulkBulk(f, g)'
  BY <1>1, <1>2 DEF PairsInv, BulkBulk
<1> QED BY <1>3, <1>4, <1>5

LEMMA BandSearchesPairs ==
  ASSUME GalleryTypeOK, RowsInv, BandInv, PairsInv, NEW x \in band.todo, BandSearches(x)
  PROVE  PairsInv'
<1>1. UNCHANGED <<emb, shards, batchOf, status, match, compared, overtaken>>
  BY DEF BandSearches
<1>2. /\ band.at = "SEARCH" /\ band' = [band EXCEPT !.found = band'.found]
      /\ band.found \subseteq band'.found
      /\ \A g \in Faces : g # x[1] /\ g \in band.known /\ Embedded(g) => {x, Current(g)} \in band'.found
      /\ \A y : {y} \in band'.found => {y} \in band.found \/ y = x
  BY Found
<1>3. band'.at = "SEARCH" /\ band'.todo = band.todo /\ band'.known = band.known
  BY <1>2 DEF GalleryTypeOK
<1>4. \A f \in Faces : /\ Settled(f)' <=> Settled(f)
                       /\ InBatch(f)' <=> InBatch(f)
                       /\ Current(f)' = Current(f)
                       /\ Synced(f)' <=> Synced(f)
                       /\ emb'[f] = emb[f]
                       /\ InBand(f)' <=> InBand(f)
                       /\ Looked(f)' => InBand(f) /\ (Looked(f) \/ Current(f) = x)
                       /\ \A y : Took(f, y)' <=> Took(f, y)
  BY <1>1, <1>2, <1>3 DEF Settled, InBatch, InBand, Current, Looked, Synced, Embedded, Took
<1> SUFFICES ASSUME NEW f \in Faces, NEW g \in Faces, f # g
             PROVE  /\ Synced(f)' /\ Synced(g)' => SyncSync(f, g)'
                    /\ Synced(f)' /\ emb'[g].path = "BULK" => SyncBulk(f, g)'
                    /\ emb'[f].path = "BULK" /\ emb'[g].path = "BULK" => BulkBulk(f, g)'
  BY DEF PairsInv
<1>5. ASSUME Synced(f), Synced(g)
      PROVE  SyncSync(f, g)'
  <2>1. ASSUME Current(f) = x, InBand(g) \/ Settled(g)
        PROVE  {Current(f), Current(g)} \in band'.found
    <3>1. g \in band.known
      <4>1. Current(g)[1] = g
        BY DEF Current
      <4> QED BY <1>2, <1>5, <2>1, <4>1 DEF BandInv, InBand, Settled
    <3>2. g # x[1] /\ Embedded(g)
      BY <1>5, <2>1 DEF Current, Synced
    <3> QED BY <1>2, <2>1, <3>1, <3>2
  <2>2. SyncSync(f, g)
    BY <1>5 DEF PairsInv
  <2> QED BY <1>1, <1>2, <1>4, <2>1, <2>2 DEF SyncSync
<1>6. ASSUME Synced(f), emb[g].path = "BULK", Settled(g) \/ InBatch(g)
      PROVE  /\ Settled(f) => Took(g, Current(f))
             /\ Looked(f)' => Took(g, Current(f)) \/ {Current(f), Current(g)} \in band'.found
             /\ InBand(f) /\ g \notin band.known => Took(g, Current(f))
  <2>1. SyncBulk(f, g)
    BY <1>6 DEF PairsInv
  <2>2. ASSUME Current(f) = x, g \in band.known
        PROVE  {Current(f), Current(g)} \in band'.found
    <3>1. g # x[1] /\ Embedded(g)
      BY <1>6, <2>2 DEF Current, RowsInv
    <3> QED BY <1>2, <2>2, <3>1
  <2> QED BY <1>2, <1>4, <1>6, <2>1, <2>2 DEF SyncBulk
<1>7. Took(g, Current(f))' <=> Took(g, Current(f))
  BY <1>1, <1>4 DEF Took
<1>8. Synced(f)' /\ emb'[g].path = "BULK" => SyncBulk(f, g)'
  BY <1>3, <1>4, <1>6, <1>7 DEF SyncBulk
<1>9. emb'[f].path = "BULK" /\ emb'[g].path = "BULK" => BulkBulk(f, g)'
  BY <1>1, <1>4 DEF PairsInv, BulkBulk
<1> QED BY <1>4, <1>5, <1>8, <1>9

LEMMA BandRecordsPairs ==
  ASSUME GalleryTypeOK, RowsInv, BandInv, PairsInv, BandRecords
  PROVE  PairsInv'
<1>1. /\ UNCHANGED <<shards, batchOf, status, match, overtaken>>
      /\ compared' = compared \cup band.found /\ band'.at = "NONE" /\ band.at = "SEARCH"
      /\ \A f \in Faces : /\ emb'[f].vec = emb[f].vec /\ emb'[f].path = emb[f].path
                          /\ emb'[f].matched => emb[f].matched \/ \E x \in band.todo : x[1] = f
  BY Marked DEF BandRecords, NoBand
<1>2. ASSUME NEW f \in Faces, Settled(f)'
      PROVE  Settled(f) \/ (Looked(f) /\ Synced(f))
  <2>1. f \notin overtaken /\ shards[f] \subseteq {emb[f].vec} /\ emb'[f].matched
    BY <1>1, <1>2 DEF Settled
  <2> SUFFICES ASSUME NEW x \in band.todo, x[1] = f
               PROVE  Looked(f) /\ Synced(f)
    BY <1>1, <2>1 DEF Settled
  <2>2. x = Current(f) /\ Synced(f)
    BY <2>1 DEF BandInv
  <2>3. {x} \in band.found
    BY DEF BandRecords, Searched
  <2> QED BY <1>1, <2>1, <2>2, <2>3 DEF Looked, InBand
<1>3. \A f \in Faces : /\ InBatch(f)' <=> InBatch(f)
                       /\ Current(f)' = Current(f)
                       /\ Synced(f)' <=> Synced(f)
                       /\ ~InBand(f)' /\ ~Looked(f)'
                       /\ Looked(f) => InBand(f)
                       /\ \A y : Took(f, y) => Took(f, y)'
  BY <1>1 DEF InBatch, InBand, Current, Looked, Synced, Embedded, Took
<1> SUFFICES ASSUME NEW f \in Faces, NEW g \in Faces, f # g
             PROVE  /\ Synced(f)' /\ Synced(g)' => SyncSync(f, g)'
                    /\ Synced(f)' /\ emb'[g].path = "BULK" => SyncBulk(f, g)'
                    /\ emb'[f].path = "BULK" /\ emb'[g].path = "BULK" => BulkBulk(f, g)'
  BY DEF PairsInv
<1>4. ASSUME Synced(f), Synced(g), Settled(f)', Settled(g)'
      PROVE  {Current(f), Current(g)} \in compared'
  <2>1. SyncSync(f, g) /\ SyncSync(g, f)
    BY <1>4 DEF PairsInv
  <2>2. {Current(f), Current(g)} = {Current(g), Current(f)}
    OBVIOUS
  <2>3. (Settled(f) \/ Looked(f)) /\ (Settled(g) \/ Looked(g))
    BY <1>2, <1>4
  <2> QED BY <1>1, <1>3, <2>1, <2>2, <2>3 DEF SyncSync
<1>5. ASSUME Synced(f), emb[g].path = "BULK", Settled(g)' \/ InBatch(g), Settled(f)'
      PROVE  Took(g, Current(f))'
  <2>1. Settled(g) \/ InBatch(g)
    BY <1>2, <1>5 DEF Synced
  <2>2. SyncBulk(f, g) /\ (Settled(f) \/ Looked(f))
    BY <1>2, <1>5 DEF PairsInv
  <2>3. Took(g, Current(f)) \/ {Current(f), Current(g)} \in band.found
    BY <2>1, <2>2 DEF SyncBulk
  <2>4. CASE Took(g, Current(f))
    BY <1>1, <1>3, <2>4 DEF Took
  <2>5. CASE {Current(f), Current(g)} \in band.found
    <3>1. {Current(f), Current(g)} = {Current(g), Current(f)}
      OBVIOUS
    <3> QED BY <1>1, <1>3, <2>5, <3>1 DEF Took
  <2> QED BY <2>3, <2>4, <2>5
<1>6. Synced(f)' /\ Synced(g)' => SyncSync(f, g)'
  BY <1>3, <1>4 DEF SyncSync
<1>7. Synced(f)' /\ emb'[g].path = "BULK" => SyncBulk(f, g)'
  BY <1>1, <1>3, <1>5 DEF SyncBulk
<1>8. emb'[f].path = "BULK" /\ emb'[g].path = "BULK" => BulkBulk(f, g)'
  <2>1. emb[f].path = "BULK" /\ emb[g].path = "BULK" /\ Settled(f)' => Settled(f)
    BY <1>2 DEF Synced
  <2>2. emb[f].path = "BULK" /\ emb[g].path = "BULK" /\ Settled(g)' => Settled(g)
    BY <1>2 DEF Synced
  <2> QED BY <1>1, <1>3, <2>1, <2>2 DEF PairsInv, BulkBulk
<1> QED BY <1>6, <1>7, <1>8

LEMMA MatchReadsPairs ==
  ASSUME GalleryTypeOK, RowsInv, BandInv, MatchInv, PairsInv, MatchReads
  PROVE  PairsInv'
<1>1. /\ UNCHANGED <<emb, shards, batchOf, status, band, compared>>
      /\ overtaken' = overtaken \ Members(match.batch)
      /\ match.at = "SELECTED" /\ match'.at = "READ" /\ match'.batch = match.batch /\ match'.others = Others
  BY DEF MatchReads, GalleryTypeOK
<1>2. \A f \in Faces : f \in Members(match.batch) =>
        emb[f].path = "BULK" /\ ~emb[f].matched /\ batchOf[f] = match.batch
  BY <1>1, MembersEmbedded DEF Members, RowsInv
<1>3. \A f \in Faces : /\ Settled(f)' <=> Settled(f)
                       /\ Current(f)' = Current(f)
                       /\ Synced(f)' <=> Synced(f)
                       /\ Synced(f) => (InBand(f)' <=> InBand(f)) /\ (Looked(f)' <=> Looked(f))
                       /\ InBatch(f)' => batchOf[f] = match.batch
                       /\ Synced(f) => Current(f) \in Others
  BY <1>1, <1>2 DEF Settled, InBatch, Current, InBand, Looked, Synced, Embedded, Others, Rows
<1> SUFFICES ASSUME NEW f \in Faces, NEW g \in Faces, f # g
             PROVE  /\ Synced(f)' /\ Synced(g)' => SyncSync(f, g)'
                    /\ Synced(f)' /\ emb'[g].path = "BULK" => SyncBulk(f, g)'
                    /\ emb'[f].path = "BULK" /\ emb'[g].path = "BULK" => BulkBulk(f, g)'
  BY DEF PairsInv
<1>4. Synced(f)' /\ Synced(g)' => SyncSync(f, g)'
  BY <1>1, <1>3 DEF PairsInv, SyncSync
<1>5. ASSUME Synced(f), emb[g].path = "BULK", InBatch(g)'
      PROVE  Took(g, Current(f))'
  BY <1>1, <1>3, <1>5 DEF Took
<1>6. ASSUME Synced(f), emb[g].path = "BULK", Settled(g)
      PROVE  /\ Settled(f) => Took(g, Current(f))'
             /\ Looked(f) => Took(g, Current(f))' \/ {Current(f), Current(g)} \in band.found
             /\ InBand(f) /\ g \notin band.known => Took(g, Current(f))'
  <2>1. SyncBulk(f, g)
    BY <1>6 DEF PairsInv
  <2>2. Took(g, Current(f)) <=> {Current(g), Current(f)} \in compared
    BY <1>6, SettledTook
  <2>3. Took(g, Current(f)) => Took(g, Current(f))'
    BY <1>1, <1>3, <2>2 DEF Took
  <2> QED BY <1>6, <2>1, <2>3 DEF SyncBulk
<1>7. Synced(f)' /\ emb'[g].path = "BULK" => SyncBulk(f, g)'
  BY <1>1, <1>3, <1>5, <1>6 DEF SyncBulk
<1>8. emb'[f].path = "BULK" /\ emb'[g].path = "BULK" => BulkBulk(f, g)'
  BY <1>1, <1>3 DEF PairsInv, BulkBulk
<1> QED BY <1>4, <1>7, <1>8

LEMMA MatchScoresPairs ==
  ASSUME GalleryTypeOK, RowsInv, BandInv, MatchInv, PairsInv, MatchScores
  PROVE  PairsInv'
<1>1. UNCHANGED <<emb, batchOf, status, band, compared, overtaken>>
  BY DEF MatchScores
<1>2. PICK own, earlier \in SUBSET Vector :
        /\ match' = [match EXCEPT !.at = "SCORED",
                                  !.found = Pairings(own, own \cup earlier \cup match.others)]
        /\ \A f \in Members(match.batch) : shards'[f] \subseteq {emb[f].vec} => Current(f) \in own
        /\ \A f \in match.earlier : shards'[f] \subseteq {emb[f].vec} => Current(f) \in earlier
  BY Scored, Zenon
<1>3. /\ match'.at = "SCORED" /\ match'.batch = match.batch
      /\ \A x \in own, y \in own \cup earlier \cup match.others : {x, y} \in match'.found
  BY <1>2 DEF GalleryTypeOK, Pairings
<1>4. match.at = "READ" /\ match.earlier = {f \in Faces : Finished(f)}
  BY Scored DEF MatchInv
<1>5. \A f \in Faces : shards'[f] \subseteq {emb[f].vec} <=> shards[f] \subseteq {emb[f].vec}
  <2> DEFINE want == Members(match.batch) \cup match.earlier
  <2>1. want \in SUBSET Faces /\ \A f \in want : Embedded(f)
    BY <1>4, MembersEmbedded DEF Members
  <2>2. shards' = Filled(want)
    BY Scored
  <2> HIDE DEF want
  <2> QED BY <2>1, <2>2, ShardsFilled
<1>6. \A f \in Faces : /\ Settled(f)' <=> Settled(f)
                       /\ InBatch(f)' <=> InBatch(f)
                       /\ Current(f)' = Current(f)
                       /\ Synced(f)' <=> Synced(f)
                       /\ InBand(f)' <=> InBand(f)
                       /\ Looked(f)' <=> Looked(f)
  BY <1>1, <1>3, <1>4, <1>5 DEF Settled, InBatch, Current, InBand, Looked, Synced, Embedded
<1>7. ASSUME NEW f \in Faces, InBatch(f)
      PROVE  Current(f) \in own
  BY <1>2, <1>5, <1>7 DEF InBatch, Members
<1>8. ASSUME NEW f \in Faces, Settled(f), emb[f].path = "BULK"
      PROVE  Current(f) \in earlier
  <2>1. f \in match.earlier
    BY <1>4, <1>8, SettledTook
  <2> QED BY <1>2, <1>5, <1>8, <2>1 DEF Settled
<1> SUFFICES ASSUME NEW f \in Faces, NEW g \in Faces, f # g
             PROVE  /\ Synced(f)' /\ Synced(g)' => SyncSync(f, g)'
                    /\ Synced(f)' /\ emb'[g].path = "BULK" => SyncBulk(f, g)'
                    /\ emb'[f].path = "BULK" /\ emb'[g].path = "BULK" => BulkBulk(f, g)'
  BY DEF PairsInv
<1>9. Synced(f)' /\ Synced(g)' => SyncSync(f, g)'
  BY <1>1, <1>6 DEF PairsInv, SyncSync
<1>10. ASSUME Synced(f), emb[g].path = "BULK", Settled(g) \/ InBatch(g), Took(g, Current(f))
       PROVE  Took(g, Current(f))'
  <2>1. CASE Settled(g)
    <3>1. {Current(g), Current(f)} \in compared
      BY <1>10, <2>1, SettledTook
    <3> QED BY <1>1, <1>6, <3>1 DEF Took
  <2>2. CASE InBatch(g)
    <3>1. Current(g) \in own
      BY <1>7, <2>2
    <3>2. batchOf[g] = match.batch
      BY <2>2 DEF InBatch
    <3>3. Current(f) \in match.others \/ {Current(g), Current(f)} \in compared
      BY <1>4, <1>10 DEF Took
    <3>4. {Current(g), Current(f)} \in match'.found \/ {Current(g), Current(f)} \in compared
      BY <1>3, <3>1, <3>3
    <3> QED BY <1>1, <1>3, <1>6, <3>2, <3>4 DEF Took
  <2> QED BY <1>10, <2>1, <2>2
<1>11. Synced(f)' /\ emb'[g].path = "BULK" => SyncBulk(f, g)'
  <2> SUFFICES ASSUME Synced(f), emb[g].path = "BULK", Settled(g) \/ InBatch(g)
               PROVE  /\ Settled(f) => Took(g, Current(f))'
                      /\ Looked(f) => Took(g, Current(f))' \/ {Current(f), Current(g)} \in band.found
                      /\ InBand(f) /\ g \notin band.known => Took(g, Current(f))'
    BY <1>1, <1>6 DEF SyncBulk
  <2>1. SyncBulk(f, g)
    BY DEF PairsInv
  <2> QED BY <1>10, <2>1 DEF SyncBulk
<1>12. emb'[f].path = "BULK" /\ emb'[g].path = "BULK" => BulkBulk(f, g)'
  <2>1. emb[f].path = "BULK" /\ emb[g].path = "BULK" => BulkBulk(f, g)
    BY DEF PairsInv
  <2> QED BY <1>1, <1>3, <1>6, <1>7, <1>8, <2>1 DEF BulkBulk
<1> QED BY <1>9, <1>11, <1>12

LEMMA LoadScoresPairs ==
  ASSUME GalleryTypeOK, RowsInv, BandInv, MatchInv, PairsInv, LoadScores
  PROVE  PairsInv'
<1>1. /\ UNCHANGED <<shards, batchOf, band, overtaken>>
      /\ compared' = compared \cup match.found /\ match.at = "SCORED" /\ match'.at = "NONE"
      /\ \A f \in Faces : /\ emb'[f].vec = emb[f].vec /\ emb'[f].path = emb[f].path
                          /\ emb'[f].matched <=> emb[f].matched \/ f \in Members(match.batch)
  BY Marked DEF LoadScores, NoMatch
<1>2. \A f \in Faces : /\ Settled(f)' => Settled(f) \/ InBatch(f)
                       /\ Synced(f) /\ Settled(f)' => Settled(f)
                       /\ ~InBatch(f)'
                       /\ Current(f)' = Current(f)
                       /\ Synced(f)' <=> Synced(f)
                       /\ InBand(f)' <=> InBand(f)
                       /\ Looked(f)' <=> Looked(f)
  <2>1. \A f \in Faces : f \in Members(match.batch) => emb[f].path = "BULK" /\ batchOf[f] = match.batch
    BY <1>1, MembersEmbedded DEF Members
  <2> QED BY <1>1, <2>1 DEF Settled, InBatch, Current, InBand, Looked, Synced, Embedded
<1>3. \A g \in Faces : \A y : Took(g, y) => Took(g, y)'
  BY <1>1, <1>2 DEF Took
<1> SUFFICES ASSUME NEW f \in Faces, NEW g \in Faces, f # g
             PROVE  /\ Synced(f)' /\ Synced(g)' => SyncSync(f, g)'
                    /\ Synced(f)' /\ emb'[g].path = "BULK" => SyncBulk(f, g)'
                    /\ emb'[f].path = "BULK" /\ emb'[g].path = "BULK" => BulkBulk(f, g)'
  BY DEF PairsInv
<1>4. Synced(f)' /\ Synced(g)' => SyncSync(f, g)'
  BY <1>1, <1>2 DEF PairsInv, SyncSync
<1>5. Synced(f)' /\ emb'[g].path = "BULK" => SyncBulk(f, g)'
  <2> SUFFICES ASSUME Synced(f), emb[g].path = "BULK", Settled(g) \/ InBatch(g)
               PROVE  /\ Settled(f) => Took(g, Current(f))'
                      /\ Looked(f) => Took(g, Current(f))' \/ {Current(f), Current(g)} \in band.found
                      /\ InBand(f) /\ g \notin band.known => Took(g, Current(f))'
    BY <1>1, <1>2 DEF SyncBulk
  <2>1. SyncBulk(f, g)
    BY DEF PairsInv
  <2>2. Took(g, Current(f)) => Took(g, Current(f))'
    BY <1>1, <1>2 DEF Took
  <2> QED BY <2>1, <2>2 DEF SyncBulk
<1>6. ASSUME emb[f].path = "BULK", emb[g].path = "BULK", Settled(f)', Settled(g)'
      PROVE  {Current(f), Current(g)} \in compared'
  <2>1. BulkBulk(f, g) /\ BulkBulk(g, f)
    BY <1>6 DEF PairsInv
  <2>2. {Current(f), Current(g)} = {Current(g), Current(f)}
    OBVIOUS
  <2>3. (Settled(f) \/ InBatch(f)) /\ (Settled(g) \/ InBatch(g))
    BY <1>2, <1>6
  <2> QED BY <1>1, <2>1, <2>2, <2>3 DEF BulkBulk
<1>7. emb'[f].path = "BULK" /\ emb'[g].path = "BULK" => BulkBulk(f, g)'
  BY <1>1, <1>2, <1>6 DEF BulkBulk
<1> QED BY <1>4, <1>5, <1>7

LEMMA PairsStep ==
  ASSUME GalleryTypeOK, RowsInv, BandInv, MatchInv, PairsInv, GalleryNext
  PROVE  PairsInv'
<1>1. ASSUME UNCHANGED <<emb, shards, batchOf, band, match, compared, overtaken>>
      PROVE  PairsInv'
  <2>1. \A f \in Faces : Settled(f)' \/ InBand(f)' \/ InBatch(f)' => f \notin overtaken
    BY <1>1 DEF Settled, InBand, InBatch
  <2> QED BY <1>1, <2>1, AsidePairs
<1>2. ASSUME NEW f \in Faces, Upload(f) \/ ComputeReads(f)
      PROVE  PairsInv'
  BY <1>1, <1>2 DEF Upload, ComputeReads
<1>3. ASSUME NEW x \in tasks, ComputeForIdentityFeature(x) \/ ComputeEnds(x)
      PROVE  PairsInv'
  BY <1>1, <1>3, UpsertPairs DEF ComputeEnds
<1>4. ASSUME NEW page \in SUBSET Known, EnrolPage(page)
      PROVE  PairsInv'
  BY <1>1, <1>4 DEF EnrolPage
<1>5. CASE EnrolDies
  BY <1>1, <1>5 DEF EnrolDies
<1> QED
  BY <1>2, <1>3, <1>4, <1>5, BandReadsPairs, BandLoadsPairs, BandSearchesPairs, BandRecordsPairs, EnrolPairs,
     BatchPairs, MatchReadsPairs, MatchScoresPairs, LoadScoresPairs DEF GalleryNext

-----------------------------------------------------------------------------
(* The scores.                                                             *)

\* Only the band and a batch record scores: the band those of a face of the worker's path; a
\* batch those of a member, with such a face, with another member or with one of a finished batch.
LEMMA Recorded ==
  ASSUME GalleryTypeOK, RowsInv, BandInv, MatchInv, GalleryNext \/ UNCHANGED galleryVars,
         NEW x \in Vector, NEW y \in Vector, {x, y} \in compared', {x, y} \notin compared,
         ~Synced(x[1]), ~Synced(y[1])
  PROVE  /\ LoadScores
         /\ x[1] \in Members(match.batch) \/ Finished(x[1])
         /\ x[1] \in Members(match.batch) \/ y[1] \in Members(match.batch)
<1>1. BandRecords \/ LoadScores \/ UNCHANGED compared
  BY DEF GalleryNext, Upload, ComputeReads, ComputeForIdentityFeature, ComputeEnds, BandReads, BandLoadsFeatures,
         BandFails, BandSearches, EnrolPage, EnrolWrites, EnrolShards, EnrolDies, NewBatch, MatchResumes,
         MatchReads, MatchScores, MatchDies, galleryVars
<1>2. CASE BandRecords
  <2>1. {x, y} \in band.found
    BY <1>2 DEF BandRecords
  <2>2. PICK a \in band.todo, b \in Vector : {x, y} = {a, b}
    BY <2>1 DEF BandInv
  <2>3. Synced(a[1]) /\ (a = x \/ a = y)
    BY <2>2 DEF BandInv
  <2> QED BY <2>3
<1>3. CASE LoadScores
  <2>1. {x, y} \in match.found /\ match.at = "SCORED"
    BY <1>3 DEF LoadScores
  <2>2. PICK a, b \in Vector : /\ {x, y} = {a, b} /\ a[1] \in Members(match.batch)
                               /\ Synced(b[1]) \/ b[1] \in Members(match.batch) \cup match.earlier
    BY <2>1 DEF MatchInv
  <2>3. (a = x /\ (b = y \/ b = x)) \/ (a = y /\ (b = x \/ (b = y /\ x = y)))
    BY <2>2
  <2>4. match.earlier = {f \in Faces : Finished(f)}
    BY <2>1 DEF MatchInv
  <2> QED BY <1>3, <2>2, <2>3, <2>4
<1> QED BY <1>1, <1>2, <1>3

LEMMA ScoresStep ==
  ASSUME GalleryTypeOK, RowsInv, BandInv, MatchInv, ScoresInv, GalleryNext
  PROVE  ScoresInv'
<1> SUFFICES ASSUME NEW x \in Vector, NEW y \in Vector, {x, y} \in compared', x[1] # y[1],
                    ~Synced(x[1])', ~Synced(y[1])'
             PROVE  Finished(x[1])'
  BY DEF ScoresInv
<1>1. x[1] \in Faces /\ y[1] \in Faces
  BY VectorParts
<1>2. ~Synced(x[1]) /\ ~Synced(y[1]) /\ (Finished(x[1]) => Finished(x[1])')
  BY <1>1, RowsStep DEF Keeps
<1>3. CASE {x, y} \in compared
  BY <1>2, <1>3 DEF ScoresInv
<1>4. CASE {x, y} \notin compared
  <2>1. LoadScores /\ (x[1] \in Members(match.batch) \/ Finished(x[1]))
    BY <1>2, <1>4, Recorded
  <2>2. match.batch \in 1..MaxBatches /\ match.batch # 0
    BY <2>1, MembersEmbedded, GalleryConstantsOK DEF LoadScores
  <2>3. x[1] \in Members(match.batch) => Finished(x[1])'
    BY <2>1, <2>2 DEF LoadScores, Members, Finished, GalleryTypeOK
  <2> QED BY <1>2, <2>1, <2>3
<1> QED BY <1>3, <1>4

-----------------------------------------------------------------------------
(* The theorems.                                                           *)

LEMMA GalleryInitInv == GalleryInit => GalleryInv
<1> SUFFICES ASSUME GalleryInit
             PROVE  GalleryInv
  OBVIOUS
<1> USE DEF GalleryInit
<1>1. GalleryTypeOK
  BY GalleryConstantsOK DEF GalleryTypeOK, NoRow, NoBand, NoPage, NoMatch, Outcomes
<1>2. \A f \in Faces : ~emb[f].matched /\ emb[f].path = "SYNC" /\ emb[f].vec = 0 /\ batchOf[f] = 0
  BY DEF NoRow
<1>3. RowsInv
  BY <1>2 DEF RowsInv, NoPage, Embedded
<1>4. BandInv
  BY DEF BandInv, NoBand
<1>5. MatchInv
  BY DEF MatchInv, NoMatch
<1>6. PairsInv
  BY <1>2 DEF PairsInv, SyncSync, Synced, Embedded
<1>7. ScoresInv
  BY DEF ScoresInv
<1> QED BY <1>1, <1>3, <1>4, <1>5, <1>6, <1>7 DEF GalleryInv

LEMMA GalleryStutters ==
  ASSUME GalleryInv, UNCHANGED galleryVars
  PROVE  GalleryInv'
<1>1. \A f : /\ Embedded(f)' <=> Embedded(f)
             /\ Synced(f)' <=> Synced(f)
             /\ Finished(f)' <=> Finished(f)
             /\ Settled(f)' <=> Settled(f)
             /\ InBand(f)' <=> InBand(f)
             /\ Looked(f)' <=> Looked(f)
             /\ InBatch(f)' <=> InBatch(f)
             /\ Current(f)' = Current(f)
             /\ \A y : Took(f, y)' <=> Took(f, y)
  BY DEF galleryVars, Embedded, Synced, Finished, Settled, InBand, Looked, InBatch, Current, Took
<1>2. GalleryTypeOK' /\ RowsInv' /\ ScoresInv'
  BY <1>1 DEF GalleryInv, GalleryTypeOK, RowsInv, ScoresInv, galleryVars
<1>3. Keeps
  BY <1>1 DEF Keeps, galleryVars
<1>4. BandInv'
  BY <1>1, <1>3, BandCarried DEF GalleryInv, galleryVars
<1>5. MatchInv'
  BY <1>3, MatchCarried DEF GalleryInv, galleryVars
<1>6. PairsInv'
  <2>1. \A f \in Faces : Settled(f)' \/ InBand(f)' \/ InBatch(f)' => f \notin overtaken
    BY DEF Settled, InBand, InBatch, galleryVars
  <2> QED BY <2>1, AsidePairs DEF GalleryInv, galleryVars
<1> QED BY <1>2, <1>4, <1>5, <1>6 DEF GalleryInv

\* The invariant of the gallery is inductive.
THEOREM GalleryStepInv == GalleryInv /\ [GalleryNext]_galleryVars => GalleryInv'
<1> SUFFICES ASSUME GalleryInv, [GalleryNext]_galleryVars
             PROVE  GalleryInv'
  OBVIOUS
<1>1. CASE GalleryNext
  <2>1. GalleryTypeOK /\ RowsInv /\ BandInv /\ MatchInv /\ PairsInv /\ ScoresInv
    BY DEF GalleryInv
  <2>2. GalleryTypeOK' /\ RowsInv' /\ BandInv' /\ MatchInv'
    BY <1>1, <2>1, TypeStep, RowsStep, BandStep, MatchStep
  <2>3. PairsInv' /\ ScoresInv'
    BY <1>1, <2>1, PairsStep, ScoresStep
  <2> QED BY <2>2, <2>3 DEF GalleryInv
<1>2. CASE UNCHANGED galleryVars
  BY <1>2, GalleryStutters
<1> QED BY <1>1, <1>2

LEMMA GalleryAlways == GallerySpec => []GalleryInv
BY GalleryInitInv, GalleryStepInv, PTL DEF GallerySpec

\* Rows, batches and what the runs have read are of their types, so that a batch taken up is one of
\* those begun and a shard filled from the table has a vector (FillShards).
THEOREM GalleryTypeCorrect == GallerySpec => []GalleryTypeOK
<1>1. GalleryInv => GalleryTypeOK
  BY DEF GalleryInv
<1> QED BY <1>1, GalleryAlways, PTL

\* A face marked matched was compared with every other one that is, whichever of RunBand (band.go)
\* and loadScores (bulk/match.go) marked either, and however often a run died.
THEOREM MatchedMeansComparedAlways == GallerySpec => []MatchedMeansCompared
<1>1. GalleryInv => MatchedMeansCompared
  <2> SUFFICES ASSUME GalleryInv, NEW f \in Faces, NEW g \in Faces, f # g, Settled(f), Settled(g)
               PROVE  {Current(f), Current(g)} \in compared
    BY DEF MatchedMeansCompared
  <2>1. RowsInv /\ MatchInv /\ PairsInv /\ GalleryTypeOK
    BY DEF GalleryInv
  <2>2. \A h \in {f, g} : Synced(h) \/ emb[h].path = "BULK"
    BY <2>1 DEF Settled, Synced, RowsInv, GalleryTypeOK
  <2>3. {Current(f), Current(g)} = {Current(g), Current(f)}
    OBVIOUS
  <2>4. ASSUME NEW a \in {f, g}, NEW b \in {f, g}, a # b, Synced(a), emb[b].path = "BULK"
        PROVE  {Current(b), Current(a)} \in compared
    <3>1. a \in Faces /\ b \in Faces /\ Settled(a) /\ Settled(b)
      OBVIOUS
    <3>2. SyncBulk(a, b)
      BY <2>1, <2>4, <3>1 DEF PairsInv
    <3>3. Took(b, Current(a))
      BY <3>1, <3>2 DEF SyncBulk
    <3> QED BY <2>1, <2>4, <3>1, <3>3, SettledTook
  <2>5. CASE Synced(f) /\ Synced(g)
    BY <2>1, <2>5 DEF PairsInv, SyncSync
  <2>6. CASE emb[f].path = "BULK" /\ emb[g].path = "BULK"
    BY <2>1, <2>6 DEF PairsInv, BulkBulk
  <2> QED BY <2>2, <2>3, <2>4, <2>5, <2>6
<1> QED BY <1>1, GalleryAlways, PTL

\* "Every pair of gallery faces is thus compared exactly once across all batches" (match.go:74): a
\* batch, a resumed one too, scores no two faces of the gallery that a batch scored before.
THEOREM ScoredOnceAlways == GallerySpec => ScoredOnce
<1> DEFINE faces(r) == {x[1] : x \in r}
<1>1. ASSUME GalleryInv, [GalleryNext]_galleryVars,
             NEW p \in compared' \ compared, NEW q \in compared, faces(p) = faces(q),
             ~\E f \in faces(p) : emb[f].path = "SYNC"
      PROVE  Cardinality(faces(p)) = 1
  <2>1. GalleryTypeOK /\ RowsInv /\ BandInv /\ MatchInv /\ ScoresInv /\ GalleryInv'
    BY <1>1, GalleryStepInv DEF GalleryInv
  <2>2. p \in Pair /\ q \in Pair
    BY <2>1 DEF GalleryInv, GalleryTypeOK
  <2>3. PICK x, y \in Vector : p = {x, y}
    BY <2>2 DEF Pair
  <2>4. PICK u, v \in Vector : q = {u, v}
    BY <2>2 DEF Pair
  <2>5. faces(p) = {x[1], y[1]} /\ faces(q) = {u[1], v[1]}
    BY <2>3, <2>4
  <2>6. CASE x[1] = y[1]
    <3>1. faces(p) = {x[1]}
      BY <2>5, <2>6
    <3> HIDE DEF faces
    <3> QED BY <3>1, FS_Singleton
  <2>7. CASE x[1] # y[1]
    <3>1. ~Synced(x[1]) /\ ~Synced(y[1]) /\ ~Synced(u[1]) /\ ~Synced(v[1])
      <4>1. \A f \in {x[1], y[1], u[1], v[1]} : f \in faces(p)
        BY <1>1, <2>5
      <4> QED BY <1>1, <4>1 DEF Synced
    <3>2. LoadScores /\ (x[1] \in Members(match.batch) \/ y[1] \in Members(match.batch))
      BY <1>1, <2>1, <2>3, <3>1, Recorded
    <3>3. {u, v} = {v, u} /\ u[1] # v[1] /\ {u[1], v[1]} = {x[1], y[1]}
      BY <1>1, <2>5, <2>7
    <3>4. Finished(u[1]) /\ Finished(v[1])
      BY <2>1, <2>4, <3>1, <3>3 DEF ScoresInv
    <3>5. \A f \in Faces : batchOf[f] = match.batch => ~Finished(f)
      BY <2>1, <3>2, MembersEmbedded DEF LoadScores
    <3> QED BY <3>2, <3>3, <3>4, <3>5 DEF Members
  <2> QED BY <2>6, <2>7
<1>2. GalleryInv /\ [GalleryNext]_galleryVars =>
        [\A p \in compared' \ compared : \A q \in compared :
           faces(p) = faces(q) => Cardinality(faces(p)) = 1 \/ \E f \in faces(p) : emb[f].path = "SYNC"]_galleryVars
  BY <1>1
<1> QED BY <1>2, GalleryAlways, PTL DEF ScoredOnce, GallerySpec
=============================================================================
