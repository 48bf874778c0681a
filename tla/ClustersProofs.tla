---------------------------- MODULE ClustersProofs ----------------------------
(***************************************************************************)
(* Theorems about Clusters, for any features and any number of changes;    *)
(* and, in sections of their own, about Sync, which runs it, and Decisions,*)
(* whose outcomes it reads, for any number of tasks, decisions and rounds. *)
(*                                                                         *)
(* Clusters' argument rests on two facts about a layer's plan: two clusters*)
(* whose anchors differ never meet in two components (an anchor is in one),*)
(* so the oldest of a component's clusters survives in it alone; and the   *)
(* sequence gives the components without a cluster a number each.  The     *)
(* inductive invariant adds what a run in flight has: a layer it wrote is  *)
(* of what it read (Written), which is what there is if nothing arrived    *)
(* (ReadAll), and no cluster that was merged is live (MergedGone).         *)
(***************************************************************************)
EXTENDS Clusters, Sync, Decisions, Extremes

-----------------------------------------------------------------------------
(* Components.                                                             *)

Closed(S, edges) == \A e \in edges : e \cap S # {} => e \subseteq S

\* A feature is in its component.
LEMMA ComponentSelf ==
  ASSUME NEW f \in Features, NEW edges
  PROVE  f \in Component(f, edges) /\ Component(f, edges) \subseteq Features
BY DEF Component

\* A component's features reach what it reaches.
LEMMA ComponentReach ==
  ASSUME NEW edges, NEW f \in Features, NEW g \in Component(f, edges)
  PROVE  Component(g, edges) \subseteq Component(f, edges)
<1>1. ASSUME NEW h \in Component(g, edges), NEW S \in SUBSET Features, f \in S, Closed(S, edges)
      PROVE  h \in S
  <2>1. g \in S
    BY <1>1 DEF Component, Closed
  <2> QED BY <2>1, <1>1 DEF Component, Closed
<1>2. ASSUME NEW h \in Component(g, edges)
      PROVE  h \in Features
  BY <1>2 DEF Component
<1> QED BY <1>1, <1>2 DEF Component, Closed

\* Connectedness is an equivalence: the features of a component have that component.
LEMMA ComponentSame ==
  ASSUME NEW edges \in SUBSET SUBSET Features, NEW f \in Features, NEW g \in Component(f, edges)
  PROVE  Component(g, edges) = Component(f, edges)
<1>0. g \in Features
  BY DEF Component
<1>1. ASSUME NEW S \in SUBSET Features, g \in S, Closed(S, edges), f \notin S
      PROVE  FALSE
  <2> DEFINE T == Features \ S
  <2>1. ASSUME NEW e \in edges, e \cap T # {}
        PROVE  e \subseteq T
    <3>1. e \subseteq Features
      OBVIOUS
    <3>2. e \cap S = {}
      BY <1>1, <2>1 DEF Closed
    <3> QED BY <3>1, <3>2
  <2>2. T \in SUBSET Features /\ f \in T
    BY <1>1
  <2>3. g \in T
    <3> HIDE DEF T
    <3> QED BY <2>1, <2>2 DEF Component
  <2> QED BY <2>3, <1>1
<1>2. f \in Component(g, edges)
  BY <1>0, <1>1 DEF Component, Closed
<1> QED BY <1>0, <1>2, ComponentReach

\* More edges connect more.
LEMMA ComponentMono ==
  ASSUME NEW more, NEW edges \in SUBSET more, NEW f \in Features
  PROVE  Component(f, edges) \subseteq Component(f, more)
BY DEF Component

\* A component stays among any features that hold its first and all edges.
LEMMA ComponentWithin ==
  ASSUME NEW edges, NEW N \in SUBSET Features, UNION edges \subseteq N, NEW f \in N
  PROVE  Component(f, edges) \subseteq N
<1>1. \A e \in edges : e \cap N # {} => e \subseteq N
  OBVIOUS
<1> QED BY <1>1 DEF Component

\* A feature that no edge has is a component alone.
LEMMA ComponentAlone ==
  ASSUME NEW edges, NEW f \in Features, f \notin UNION edges
  PROVE  Component(f, edges) = {f}
<1>1. \A e \in edges : e \cap {f} # {} => e \subseteq {f}
  OBVIOUS
<1>2. {f} \in SUBSET Features
  OBVIOUS
<1>3. \A g \in Component(f, edges) : g \in {f}
  BY <1>1, <1>2 DEF Component
<1> QED BY <1>3, ComponentSelf

\* The edges join features, and the AUTOMATIC layer has those of the REVIEWED one.
LEMMA EdgesFacts ==
  ASSUME NEW st, NEW basis \in Bases
  PROVE  /\ Edges(basis, st) \in SUBSET SUBSET Features
         /\ Edges("REVIEWED", st) \subseteq Edges("AUTOMATIC", st)
BY DEF Edges, Pairs, Bases

-----------------------------------------------------------------------------
(* A layer's plan.                                                         *)

MergedGone == \A basis \in Bases : \A m \in merges[basis] : m[1] \notin live[basis]

\* Any features are a finite set of numbers.
LEMMA FiniteFeatures ==
  ASSUME NEW S \in SUBSET Features
  PROVE  S \in SUBSET Int /\ IsFiniteSet(S)
<1>1. Features \in SUBSET Int
  BY ConstantsOK
<1>2. S \in SUBSET Int
  BY <1>1
<1>3. IsFiniteSet(Features)
  BY ConstantsOK
<1>4. IsFiniteSet(S)
  BY <1>3, FS_Subset
<1> QED BY <1>2, <1>4

\* A cluster there is has an anchor among its members.
LEMMA AnchorsMember ==
  ASSUME TypeOK, MembersLive, NEW basis \in Bases, NEW id \in live[basis]
  PROVE  /\ Anchor(member[basis], id) \in Features
         /\ member[basis][Anchor(member[basis], id)] = id
         /\ Members(member[basis], id) # {}
         /\ id # 0
<1> DEFINE S == Members(member[basis], id)
<1>1. S # {} /\ id # 0
  BY DEF MembersLive, Members
<1>2. S \in SUBSET Int /\ IsFiniteSet(S)
  <2>1. S \in SUBSET Features
    BY DEF Members
  <2> HIDE DEF S
  <2> QED BY <2>1, FiniteFeatures
<1>3. Min(S) \in S
  <2> HIDE DEF S
  <2> QED BY <1>1, <1>2, MinIsLeast
<1> QED BY <1>1, <1>3 DEF Anchor, Members

\* The nodes hold the edges and the members.
LEMMA NodesFacts ==
  ASSUME TypeOK, NEW basis \in Bases
  PROVE  /\ Nodes(basis) \in SUBSET Features
         /\ UNION Edges(basis, read.status) \subseteq Nodes(basis)
         /\ read.features \subseteq Nodes(basis)
         /\ \A f \in Features : member[basis][f] # 0 => f \in Nodes(basis)
<1>1. UNION Edges(basis, read.status) \subseteq Features
  BY EdgesFacts
<1>2. read.features \subseteq Features
  BY DEF TypeOK
<1> QED BY <1>1, <1>2 DEF Nodes

\* The components partition the nodes.
LEMMA ComponentsFacts ==
  ASSUME TypeOK, NEW basis \in Bases, NEW c \in Components(basis), NEW f \in c
  PROVE  /\ f \in Nodes(basis)
         /\ c = Component(f, Edges(basis, read.status))
         /\ \A d \in Components(basis) : f \in d => c = d
<1>1. ASSUME NEW d \in Components(basis), f \in d
      PROVE  f \in Nodes(basis) /\ d = Component(f, Edges(basis, read.status))
  <2>1. PICK g \in Nodes(basis) : d = Component(g, Edges(basis, read.status))
    BY DEF Components
  <2>2. g \in Features
    BY NodesFacts
  <2>3. f \in Nodes(basis)
    BY <1>1, <2>1, NodesFacts, ComponentWithin
  <2>4. d = Component(f, Edges(basis, read.status))
    BY <1>1, <2>1, <2>2, EdgesFacts, ComponentSame
  <2> QED BY <2>3, <2>4
<1> QED BY <1>1

\* The oldest of the clusters a component joins is one of them, and they are anchored in it alone.
LEMMA KeptLeast ==
  ASSUME TypeOK, MembersLive, NEW basis \in Bases, NEW c \in Components(basis) \ Unnamed(basis)
  PROVE  /\ Kept(basis, c) \in Anchored(member[basis], live[basis], c)
         /\ \A id \in Anchored(member[basis], live[basis], c) : Kept(basis, c) <= id
         /\ Anchored(member[basis], live[basis], c) \subseteq live[basis]
         /\ Kept(basis, c) \in 1..(nextId - 1)
<1> DEFINE S == Anchored(member[basis], live[basis], c)
<1>1. S \in SUBSET live[basis]
  BY DEF Anchored
<1>2. live[basis] \in SUBSET (1..(nextId - 1)) /\ nextId \in Nat
  BY DEF TypeOK
<1>3. IsFiniteSet(1..(nextId - 1))
  BY <1>2, FS_Interval
<1>4. S # {}
  BY DEF Unnamed
<1>5. S \in SUBSET Int /\ IsFiniteSet(S)
  <2> HIDE DEF S
  <2>1. S \in SUBSET (1..(nextId - 1))
    BY <1>1, <1>2
  <2>2. S \in SUBSET Int
    BY <2>1
  <2>3. IsFiniteSet(S)
    BY <1>3, <2>1, FS_Subset
  <2> QED BY <2>2, <2>3
<1>6. Min(S) \in S /\ \A id \in S : Min(S) <= id
  <2> HIDE DEF S
  <2> QED BY <1>4, <1>5, MinIsLeast
<1> QED BY <1>1, <1>2, <1>6 DEF Kept

\* Two components share no cluster.
LEMMA AnchoredOnce ==
  ASSUME TypeOK, NEW basis \in Bases, NEW c \in Components(basis), NEW d \in Components(basis),
         NEW id \in Anchored(member[basis], live[basis], c),
         id \in Anchored(member[basis], live[basis], d)
  PROVE  c = d
BY ComponentsFacts DEF Anchored

\* The components are finitely many, so the sequence advances by a number.
LEMMA UnnamedFinite ==
  ASSUME TypeOK, NEW basis \in Bases
  PROVE  IsFiniteSet(Unnamed(basis)) /\ Cardinality(Unnamed(basis)) \in Nat
<1> DEFINE T == [f \in Nodes(basis) |-> Component(f, Edges(basis, read.status))]
<1>1. IsFiniteSet(Nodes(basis))
  BY NodesFacts, ConstantsOK, FS_Subset
<1>2. IsFiniteSet({T[f] : f \in DOMAIN T})
  <2>1. DOMAIN T = Nodes(basis)
    OBVIOUS
  <2> HIDE DEF T
  <2> QED BY <1>1, <2>1, FiniteImage
<1>3. {T[f] : f \in DOMAIN T} = Components(basis)
  BY DEF Components
<1>4. IsFiniteSet(Components(basis))
  BY <1>2, <1>3
<1>5. Unnamed(basis) \in SUBSET Components(basis)
  BY DEF Unnamed
<1> QED BY <1>4, <1>5, FS_Subset, FS_CardinalityType

\* The new numbers are past those given, and each is given to a component.
LEMMA NumbersGiven ==
  ASSUME TypeOK, NEW basis \in Bases,
         NEW number \in [Unnamed(basis) -> NewNumbers(basis)],
         \A c, d \in Unnamed(basis) : number[c] = number[d] => c = d
  PROVE  /\ \A k \in NewNumbers(basis) : k \in Nat /\ k >= nextId
                                           /\ \E c \in Unnamed(basis) : number[c] = k
         /\ NewNumbers(basis) = nextId..(nextId + Cardinality(Unnamed(basis)) - 1)
<1> DEFINE n == Cardinality(Unnamed(basis))
           U == Unnamed(basis)
<1>1. n \in Nat /\ nextId \in Nat /\ IsFiniteSet(U)
  BY UnnamedFinite DEF TypeOK
<1>2. NewNumbers(basis) = nextId..(nextId + n - 1)
  BY DEF NewNumbers
<1>3. IsFiniteSet(NewNumbers(basis)) /\ Cardinality(NewNumbers(basis)) = n
  <2> HIDE DEF n, U
  <2>1. nextId \in Int /\ (nextId + n - 1) \in Int
    BY <1>1
  <2>2. Cardinality(nextId..(nextId + n - 1)) = n
    BY <1>1, <2>1, FS_Interval
  <2>3. IsFiniteSet(nextId..(nextId + n - 1))
    BY <2>1, FS_Interval
  <2> QED BY <1>2, <2>2, <2>3
<1>4. number \in Injection(U, NewNumbers(basis))
  BY DEF Injection, IsInjective
<1>5. number \in Surjection(U, NewNumbers(basis))
  BY <1>3, <1>4, FS_Injection
<1>6. \A k \in NewNumbers(basis) : \E c \in U : number[c] = k
  BY <1>5 DEF Surjection
<1>7. \A k \in NewNumbers(basis) : k \in Nat /\ k >= nextId
  <2> HIDE DEF n
  <2> QED BY <1>1, <1>2
<1> QED BY <1>2, <1>6, <1>7

\* Where a feature goes.
LEMMA WhereTo ==
  ASSUME TypeOK, NEW basis \in Bases, NEW f \in Features, NEW number
  PROVE  /\ f \notin Nodes(basis) => NumberOf(basis, f, number) = 0
         /\ \A c \in Components(basis) : f \in c =>
              NumberOf(basis, f, number) = IF c \in Unnamed(basis) THEN number[c] ELSE Kept(basis, c)
         /\ f \in Nodes(basis) => \E c \in Components(basis) : f \in c
<1>1. f \notin Nodes(basis) => NumberOf(basis, f, number) = 0
  BY DEF NumberOf
<1>2. ASSUME NEW c \in Components(basis), f \in c
      PROVE  NumberOf(basis, f, number) = IF c \in Unnamed(basis) THEN number[c] ELSE Kept(basis, c)
  <2>1. f \in Nodes(basis) /\ c = Component(f, Edges(basis, read.status))
    BY <1>2, ComponentsFacts
  <2> QED BY <2>1 DEF NumberOf
<1>3. f \in Nodes(basis) => \E c \in Components(basis) : f \in c
  BY ComponentSelf DEF Components
<1> QED BY <1>1, <1>2, <1>3

-----------------------------------------------------------------------------
(* What writing a layer comes to.                                          *)

\* m places features fs, and together those that edges connect.
Exact(m, edges, fs) ==
  /\ \A f \in fs : m[f] # 0
  /\ \A f, g \in Features :
       /\ g \in Component(f, edges) => m[f] = m[g]
       /\ m[f] # 0 /\ m[f] = m[g] => g \in Component(f, edges)

\* The plan places every feature it read, and together those that are connected.
LEMMA PlanIsExact ==
  ASSUME TypeOK, MembersLive, NEW basis \in Bases,
         NEW number \in [Unnamed(basis) -> NewNumbers(basis)],
         \A c, d \in Unnamed(basis) : number[c] = number[d] => c = d
  PROVE  Exact([f \in Features |-> NumberOf(basis, f, number)], Edges(basis, read.status), read.features)
<1> DEFINE E == Edges(basis, read.status)
           m == [f \in Features |-> NumberOf(basis, f, number)]
<1>0. nextId \in Nat \ {0}
  BY DEF TypeOK
<1>1. ASSUME NEW c \in Components(basis), NEW d \in Components(basis)
      PROVE  LET Num(x) == IF x \in Unnamed(basis) THEN number[x] ELSE Kept(basis, x)
             IN  Num(c) # 0 /\ (Num(c) = Num(d) => c = d)
  <2>1. ASSUME NEW x \in Unnamed(basis)
        PROVE  number[x] \in Nat /\ number[x] >= nextId
    BY NumbersGiven
  <2>2. ASSUME NEW x \in Components(basis) \ Unnamed(basis)
        PROVE  Kept(basis, x) \in 1..(nextId - 1)
    BY KeptLeast
  <2>3. CASE c \in Unnamed(basis) /\ d \in Unnamed(basis)
    BY <2>1, <2>3, <1>0
  <2>4. CASE c \in Unnamed(basis) /\ d \notin Unnamed(basis)
    BY <2>1, <2>2, <2>4, <1>0
  <2>5. CASE c \notin Unnamed(basis) /\ d \in Unnamed(basis)
    BY <2>1, <2>2, <2>5, <1>0
  <2>6. CASE c \notin Unnamed(basis) /\ d \notin Unnamed(basis)
    <3>1. Kept(basis, c) = Kept(basis, d) => c = d
      BY <2>6, KeptLeast, AnchoredOnce
    <3> QED BY <3>1, <2>2, <2>6, <1>0
  <2> QED BY <2>3, <2>4, <2>5, <2>6
<1>2. ASSUME NEW f \in Nodes(basis)
      PROVE  m[f] # 0
  BY <1>1, WhereTo, NodesFacts
<1>3. ASSUME NEW f \in Features, NEW g \in Component(f, E)
      PROVE  m[f] = m[g]
  <2>1. g \in Features
    BY ComponentSelf
  <2>2. CASE f \in Nodes(basis)
    <3>1. PICK c \in Components(basis) : f \in c
      BY <2>2, WhereTo
    <3>2. g \in c
      BY <3>1, ComponentsFacts
    <3> QED BY <3>1, <3>2, <2>1, WhereTo
  <2>3. CASE f \notin Nodes(basis)
    <3>1. Component(f, E) = {f}
      BY <2>3, NodesFacts, ComponentAlone
    <3> QED BY <3>1
  <2> QED BY <2>2, <2>3
<1>4. ASSUME NEW f \in Features, NEW g \in Features, m[f] # 0, m[f] = m[g]
      PROVE  g \in Component(f, E)
  <2>1. f \in Nodes(basis) /\ g \in Nodes(basis)
    BY <1>4, WhereTo
  <2>2. PICK c \in Components(basis), d \in Components(basis) : f \in c /\ g \in d
    BY <2>1, WhereTo
  <2>3. c = d
    BY <2>2, <1>1, <1>4, WhereTo
  <2> QED BY <2>2, <2>3, ComponentsFacts
<1>5. \A f \in read.features : m[f] # 0
  BY <1>2, NodesFacts
<1> HIDE DEF m, E
<1>6. Exact(m, E, read.features)
  BY <1>3, <1>4, <1>5 DEF Exact
<1> QED BY <1>6 DEF m, E

\* What the layer that is not written keeps.
Apart(basis) ==
  \A other \in Bases \ {basis} :
    member'[other] = member[other] /\ live'[other] = live[other] /\ merges'[other] = merges[other]

\* Where the number of a cluster leads after its layer is written.
Leads(basis, id) ==
  LET here == member'[basis][Anchor(member[basis], id)]
  IN  /\ here \in live'[basis]
      /\ \/ here = id
         \/ /\ here \in 1..(id - 1)
            /\ id \notin live'[basis]
            /\ {m \in merges'[basis] : m[1] = id} = {<<id, here>>}

\* Writing a layer, its tables as the plan has them.
LEMMA LayerTables ==
  ASSUME TypeOK, NEW basis \in Bases, ApplyLayer(basis)
  PROVE  \E number \in [Unnamed(basis) -> NewNumbers(basis)] :
           /\ \A c, d \in Unnamed(basis) : number[c] = number[d] => c = d
           /\ member'[basis] = [f \in Features |-> NumberOf(basis, f, number)]
           /\ live'[basis] = Surviving(basis) \cup NewNumbers(basis)
           /\ merges'[basis] = merges[basis] \cup Merges(basis)
           /\ nextId' = nextId + Cardinality(Unnamed(basis))
           /\ Apart(basis)
           /\ DOMAIN member' = Bases /\ DOMAIN live' = Bases /\ DOMAIN merges' = Bases
           /\ member' = [member EXCEPT ![basis] = member'[basis]]
           /\ live' = [live EXCEPT ![basis] = live'[basis]]
           /\ merges' = [merges EXCEPT ![basis] = merges'[basis]]
<1>1. PICK number \in [Unnamed(basis) -> NewNumbers(basis)] :
        /\ \A c, d \in Unnamed(basis) : number[c] = number[d] => c = d
        /\ member' = [member EXCEPT ![basis] = [f \in Features |-> NumberOf(basis, f, number)]]
        /\ live' = [live EXCEPT ![basis] = Surviving(basis) \cup NewNumbers(basis)]
        /\ merges' = [merges EXCEPT ![basis] = @ \cup Merges(basis)]
        /\ nextId' = nextId + Cardinality(Unnamed(basis))
  BY DEF ApplyLayer
<1>2. DOMAIN member = Bases /\ DOMAIN live = Bases /\ DOMAIN merges = Bases
  BY DEF TypeOK
<1>3. /\ member'[basis] = [f \in Features |-> NumberOf(basis, f, number)]
      /\ live'[basis] = Surviving(basis) \cup NewNumbers(basis)
      /\ merges'[basis] = merges[basis] \cup Merges(basis)
      /\ DOMAIN member' = Bases /\ DOMAIN live' = Bases /\ DOMAIN merges' = Bases
  BY <1>1, <1>2
<1>4. Apart(basis)
  BY <1>1, <1>2 DEF Apart
<1>5. /\ member' = [member EXCEPT ![basis] = member'[basis]]
      /\ live' = [live EXCEPT ![basis] = live'[basis]]
      /\ merges' = [merges EXCEPT ![basis] = merges'[basis]]
  BY <1>1, <1>3
<1> QED BY <1>1, <1>3, <1>4, <1>5

\* The clusters a plan merges, and into which.
LEMMA MergesFacts ==
  ASSUME TypeOK, MembersLive, NEW basis \in Bases, NEW m \in Merges(basis)
  PROVE  \E c \in Components(basis) \ Unnamed(basis) :
           /\ m = <<m[1], Kept(basis, c)>>
           /\ m[1] \in Anchored(member[basis], live[basis], c)
           /\ m[1] # Kept(basis, c)
           /\ m[1] \in live[basis]
<1>1. PICK c \in Components(basis) \ Unnamed(basis) :
        m \in {<<id, Kept(basis, c)>> : id \in Anchored(member[basis], live[basis], c) \ {Kept(basis, c)}}
  BY DEF Merges
<1>2. PICK id \in Anchored(member[basis], live[basis], c) \ {Kept(basis, c)} : m = <<id, Kept(basis, c)>>
  BY <1>1
<1>3. m[1] = id /\ id \in live[basis]
  BY <1>2 DEF Anchored
<1> QED BY <1>2, <1>3

\* The clusters a plan keeps are live, and not merged.
LEMMA SurvivingFacts ==
  ASSUME TypeOK, MembersLive, NEW basis \in Bases, NEW id \in Surviving(basis)
  PROVE  id \in live[basis] /\ id \in 1..(nextId - 1) /\ \A m \in Merges(basis) : m[1] # id
<1>1. PICK c \in Components(basis) \ Unnamed(basis) : id = Kept(basis, c)
  BY DEF Surviving
<1>2. id \in Anchored(member[basis], live[basis], c) /\ id \in live[basis] /\ id \in 1..(nextId - 1)
  BY <1>1, KeptLeast
<1>3. ASSUME NEW m \in Merges(basis), m[1] = id
      PROVE  FALSE
  <2>1. PICK d \in Components(basis) \ Unnamed(basis) :
           m[1] \in Anchored(member[basis], live[basis], d) /\ m[1] # Kept(basis, d)
    BY MergesFacts
  <2>2. c = d
    BY <1>2, <1>3, <2>1, AnchoredOnce
  <2> QED BY <2>1, <2>2, <1>1, <1>3
<1> QED BY <1>2, <1>3

\* Numbers given before the sequence went from i to j, and those it gave.
LEMMA Spans ==
  ASSUME NEW i \in Nat \ {0}, NEW j \in Nat, i <= j
  PROVE  /\ 1..(i - 1) \subseteq 1..(j - 1)
         /\ i..(j - 1) \subseteq 1..(j - 1)
         /\ \A n \in 1..(j - 1) : n \in 1..(i - 1) \/ n \in i..(j - 1)
         /\ \A n \in 1..(i - 1) : n \notin i..(j - 1)
OBVIOUS

\* Writing a layer keeps the types, the partition, and merged clusters gone.
LEMMA LayerKeeps ==
  ASSUME TypeOK, MembersLive, MergedGone, NEW basis \in Bases, ApplyLayer(basis)
  PROVE  /\ member' \in [Bases -> [Features -> Nat]]
         /\ live' \in [Bases -> SUBSET (1..(nextId' - 1))]
         /\ merges' \in [Bases -> SUBSET ((1..(nextId' - 1)) \X (1..(nextId' - 1)))]
         /\ nextId' \in Nat \ {0} /\ nextId <= nextId'
         /\ MembersLive' /\ MergedGone'
         /\ nextId..(nextId' - 1) \subseteq live'[basis]
<1>1. PICK number \in [Unnamed(basis) -> NewNumbers(basis)] :
        /\ \A c, d \in Unnamed(basis) : number[c] = number[d] => c = d
        /\ member'[basis] = [f \in Features |-> NumberOf(basis, f, number)]
        /\ live'[basis] = Surviving(basis) \cup NewNumbers(basis)
        /\ merges'[basis] = merges[basis] \cup Merges(basis)
        /\ nextId' = nextId + Cardinality(Unnamed(basis))
        /\ Apart(basis)
        /\ DOMAIN member' = Bases /\ DOMAIN live' = Bases /\ DOMAIN merges' = Bases
        /\ member' = [member EXCEPT ![basis] = member'[basis]]
        /\ live' = [live EXCEPT ![basis] = live'[basis]]
        /\ merges' = [merges EXCEPT ![basis] = merges'[basis]]
  BY LayerTables
<1>2. nextId \in Nat \ {0} /\ nextId' \in Nat \ {0} /\ nextId <= nextId'
  BY <1>1, UnnamedFinite DEF TypeOK
<1>3. NewNumbers(basis) = nextId..(nextId' - 1)
  <2>1. NewNumbers(basis) = nextId..(nextId + Cardinality(Unnamed(basis)) - 1)
    BY <1>1, NumbersGiven
  <2>2. nextId' = nextId + Cardinality(Unnamed(basis))
    BY <1>1
  <2>3. nextId' - 1 = nextId + Cardinality(Unnamed(basis)) - 1
    BY <2>2, <1>2, UnnamedFinite
  <2> QED BY <2>1, <2>3
<1>4. \A n \in NewNumbers(basis) : \E c \in Unnamed(basis) : number[c] = n
  BY <1>1, NumbersGiven
<1>5. 1..(nextId - 1) \subseteq 1..(nextId' - 1)
  BY <1>2, Spans
<1>6. live'[basis] \subseteq 1..(nextId' - 1)
  <2>1. Surviving(basis) \subseteq 1..(nextId - 1)
    BY SurvivingFacts
  <2>2. NewNumbers(basis) \subseteq 1..(nextId' - 1)
    BY <1>2, <1>3, Spans
  <2> QED BY <2>1, <2>2, <1>1, <1>5
<1>7. ASSUME NEW f \in Features
      PROVE  /\ member'[basis][f] = NumberOf(basis, f, number)
             /\ member'[basis][f] = 0 \/ member'[basis][f] \in live'[basis]
  <2>0. member'[basis][f] = NumberOf(basis, f, number)
    BY <1>1
  <2>1. CASE f \notin Nodes(basis)
    BY <2>0, <2>1, WhereTo
  <2>2. CASE f \in Nodes(basis)
    <3>1. PICK c \in Components(basis) : f \in c
      BY <2>2, WhereTo
    <3>2. NumberOf(basis, f, number) = IF c \in Unnamed(basis) THEN number[c] ELSE Kept(basis, c)
      BY <3>1, WhereTo
    <3>3. c \notin Unnamed(basis) => Kept(basis, c) \in Surviving(basis)
      BY DEF Surviving
    <3> QED BY <2>0, <3>2, <3>3, <1>1
  <2> QED BY <2>0, <2>1, <2>2
<1>8. ASSUME NEW id \in live'[basis]
      PROVE  id # 0 /\ \E f \in Features : member'[basis][f] = id
  <2>1. id # 0
    BY <1>6
  <2>2. \E c \in Components(basis) : id = IF c \in Unnamed(basis) THEN number[c] ELSE Kept(basis, c)
    <3>1. CASE id \in Surviving(basis)
      BY <3>1 DEF Surviving
    <3>2. CASE id \in NewNumbers(basis)
      BY <3>2, <1>4 DEF Unnamed
    <3> QED BY <3>1, <3>2, <1>1
  <2>3. PICK c \in Components(basis) : id = IF c \in Unnamed(basis) THEN number[c] ELSE Kept(basis, c)
    BY <2>2
  <2>4. PICK f \in Nodes(basis) : c = Component(f, Edges(basis, read.status))
    BY DEF Components
  <2>5. f \in Features /\ f \in c
    BY <2>4, NodesFacts, ComponentSelf
  <2> QED BY <2>1, <2>3, <2>5, <1>7, WhereTo
<1>9. live'[basis] = {member'[basis][f] : f \in Features} \ {0}
  BY <1>7, <1>8
<1>10. MembersLive'
  <2>1. ASSUME NEW b \in Bases, b # basis
        PROVE  live'[b] = {member'[b][f] : f \in Features} \ {0}
    BY <2>1, <1>1 DEF Apart, MembersLive
  <2> QED BY <1>9, <2>1 DEF MembersLive
<1>11. MergedGone'
  <2>1. ASSUME NEW m \in merges'[basis]
        PROVE  m[1] \notin live'[basis]
    <3>1. CASE m \in merges[basis]
      <4>1. m[1] \in 1..(nextId - 1) /\ m[1] \notin live[basis]
        BY <3>1 DEF MergedGone, TypeOK
      <4>2. m[1] \notin NewNumbers(basis)
        BY <4>1, <1>2, <1>3
      <4>3. m[1] \notin Surviving(basis)
        BY <4>1, SurvivingFacts
      <4> QED BY <4>2, <4>3, <1>1
    <3>2. CASE m \in Merges(basis)
      <4>1. m[1] \in live[basis]
        BY <3>2, MergesFacts
      <4>2. m[1] \in 1..(nextId - 1)
        BY <4>1 DEF TypeOK
      <4>3. m[1] \notin NewNumbers(basis)
        BY <4>2, <1>2, <1>3
      <4>4. m[1] \notin Surviving(basis)
        BY <3>2, SurvivingFacts
      <4> QED BY <4>3, <4>4, <1>1
    <3> QED BY <3>1, <3>2, <1>1
  <2>2. ASSUME NEW b \in Bases, b # basis
        PROVE  \A m \in merges'[b] : m[1] \notin live'[b]
    BY <2>2, <1>1 DEF Apart, MergedGone
  <2> QED BY <2>1, <2>2 DEF MergedGone
<1>12. member'[basis] \in [Features -> Nat]
  <2>1. \A f \in Features : member'[basis][f] \in Nat
    BY <1>6, <1>7
  <2>2. member'[basis] = [f \in Features |-> member'[basis][f]]
    BY <1>1
  <2> QED BY <2>1, <2>2
<1>13. merges'[basis] \subseteq (1..(nextId' - 1)) \X (1..(nextId' - 1))
  <2>1. merges[basis] \subseteq (1..(nextId - 1)) \X (1..(nextId - 1))
    BY DEF TypeOK
  <2>2. ASSUME NEW m \in Merges(basis)
        PROVE  m \in (1..(nextId - 1)) \X (1..(nextId - 1))
    <3>1. PICK c \in Components(basis) \ Unnamed(basis) : m = <<m[1], Kept(basis, c)>> /\ m[1] \in live[basis]
      BY MergesFacts
    <3>2. Kept(basis, c) \in 1..(nextId - 1) /\ m[1] \in 1..(nextId - 1)
      BY <3>1, KeptLeast DEF TypeOK
    <3> QED BY <3>1, <3>2
  <2> QED BY <2>1, <2>2, <1>1, <1>5
<1>14. member' \in [Bases -> [Features -> Nat]]
  BY <1>1, <1>12 DEF TypeOK
<1>15. live' \in [Bases -> SUBSET (1..(nextId' - 1))]
  <2>1. live \in [Bases -> SUBSET (1..(nextId' - 1))]
    BY <1>5 DEF TypeOK
  <2> QED BY <2>1, <1>1, <1>6
<1>16. merges' \in [Bases -> SUBSET ((1..(nextId' - 1)) \X (1..(nextId' - 1)))]
  <2>1. merges \in [Bases -> SUBSET ((1..(nextId' - 1)) \X (1..(nextId' - 1)))]
    BY <1>5 DEF TypeOK
  <2> QED BY <2>1, <1>1, <1>13
<1>17. nextId..(nextId' - 1) \subseteq live'[basis]
  BY <1>1, <1>3
<1> QED BY <1>2, <1>10, <1>11, <1>14, <1>15, <1>16, <1>17

\* A cluster's number leads, once the layer is written, to where its anchor is.
LEMMA LayerLeads ==
  ASSUME TypeOK, MembersLive, MergedGone, NEW basis \in Bases, ApplyLayer(basis),
         NEW id \in live[basis]
  PROVE  Leads(basis, id)
<1>1. PICK number \in [Unnamed(basis) -> NewNumbers(basis)] :
        /\ \A c, d \in Unnamed(basis) : number[c] = number[d] => c = d
        /\ member'[basis] = [f \in Features |-> NumberOf(basis, f, number)]
        /\ live'[basis] = Surviving(basis) \cup NewNumbers(basis)
        /\ merges'[basis] = merges[basis] \cup Merges(basis)
  BY LayerTables
<1> DEFINE a == Anchor(member[basis], id)
<1>2. a \in Features /\ member[basis][a] = id /\ Members(member[basis], id) # {} /\ id # 0
  BY AnchorsMember
<1>3. PICK c \in Components(basis) : a \in c
  BY <1>2, NodesFacts, WhereTo
<1>4. id \in Anchored(member[basis], live[basis], c)
  BY <1>2, <1>3 DEF Anchored
<1>5. c \in Components(basis) \ Unnamed(basis)
  BY <1>4 DEF Unnamed
<1> DEFINE k == Kept(basis, c)
<1>6. member'[basis][a] = k
  <2>1. NumberOf(basis, a, number) = k
    BY <1>2, <1>3, <1>5, WhereTo
  <2> HIDE DEF a, k
  <2> QED BY <1>1, <1>2, <2>1
<1>7. k \in live'[basis]
  BY <1>1, <1>5 DEF Surviving
<1>8. k <= id /\ k \in 1..(nextId - 1) /\ id \in 1..(nextId - 1) /\ nextId \in Nat
  BY <1>4, <1>5, KeptLeast DEF TypeOK
<1>9. ASSUME k # id
      PROVE  /\ k \in 1..(id - 1)
             /\ id \notin live'[basis]
             /\ {m \in merges'[basis] : m[1] = id} = {<<id, k>>}
  <2>1. k \in 1..(id - 1)
    <3> HIDE DEF k
    <3> QED BY <1>8, <1>9
  <2>2. <<id, k>> \in Merges(basis)
    BY <1>4, <1>5, <1>9 DEF Merges
  <2>3. ASSUME NEW m \in merges'[basis], m[1] = id
        PROVE  m = <<id, k>>
    <3>1. m \in Merges(basis)
      BY <2>3, <1>1 DEF MergedGone
    <3>2. PICK d \in Components(basis) \ Unnamed(basis) :
            m = <<m[1], Kept(basis, d)>> /\ m[1] \in Anchored(member[basis], live[basis], d)
      BY <3>1, MergesFacts
    <3>3. c = d
      BY <3>2, <2>3, <1>4, AnchoredOnce
    <3> QED BY <3>2, <3>3, <2>3
  <2>4. <<id, k>>[1] = id
    OBVIOUS
  <2>5. {m \in merges'[basis] : m[1] = id} = {<<id, k>>}
    <3> HIDE DEF k
    <3> QED BY <2>2, <2>3, <2>4, <1>1
  <2>6. id \notin live'[basis]
    <3>1. id \notin Surviving(basis)
      BY <2>2, <2>4, SurvivingFacts
    <3>2. id \notin NewNumbers(basis)
      BY <1>1, <1>8, NumbersGiven
    <3> QED BY <3>1, <3>2, <1>1
  <2> QED BY <2>1, <2>5, <2>6
<1> HIDE DEF k
<1> QED BY <1>6, <1>7, <1>9 DEF Leads

\* A number merged before stays merged, once.
LEMMA LayerKeepsMerged ==
  ASSUME TypeOK, MembersLive, NEW basis \in Bases, ApplyLayer(basis),
         NEW id \in 1..(nextId - 1), id \notin live[basis]
  PROVE  /\ id \notin live'[basis]
         /\ {m \in merges'[basis] : m[1] = id} = {m \in merges[basis] : m[1] = id}
<1>1. PICK number \in [Unnamed(basis) -> NewNumbers(basis)] :
        /\ \A c, d \in Unnamed(basis) : number[c] = number[d] => c = d
        /\ live'[basis] = Surviving(basis) \cup NewNumbers(basis)
        /\ merges'[basis] = merges[basis] \cup Merges(basis)
  BY LayerTables
<1>2. id \notin NewNumbers(basis)
  <2>1. \A n \in NewNumbers(basis) : n >= nextId
    BY <1>1, NumbersGiven
  <2>2. nextId \in Nat
    BY DEF TypeOK
  <2> QED BY <2>1, <2>2
<1>3. id \notin Surviving(basis)
  BY SurvivingFacts
<1>4. \A m \in Merges(basis) : m[1] # id
  BY MergesFacts
<1> QED BY <1>1, <1>2, <1>3, <1>4

-----------------------------------------------------------------------------
(* Citations.                                                              *)

\* Writing a layer leaves every number given resolved.
LEMMA LayerResolves ==
  ASSUME TypeOK, MembersLive, MergedGone, CitationsResolve, NEW basis \in Bases, ApplyLayer(basis)
  PROVE  CitationsResolve'
<1>1. nextId \in Nat \ {0} /\ nextId' \in Nat \ {0} /\ nextId <= nextId'
  BY LayerKeeps DEF TypeOK
<1>2. Apart(basis)
  BY LayerTables
<1>3. ASSUME NEW to \in Nat, to \in live[basis] \/ \E m \in merges[basis] : m[1] = to
      PROVE  to \in live'[basis] \/ \E m \in merges'[basis] : m[1] = to
  <2>1. CASE to \in live[basis]
    <3>1. Leads(basis, to)
      BY <2>1, LayerLeads
    <3>2. CASE to \in live'[basis]
      BY <3>2
    <3>3. CASE to \notin live'[basis]
      <4> DEFINE here == member'[basis][Anchor(member[basis], to)]
      <4>1. here # to
        BY <3>1, <3>3 DEF Leads
      <4>2. <<to, here>> \in merges'[basis]
        BY <3>1, <4>1 DEF Leads
      <4>3. <<to, here>>[1] = to
        OBVIOUS
      <4> HIDE DEF here
      <4> QED BY <4>2, <4>3
    <3> QED BY <3>2, <3>3
  <2>2. CASE \E m \in merges[basis] : m[1] = to
    BY <2>2, LayerTables
  <2> QED BY <1>3, <2>1, <2>2
<1>4. ASSUME NEW id \in 1..(nextId' - 1), id \in live'[basis]
      PROVE  \E b \in Bases : id \in live'[b] /\ Members(member'[b], id) # {}
  <2>1. MembersLive'
    BY LayerKeeps
  <2>2. \E f \in Features : member'[basis][f] = id
    BY <1>4, <2>1 DEF MembersLive
  <2>3. Members(member'[basis], id) # {}
    BY <2>2 DEF Members
  <2> QED BY <1>4, <2>3
<1>5. ASSUME NEW id \in 1..(nextId - 1), NEW b \in Bases, id \in live[b], Members(member[b], id) # {}
      PROVE  \E c \in Bases :
               \/ id \in live'[c] /\ Members(member'[c], id) # {}
               \/ /\ id \notin live'[c]
                  /\ \E to \in 1..(id - 1) :
                       /\ {m \in merges'[c] : m[1] = id} = {<<id, to>>}
                       /\ to \in live'[c] \/ \E m \in merges'[c] : m[1] = to
  <2>1. CASE b # basis
    <3>1. member'[b] = member[b] /\ live'[b] = live[b]
      BY <2>1, <1>2 DEF Apart
    <3>2. id \in live'[b] /\ Members(member'[b], id) # {}
      BY <3>1, <1>5
    <3> QED BY <3>2
  <2>2. CASE b = basis
    <3>1. Leads(basis, id)
      BY <2>2, <1>5, LayerLeads
    <3>2. CASE id \in live'[basis]
      <4>1. id \in 1..(nextId' - 1)
        BY <1>1, Spans
      <4> QED BY <3>2, <4>1, <1>4
    <3>3. CASE id \notin live'[basis]
      <4> DEFINE here == member'[basis][Anchor(member[basis], id)]
      <4>1. /\ here \in live'[basis]
            /\ here \in 1..(id - 1)
            /\ {m \in merges'[basis] : m[1] = id} = {<<id, here>>}
        BY <3>1, <3>3 DEF Leads
      <4> HIDE DEF here
      <4> QED BY <4>1, <3>3
    <3> QED BY <3>2, <3>3
  <2> QED BY <2>1, <2>2
<1>6. ASSUME NEW id \in 1..(nextId - 1), NEW b \in Bases, id \notin live[b],
             NEW to \in 1..(id - 1),
             {m \in merges[b] : m[1] = id} = {<<id, to>>},
             to \in live[b] \/ \E m \in merges[b] : m[1] = to
      PROVE  /\ id \notin live'[b]
             /\ {m \in merges'[b] : m[1] = id} = {<<id, to>>}
             /\ to \in live'[b] \/ \E m \in merges'[b] : m[1] = to
  <2>1. CASE b # basis
    <3>1. merges'[b] = merges[b] /\ live'[b] = live[b]
      BY <2>1, <1>2 DEF Apart
    <3> QED BY <3>1, <1>6
  <2>2. CASE b = basis
    <3>1. id \notin live'[b] /\ {m \in merges'[b] : m[1] = id} = {m \in merges[b] : m[1] = id}
      BY <2>2, <1>6, LayerKeepsMerged
    <3>2. to \in live'[b] \/ \E m \in merges'[b] : m[1] = to
      BY <2>2, <1>6, <1>3
    <3> QED BY <3>1, <3>2, <1>6
  <2> QED BY <2>1, <2>2
<1>7. ASSUME NEW id \in 1..(nextId' - 1)
      PROVE  \E c \in Bases :
               \/ id \in live'[c] /\ Members(member'[c], id) # {}
               \/ /\ id \notin live'[c]
                  /\ \E to \in 1..(id - 1) :
                       /\ {m \in merges'[c] : m[1] = id} = {<<id, to>>}
                       /\ to \in live'[c] \/ \E m \in merges'[c] : m[1] = to
  <2>1. CASE id \in nextId..(nextId' - 1)
    BY <2>1, <1>4, LayerKeeps
  <2>2. CASE id \in 1..(nextId - 1)
    <3>1. PICK b \in Bases :
             \/ id \in live[b] /\ Members(member[b], id) # {}
             \/ /\ id \notin live[b]
                /\ \E to \in 1..(id - 1) :
                     /\ {m \in merges[b] : m[1] = id} = {<<id, to>>}
                     /\ to \in live[b] \/ \E m \in merges[b] : m[1] = to
      BY <2>2 DEF CitationsResolve
    <3>2. CASE id \in live[b] /\ Members(member[b], id) # {}
      BY <2>2, <3>2, <1>5
    <3>3. CASE /\ id \notin live[b]
               /\ \E to \in 1..(id - 1) :
                    /\ {m \in merges[b] : m[1] = id} = {<<id, to>>}
                    /\ to \in live[b] \/ \E m \in merges[b] : m[1] = to
      <4>1. PICK to \in 1..(id - 1) :
               /\ {m \in merges[b] : m[1] = id} = {<<id, to>>}
               /\ to \in live[b] \/ \E m \in merges[b] : m[1] = to
        BY <3>3
      <4>2. /\ id \notin live'[b]
            /\ {m \in merges'[b] : m[1] = id} = {<<id, to>>}
            /\ to \in live'[b] \/ \E m \in merges'[b] : m[1] = to
        BY <2>2, <3>3, <4>1, <1>6
      <4> QED BY <4>2
    <3> QED BY <3>1, <3>2, <3>3
  <2> QED BY <2>1, <2>2, <1>1, Spans
<1> QED BY <1>7 DEF CitationsResolve

-----------------------------------------------------------------------------
(* The inductive invariant.                                                *)

\* A run that wrote its first layer wrote it of what it read.
Written ==
  run = "REVIEWED" =>
    Exact(member["AUTOMATIC"], Edges("AUTOMATIC", read.status), read.features)

\* What a run read is all there is, as long as nothing arrived.
ReadAll ==
  fresh =>
    /\ run # "NONE" => read.features = known
    /\ run \in {"PAIRS", "REVIEWED"} => read.status = status

\* A run under way has not reached its end.
NotSettled == run # "NONE" => ~settled

\* The layers are of what there is, once a run that read it reached its end.
LayersExact ==
  settled /\ fresh => \A basis \in Bases : Exact(member[basis], Edges(basis, status), known)

IInv ==
  /\ TypeOK /\ MembersLive /\ MergedGone /\ CitationsResolve
  /\ Written /\ ReadAll /\ NotSettled /\ LayersExact /\ NestedAfterRun

\* A layer is of what the run read, once it is written.
LEMMA LayerIsExact ==
  ASSUME TypeOK, MembersLive, NEW basis \in Bases, ApplyLayer(basis)
  PROVE  Exact(member'[basis], Edges(basis, read.status), read.features)
<1>1. PICK number \in [Unnamed(basis) -> NewNumbers(basis)] :
        /\ \A c, d \in Unnamed(basis) : number[c] = number[d] => c = d
        /\ member'[basis] = [f \in Features |-> NumberOf(basis, f, number)]
  BY LayerTables
<1>2. Exact([f \in Features |-> NumberOf(basis, f, number)], Edges(basis, read.status), read.features)
  BY <1>1, PlanIsExact
<1> QED BY <1>1, <1>2

\* Two layers of the same decisions are nested: the AUTOMATIC one has more edges.
LEMMA ExactNested ==
  ASSUME NEW st, NEW fs, NEW gs, NEW m, NEW n,
         Exact(m, Edges("AUTOMATIC", st), fs),
         Exact(n, Edges("REVIEWED", st), gs),
         NEW f \in Features, NEW g \in Features, n[f] # 0, n[f] = n[g]
  PROVE  m[f] = m[g]
<1>1. g \in Component(f, Edges("REVIEWED", st))
  BY DEF Exact
<1>2. Edges("REVIEWED", st) \subseteq Edges("AUTOMATIC", st)
  BY EdgesFacts DEF Bases
<1>3. g \in Component(f, Edges("AUTOMATIC", st))
  BY <1>1, <1>2, ComponentMono
<1> QED BY <1>3 DEF Exact

\* The invariant holds before anything is enrolled.
LEMMA InitInv == Init => IInv
<1> SUFFICES ASSUME Init
             PROVE  IInv
  OBVIOUS
<1>1. NoRead \in [features : SUBSET Features, status : [Pairs -> Status]]
  BY DEF NoRead, Status
<1>2. TypeOK
  BY <1>1, ConstantsOK DEF Init, TypeOK, Status, Points, Bases
<1>3. MembersLive
  BY DEF Init, MembersLive
<1>4. MergedGone /\ NotSettled /\ Written
  BY DEF Init, MergedGone, NotSettled, Written
<1>5. CitationsResolve
  <2>1. 1..(nextId - 1) = {}
    BY DEF Init
  <2> QED BY <2>1 DEF CitationsResolve
<1>6. ReadAll
  BY DEF Init, ReadAll
<1>7. LayersExact
  <2>1. ASSUME NEW basis \in Bases
        PROVE  Edges(basis, status) = {}
    BY DEF Init, Edges
  <2>2. ASSUME NEW f \in Features, NEW g \in Component(f, {})
        PROVE  g = f
    BY ComponentAlone
  <2>3. ASSUME NEW basis \in Bases
        PROVE  Exact(member[basis], Edges(basis, status), known)
    <3>1. \A f \in Features : member[basis][f] = 0
      BY DEF Init
    <3>2. known = {}
      BY DEF Init
    <3> QED BY <2>1, <2>2, <3>1, <3>2 DEF Exact
  <2> QED BY <2>3 DEF LayersExact
<1>8. NestedAfterRun
  BY DEF Init, NestedAfterRun, Nested, Bases
<1> QED BY <1>2, <1>3, <1>4, <1>5, <1>6, <1>7, <1>8 DEF IInv

\* Steps that leave the tables keep what is said of the tables alone.
LEMMA TablesKeep ==
  ASSUME IInv, UNCHANGED tables
  PROVE  MembersLive' /\ MergedGone' /\ CitationsResolve'
<1>1. UNCHANGED <<member, live, merges, nextId>>
  BY DEF tables
<1>2. MembersLive' /\ MergedGone'
  BY <1>1 DEF IInv, MembersLive, MergedGone
<1>3. CitationsResolve'
  BY <1>1 DEF IInv, CitationsResolve
<1> QED BY <1>2, <1>3

\* What arrives keeps it: nothing is fresh any more.
LEMMA ArrivalInv ==
  ASSUME IInv, UNCHANGED <<tables, run, read, settled>>, fresh' = FALSE, TypeOK'
  PROVE  IInv'
<1>1. MembersLive' /\ MergedGone' /\ CitationsResolve'
  BY TablesKeep
<1>2. Written' /\ NotSettled' /\ NestedAfterRun'
  BY DEF IInv, Written, NotSettled, NestedAfterRun, Nested, tables
<1>3. ReadAll' /\ LayersExact'
  BY DEF ReadAll, LayersExact
<1> QED BY <1>1, <1>2, <1>3 DEF IInv

\* A run that reads or stops leaves the layers as they are.
LEMMA ReadInv ==
  ASSUME IInv, RunReadsFeatures \/ RunReadsPairs \/ RunStops
  PROVE  IInv'
<1>1. UNCHANGED tables /\ UNCHANGED <<known, gone, status, changes>>
  BY DEF RunReadsFeatures, RunReadsPairs, RunStops
<1>2. MembersLive' /\ MergedGone' /\ CitationsResolve'
  BY <1>1, TablesKeep
<1>3. UNCHANGED <<member, live, merges, nextId>>
  BY <1>1 DEF tables
<1>4. CASE RunReadsFeatures
  <2>1. read' \in [features : SUBSET Features, status : [Pairs -> Status]] /\ read'.features = known
    BY <1>4 DEF RunReadsFeatures, IInv, TypeOK
  <2>2. TypeOK'
    BY <1>1, <1>3, <1>4, <2>1 DEF RunReadsFeatures, IInv, TypeOK, Points
  <2>3. Written' /\ NotSettled' /\ LayersExact' /\ NestedAfterRun'
    BY <1>4 DEF RunReadsFeatures, Written, NotSettled, LayersExact, NestedAfterRun
  <2>4. ReadAll'
    BY <1>1, <1>4, <2>1 DEF RunReadsFeatures, ReadAll
  <2> QED BY <1>2, <2>2, <2>3, <2>4 DEF IInv
<1>5. CASE RunReadsPairs
  <2>1. /\ read' \in [features : SUBSET Features, status : [Pairs -> Status]]
        /\ read'.features = read.features /\ read'.status = status
    BY <1>5 DEF RunReadsPairs, IInv, TypeOK
  <2>2. TypeOK'
    BY <1>1, <1>3, <1>5, <2>1 DEF RunReadsPairs, IInv, TypeOK, Points
  <2>3. Written' /\ NotSettled' /\ LayersExact' /\ NestedAfterRun'
    BY <1>3, <1>5 DEF RunReadsPairs, IInv, Written, NotSettled, LayersExact, NestedAfterRun
  <2>4. ReadAll'
    BY <1>1, <1>5, <2>1 DEF RunReadsPairs, IInv, ReadAll
  <2> QED BY <1>2, <2>2, <2>3, <2>4 DEF IInv
<1>6. CASE RunStops
  <2>1. read' \in [features : SUBSET Features, status : [Pairs -> Status]]
    BY <1>6 DEF RunStops, NoRead, Status
  <2>2. TypeOK'
    BY <1>1, <1>3, <1>6, <2>1 DEF RunStops, IInv, TypeOK, Points
  <2>3. Written' /\ NotSettled' /\ LayersExact' /\ ReadAll'
    BY <1>6 DEF RunStops, Written, NotSettled, LayersExact, ReadAll
  <2>4. NestedAfterRun'
    BY <1>3, <1>6 DEF RunStops, IInv, NestedAfterRun, Nested
  <2> QED BY <1>2, <2>1, <2>2, <2>3, <2>4 DEF IInv
<1> QED BY <1>4, <1>5, <1>6

\* The first layer is written.
LEMMA AutomaticInv ==
  ASSUME IInv, RunAppliesAutomatic
  PROVE  IInv'
<1>0. "AUTOMATIC" \in Bases /\ ApplyLayer("AUTOMATIC") /\ TypeOK /\ MembersLive /\ MergedGone /\ CitationsResolve
  BY DEF Bases, RunAppliesAutomatic, IInv
<1>1. MembersLive' /\ MergedGone' /\ CitationsResolve'
  BY <1>0, LayerKeeps, LayerResolves
<1>2. TypeOK'
  <2>1. /\ member' \in [Bases -> [Features -> Nat]]
        /\ live' \in [Bases -> SUBSET (1..(nextId' - 1))]
        /\ merges' \in [Bases -> SUBSET ((1..(nextId' - 1)) \X (1..(nextId' - 1)))]
        /\ nextId' \in Nat \ {0}
    BY <1>0, LayerKeeps
  <2> QED BY <1>0, <2>1 DEF RunAppliesAutomatic, TypeOK, Points
<1>3. Written'
  BY <1>0, LayerIsExact DEF RunAppliesAutomatic, Written
<1>4. ~settled /\ run = "PAIRS"
  BY DEF IInv, NotSettled, RunAppliesAutomatic
<1>5. NotSettled' /\ LayersExact' /\ NestedAfterRun'
  BY <1>4 DEF RunAppliesAutomatic, NotSettled, LayersExact, NestedAfterRun
<1>6. ReadAll'
  BY <1>4 DEF IInv, ReadAll, RunAppliesAutomatic
<1> QED BY <1>1, <1>2, <1>3, <1>5, <1>6 DEF IInv

\* The second layer is written, of the decisions the first was written of.
LEMMA ReviewedInv ==
  ASSUME IInv, RunAppliesReviewed
  PROVE  IInv'
<1>0. "REVIEWED" \in Bases /\ ApplyLayer("REVIEWED") /\ TypeOK /\ MembersLive /\ MergedGone /\ CitationsResolve
  BY DEF Bases, RunAppliesReviewed, IInv
<1>1. MembersLive' /\ MergedGone' /\ CitationsResolve'
  BY <1>0, LayerKeeps, LayerResolves
<1>2. TypeOK'
  <2>1. /\ member' \in [Bases -> [Features -> Nat]]
        /\ live' \in [Bases -> SUBSET (1..(nextId' - 1))]
        /\ merges' \in [Bases -> SUBSET ((1..(nextId' - 1)) \X (1..(nextId' - 1)))]
        /\ nextId' \in Nat \ {0}
    BY <1>0, LayerKeeps
  <2>2. NoRead \in [features : SUBSET Features, status : [Pairs -> Status]]
    BY DEF NoRead, Status
  <2> QED BY <1>0, <2>1, <2>2 DEF RunAppliesReviewed, TypeOK, Points
<1>3. Exact(member'["REVIEWED"], Edges("REVIEWED", read.status), read.features)
  BY <1>0, LayerIsExact
<1>4. Exact(member'["AUTOMATIC"], Edges("AUTOMATIC", read.status), read.features)
  <2>1. Apart("REVIEWED")
    BY <1>0, LayerTables
  <2>2. member'["AUTOMATIC"] = member["AUTOMATIC"]
    BY <2>1 DEF Apart, Bases
  <2> QED BY <2>2 DEF IInv, Written, RunAppliesReviewed
<1>5. NestedAfterRun'
  BY <1>3, <1>4, ExactNested DEF NestedAfterRun, Nested
<1>6. LayersExact'
  <2>1. SUFFICES ASSUME fresh'
                 PROVE  \A basis \in Bases : Exact(member'[basis], Edges(basis, status'), known')
    BY DEF LayersExact
  <2>2. read.features = known' /\ read.status = status'
    BY <2>1 DEF IInv, ReadAll, RunAppliesReviewed
  <2> QED BY <1>3, <1>4, <2>2 DEF Bases
<1>7. Written' /\ ReadAll' /\ NotSettled'
  BY DEF RunAppliesReviewed, Written, ReadAll, NotSettled
<1> QED BY <1>1, <1>2, <1>5, <1>6, <1>7 DEF IInv

\* Every step keeps the invariant.
THEOREM StepInv == IInv /\ [Next]_vars => IInv'
<1> SUFFICES ASSUME IInv, [Next]_vars
             PROVE  IInv'
  OBVIOUS
<1>1. ASSUME NEW fs \in SUBSET Features, Enrol(fs)
      PROVE  IInv'
  <2>1. TypeOK'
    <3>1. changes' \in 0..MaxChanges
      BY <1>1, ConstantsOK DEF Enrol, IInv, TypeOK
    <3> QED BY <1>1, <3>1 DEF Enrol, IInv, TypeOK, tables
  <2> QED BY <1>1, <2>1, ArrivalInv DEF Enrol
<1>7. ASSUME NEW f \in Features, Delete(f)
      PROVE  IInv'
  <2>1. TypeOK'
    <3>1. changes' \in 0..MaxChanges
      BY <1>7, ConstantsOK DEF Delete, IInv, TypeOK
    <3> QED BY <1>7, <3>1 DEF Delete, IInv, TypeOK, tables
  <2> QED BY <1>7, <2>1, ArrivalInv DEF Delete
<1>2. ASSUME NEW p \in Pairs, NEW s \in Status, Decide(p, s)
      PROVE  IInv'
  <2>1. TypeOK'
    <3>1. changes' \in 0..MaxChanges
      BY <1>2, ConstantsOK DEF Decide, IInv, TypeOK
    <3>2. status' \in [Pairs -> Status]
      BY <1>2 DEF Decide, IInv, TypeOK
    <3> QED BY <1>2, <3>1, <3>2 DEF Decide, IInv, TypeOK, tables
  <2> QED BY <1>2, <2>1, ArrivalInv DEF Decide
<1>3. CASE RunReadsFeatures \/ RunReadsPairs \/ RunStops
  BY <1>3, ReadInv
<1>4. CASE RunAppliesAutomatic
  BY <1>4, AutomaticInv
<1>5. CASE RunAppliesReviewed
  BY <1>5, ReviewedInv
<1>6. CASE UNCHANGED vars
  <2>1. UNCHANGED <<known, gone, status, member, live, merges, nextId, run, read, settled, fresh, changes>>
    BY <1>6 DEF vars, tables
  <2>2. MembersLive' /\ MergedGone' /\ CitationsResolve'
    BY <2>1, TablesKeep DEF tables
  <2>3. TypeOK'
    BY <2>1 DEF IInv, TypeOK
  <2>4. Written' /\ ReadAll' /\ NotSettled'
    BY <2>1 DEF IInv, Written, ReadAll, NotSettled
  <2>5. LayersExact' /\ NestedAfterRun'
    BY <2>1 DEF IInv, LayersExact, NestedAfterRun, Nested
  <2> QED BY <2>2, <2>3, <2>4, <2>5 DEF IInv
<1> QED BY <1>1, <1>2, <1>3, <1>4, <1>5, <1>6, <1>7 DEF Next

\* The inductive invariant holds in every state.
THEOREM Inductive == Spec => []IInv
<1>1. Init => IInv
  BY InitInv
<1>2. IInv /\ [Next]_vars => IInv'
  BY StepInv
<1> QED BY <1>1, <1>2, PTL DEF Spec

\* Every table and the run hold what their types say.
THEOREM TypeCorrect == Spec => []TypeOK
<1>1. IInv => TypeOK
  BY DEF IInv
<1> QED BY <1>1, Inductive, PTL

\* A layer's rows are a partition: applyLayer (src/cluster/apply.go) leaves no cluster without
\* members and no member without its cluster.
THEOREM MembersLiveAlways == Spec => []MembersLive
<1>1. IInv => MembersLive
  BY DEF IInv
<1> QED BY <1>1, Inductive, PTL

\* A number that was ever cited resolves, through merges that only go to older numbers, to a
\* cluster there is.
THEOREM CitationsResolveAlways == Spec => []CitationsResolve
<1>1. IInv => CitationsResolve
  BY DEF IInv
<1> QED BY <1>1, Inductive, PTL

\* After a run that reached its end, no REVIEWED cluster straddles two AUTOMATIC ones.
THEOREM NestedAfterRunAlways == Spec => []NestedAfterRun
<1>1. IInv => NestedAfterRun
  BY DEF IInv
<1> QED BY <1>1, Inductive, PTL

\* A run that read all there is leaves, however the clusters were extended, merged or split
\* before, exactly the components of the confirmed pairs.
THEOREM FreshIsExactAlways == Spec => []FreshIsExact
<1>1. IInv => FreshIsExact
  <2> SUFFICES ASSUME IInv, settled, fresh, NEW basis \in Bases, NEW f \in known, NEW g \in known
               PROVE  /\ member[basis][f] # 0
                      /\ member[basis][f] = member[basis][g] <=> g \in Component(f, Edges(basis, status))
    BY DEF FreshIsExact
  <2>1. Exact(member[basis], Edges(basis, status), known)
    BY DEF IInv, LayersExact
  <2>2. f \in Features /\ g \in Features
    BY DEF IInv, TypeOK
  <2> QED BY <2>1, <2>2 DEF Exact
<1> QED BY <1>1, Inductive, PTL

\* Rewriting a layer leaves a cluster's anchor in the cluster, or in the one it is merged into.
THEOREM CitationFollowsAnchorAlways == Spec => CitationFollowsAnchor
<1> DEFINE Follows == \A basis \in Bases : \A id \in live[basis] :
                        LET here == member'[basis][Anchor(member[basis], id)]
                        IN  here = id \/ <<id, here>> \in merges'[basis]
<1>1. ASSUME IInv, NEW basis \in Bases, NEW id \in live[basis], Leads(basis, id)
      PROVE  LET here == member'[basis][Anchor(member[basis], id)]
             IN  here = id \/ <<id, here>> \in merges'[basis]
  BY <1>1 DEF Leads
<1>2. ASSUME IInv, NEW basis \in Bases, NEW id \in live[basis], member'[basis] = member[basis]
      PROVE  member'[basis][Anchor(member[basis], id)] = id
  BY <1>2, AnchorsMember DEF IInv
<1>3. ASSUME IInv, NEW layer \in Bases, ApplyLayer(layer)
      PROVE  Follows
  <2> SUFFICES ASSUME NEW basis \in Bases, NEW id \in live[basis]
               PROVE  LET here == member'[basis][Anchor(member[basis], id)]
                      IN  here = id \/ <<id, here>> \in merges'[basis]
    OBVIOUS
  <2>1. CASE basis = layer
    <3>1. Leads(basis, id)
      BY <1>3, <2>1, LayerLeads DEF IInv
    <3> QED BY <1>1, <1>3, <3>1
  <2>2. CASE basis # layer
    <3>1. member'[basis] = member[basis]
      BY <1>3, <2>2, LayerTables DEF IInv, Apart
    <3> QED BY <1>2, <1>3, <3>1
  <2> QED BY <2>1, <2>2
<1>4. ASSUME IInv, UNCHANGED member
      PROVE  Follows
  <2> SUFFICES ASSUME NEW basis \in Bases, NEW id \in live[basis]
               PROVE  member'[basis][Anchor(member[basis], id)] = id
    OBVIOUS
  <2>1. member'[basis] = member[basis]
    BY <1>4
  <2> QED BY <1>2, <1>4, <2>1
<1>5. IInv /\ [Next]_vars => Follows
  <2> SUFFICES ASSUME IInv, [Next]_vars
               PROVE  Follows
    OBVIOUS
  <2>1. CASE RunAppliesAutomatic
    BY <1>3, <2>1 DEF RunAppliesAutomatic, Bases
  <2>2. CASE RunAppliesReviewed
    BY <1>3, <2>2 DEF RunAppliesReviewed, Bases
  <2>3. CASE ~RunAppliesAutomatic /\ ~RunAppliesReviewed
    <3>1. UNCHANGED member
      BY <2>3 DEF Next, Enrol, Delete, Decide, RunReadsFeatures, RunReadsPairs, RunStops, vars, tables
    <3> QED BY <1>4, <3>1
  <2> QED BY <2>1, <2>2, <2>3
<1> HIDE DEF Follows
<1> QED BY <1>5, Inductive, PTL DEF Spec, CitationFollowsAnchor, Follows

-----------------------------------------------------------------------------
(* Sync.  One task at a time is between LockFaceSync and its unlock; what  *)
(* it noted stands until it gives the lock back, as the others only add    *)
(* decisions.                                                              *)

Running == {"MARK", "MATCH", "CLUSTER", "DECISIONS", "BACKLOG", "UNLOCK"}

\* Who runs has the lock.
OneRuns == \A t \in Tasks : pc[t] \in Running <=> lock = t

\* The mark was the newest decision when it was read, and once the clusters are built they have it
\* and all that was there when the lock was taken.
TakenIn ==
  /\ before \in committed \cup {0}
  /\ \A t \in Tasks : pc[t] = "DECISIONS" => before \in clustered \cup {0}
  /\ \A t \in Tasks : pc[t] \in {"DECISIONS", "BACKLOG", "UNLOCK"} => atLock \subseteq clustered

SyncInv == SyncTypeOK /\ OneRuns /\ TakenIn

\* The newest decision is one of those committed.
LEMMA NewestIsCommitted ==
  ASSUME SyncTypeOK
  PROVE  /\ LatestHumanDecisionID \in committed \cup {0} /\ LatestHumanDecisionID \in 0..MaxDecisions
         /\ \A d \in committed : d <= LatestHumanDecisionID
<1> DEFINE S == committed \cup {0}
<1>1. inserted \in 0..MaxDecisions /\ MaxDecisions \in Nat /\ committed \subseteq 1..inserted
  BY SyncConstantsOK DEF SyncTypeOK
<1>2. S \in SUBSET (0..MaxDecisions) /\ S # {} /\ S \in SUBSET Int
  BY <1>1
<1>3. IsFiniteSet(0..MaxDecisions)
  BY <1>1, FS_Interval
<1>4. IsFiniteSet(S) /\ S \in SUBSET Int
  <2> HIDE DEF S
  <2> QED BY <1>2, <1>3, FS_Subset
<1>5. Max(S) \in S /\ \A d \in S : d <= Max(S)
  <2> HIDE DEF S
  <2> QED BY <1>2, <1>4, MaxIsGreatest
<1> QED BY <1>2, <1>5 DEF LatestHumanDecisionID

\* What arrives, and the queue's own steps, leave the task that runs and what it noted alone.
LEMMA SyncQueueInv ==
  ASSUME SyncInv,
         \/ Insert \/ Expire
         \/ \E d \in Decisions : Commit(d)
         \/ \E e \in Embeddings : Embed(e)
         \/ \E x \in announce : Announce(x) \/ AnnounceLost(x)
         \/ \E t \in Tasks : Due(t) \/ Start(t) \/ Finish(t) \/ Skip(t)
  PROVE  SyncInv'
<1> USE SyncConstantsOK DEF SyncInv
<1>1. CASE Insert
  <2>1. SyncTypeOK'
    BY <1>1 DEF Insert, SyncTypeOK, settling
  <2> QED BY <1>1, <2>1 DEF Insert, OneRuns, TakenIn, settling
<1>2. CASE Expire
  <2>1. SyncTypeOK'
    BY <1>2 DEF Expire, SyncTypeOK, settling, arrivals
  <2> QED BY <1>2, <2>1 DEF Expire, OneRuns, TakenIn, settling, arrivals
<1>3. ASSUME NEW d \in Decisions, Commit(d)
      PROVE  SyncInv'
  <2>1. SyncTypeOK'
    BY <1>3 DEF Commit, SyncTypeOK, settling
  <2> QED BY <1>3, <2>1 DEF Commit, OneRuns, TakenIn, settling
<1>4. ASSUME NEW e \in Embeddings, Embed(e)
      PROVE  SyncInv'
  <2>1. SyncTypeOK'
    BY <1>4 DEF Embed, SyncTypeOK, settling
  <2> QED BY <1>4, <2>1 DEF Embed, OneRuns, TakenIn, settling
<1>5. ASSUME NEW x \in announce, Announce(x) \/ AnnounceLost(x)
      PROVE  SyncInv'
  <2>1. SyncTypeOK'
    BY <1>5 DEF Announce, AnnounceLost, Enqueue, SyncTypeOK, settling, arrivals, SyncPoints
  <2>2. OneRuns' /\ TakenIn'
    BY <1>5 DEF Announce, AnnounceLost, Enqueue, SyncTypeOK, OneRuns, TakenIn, Running, settling, arrivals
  <2> QED BY <2>1, <2>2
<1>6. ASSUME NEW t \in Tasks, Due(t) \/ Start(t) \/ Finish(t)
      PROVE  SyncInv'
  <2>1. SyncTypeOK'
    BY <1>6 DEF Due, Start, Finish, SyncTypeOK, settling, arrivals, SyncPoints
  <2>2. OneRuns' /\ TakenIn'
    BY <1>6 DEF Due, Start, Finish, SyncTypeOK, OneRuns, TakenIn, Running, settling, arrivals
  <2> QED BY <2>1, <2>2
<1>7. ASSUME NEW t \in Tasks, Skip(t)
      PROVE  SyncInv'
  <2>1. SyncTypeOK'
    BY <1>7 DEF Skip, Enqueue, SyncTypeOK, settling, arrivals, SyncPoints
  <2>2. OneRuns' /\ TakenIn'
    BY <1>7 DEF Skip, Enqueue, SyncTypeOK, OneRuns, TakenIn, Running, settling, arrivals
  <2> QED BY <2>1, <2>2
<1> QED BY <1>1, <1>2, <1>3, <1>4, <1>5, <1>6, <1>7

\* A task takes the lock, works a pass, and gives the lock back or loses it.
LEMMA SyncPassInv ==
  ASSUME SyncInv, NEW t \in Tasks,
         \/ TryLock(t) \/ Mark(t) \/ Match(t) \/ Cluster(t) \/ CheckDecisions(t) \/ CheckBacklog(t)
         \/ Unlock(t) \/ Fail(t)
  PROVE  SyncInv'
<1> USE SyncConstantsOK DEF SyncInv
<1>1. CASE TryLock(t)
  <2>1. SyncTypeOK'
    <3>1. 1 \in 1..MaxPasses /\ pc' \in [Tasks -> SyncPoints]
      BY <1>1 DEF TryLock, SyncTypeOK, SyncPoints
    <3>2. pass' \in 1..MaxPasses /\ atLock' \subseteq committed /\ lock' \in Tasks \cup {NoTask}
      BY <1>1, <3>1 DEF TryLock, SyncTypeOK
    <3> QED BY <1>1, <3>1, <3>2 DEF TryLock, SyncTypeOK, arrivals
  <2>2. OneRuns'
    BY <1>1 DEF TryLock, SyncTypeOK, OneRuns, Running
  <2>3. TakenIn'
    BY <1>1 DEF TryLock, SyncTypeOK, OneRuns, TakenIn, Running, arrivals
  <2> QED BY <2>1, <2>2, <2>3
<1>2. CASE Mark(t)
  <2>0. LatestHumanDecisionID \in committed \cup {0} /\ LatestHumanDecisionID \in 0..MaxDecisions
    BY NewestIsCommitted
  <2>1. SyncTypeOK'
    BY <1>2, <2>0 DEF Mark, SyncTypeOK, arrivals, SyncPoints
  <2>2. OneRuns'
    BY <1>2 DEF Mark, SyncTypeOK, OneRuns, Running
  <2>3. TakenIn'
    BY <1>2, <2>0 DEF Mark, SyncTypeOK, OneRuns, TakenIn, Running, arrivals
  <2> QED BY <2>1, <2>2, <2>3
<1>3. CASE Match(t)
  <2>1. SyncTypeOK'
    BY <1>3 DEF Match, SyncTypeOK, settling, arrivals, SyncPoints
  <2>2. OneRuns' /\ TakenIn'
    BY <1>3 DEF Match, SyncTypeOK, OneRuns, TakenIn, Running, settling, arrivals
  <2> QED BY <2>1, <2>2
<1>4. CASE Cluster(t)
  <2>1. SyncTypeOK'
    BY <1>4 DEF Cluster, SyncTypeOK, arrivals, SyncPoints
  <2>2. OneRuns' /\ TakenIn'
    BY <1>4 DEF Cluster, SyncTypeOK, OneRuns, TakenIn, Running, arrivals
  <2> QED BY <2>1, <2>2
<1>5. CASE CheckDecisions(t)
  <2>1. SyncTypeOK'
    BY <1>5 DEF CheckDecisions, SyncTypeOK, arrivals, SyncPoints
  <2>2. OneRuns' /\ TakenIn'
    BY <1>5 DEF CheckDecisions, SyncTypeOK, OneRuns, TakenIn, Running, arrivals
  <2> QED BY <2>1, <2>2
<1>6. CASE CheckBacklog(t)
  <2>1. SyncTypeOK'
    BY <1>6 DEF CheckBacklog, SyncTypeOK, arrivals, SyncPoints
  <2>2. OneRuns' /\ TakenIn'
    BY <1>6 DEF CheckBacklog, SyncTypeOK, OneRuns, TakenIn, Running, arrivals
  <2> QED BY <2>1, <2>2
<1>7. CASE Unlock(t)
  <2>1. SyncTypeOK'
    BY <1>7 DEF Unlock, SyncTypeOK, settling, arrivals, SyncPoints
  <2>2. OneRuns' /\ TakenIn'
    BY <1>7 DEF Unlock, SyncTypeOK, OneRuns, TakenIn, Running, settling, arrivals
  <2> QED BY <2>1, <2>2
<1>8. CASE Fail(t)
  <2>1. SyncTypeOK'
    BY <1>8 DEF Fail, SyncTypeOK, settling, arrivals, SyncPoints
  <2>2. OneRuns' /\ TakenIn'
    BY <1>8 DEF Fail, SyncTypeOK, OneRuns, TakenIn, Running, settling, arrivals
  <2> QED BY <2>1, <2>2
<1> QED BY <1>1, <1>2, <1>3, <1>4, <1>5, <1>6, <1>7, <1>8

\* One sync runs at a time, and its notes stand while it runs: the lock, the queue and failures keep it
\* so, for any number of tasks and passes.
LEMMA SyncAlways == SyncSpec => []SyncInv
<1>1. SyncInit => SyncInv
  <2> SUFFICES ASSUME SyncInit
               PROVE  SyncInv
    OBVIOUS
  <2>1. SyncTypeOK
    <3>1. 0 \in 0..MaxDecisions /\ 1 \in 1..MaxPasses /\ 0 \in 0..MaxFails
      BY SyncConstantsOK
    <3>2. pc \in [Tasks -> SyncPoints]
      BY DEF SyncInit, SyncPoints
    <3> QED BY <3>1, <3>2 DEF SyncInit, SyncTypeOK
  <2>2. OneRuns /\ TakenIn
    BY SyncConstantsOK DEF SyncInit, OneRuns, TakenIn, Running
  <2> QED BY <2>1, <2>2 DEF SyncInv
<1>2. SyncInv /\ [SyncNext]_syncVars => SyncInv'
  <2> SUFFICES ASSUME SyncInv, [SyncNext]_syncVars
               PROVE  SyncInv'
    OBVIOUS
  <2>1. CASE UNCHANGED syncVars
    BY <2>1 DEF syncVars, arrivals, settling, SyncInv, SyncTypeOK, OneRuns, TakenIn
  <2>2. CASE SyncNext
    BY <2>2, SyncQueueInv, SyncPassInv DEF SyncNext, Handle
  <2> QED BY <2>1, <2>2
<1> QED BY <1>1, <1>2, PTL DEF SyncSpec

\* The sync's state is well typed, for any decisions, embeddings and tasks.
THEOREM SyncTypeCorrect == SyncSpec => []SyncTypeOK
BY SyncAlways, PTL DEF SyncInv

\* A sync that found the lock free takes in all it found when it took it, whatever came, skipped or
\* failed meanwhile.
THEOREM TakesInAlways == SyncSpec => []TakesInWhatItFound
<1>1. SyncInv => TakesInWhatItFound
  BY DEF SyncInv, TakenIn, TakesInWhatItFound
<1> QED BY SyncAlways, <1>1, PTL

\* Settle that finds no newer decision has left out only what committed late, under a lower id.
THEOREM NoNewerAlways == SyncSpec => NoNewerMeansClustered
<1> DEFINE OneStep ==
      \A t \in Tasks :
        pc[t] = "DECISIONS" /\ pc'[t] = "BACKLOG" /\ same' => \A d \in committed \ clustered : d < before
<1>1. SyncInv /\ [SyncNext]_syncVars => OneStep
  <2> SUFFICES ASSUME SyncInv, [SyncNext]_syncVars, NEW t \in Tasks,
                      pc[t] = "DECISIONS", pc'[t] = "BACKLOG", same', NEW d \in committed \ clustered
               PROVE  d < before
    OBVIOUS
  <2>1. CheckDecisions(t)
    BY DEF SyncInv, SyncTypeOK, SyncNext, syncVars, Insert, Expire, Commit, Embed, Announce, AnnounceLost,
           Enqueue, Due, Start, Finish, Skip, TryLock, Mark, Match, Cluster, CheckDecisions, CheckBacklog,
           Unlock, Fail, Handle
  <2>2. before = LatestHumanDecisionID
    BY <2>1 DEF CheckDecisions
  <2>3. d <= before /\ d \in Nat /\ before \in Nat
    BY <2>2, NewestIsCommitted DEF SyncInv, SyncTypeOK
  <2>4. d # before /\ d # 0
    BY DEF SyncInv, SyncTypeOK, TakenIn
  <2> QED BY <2>3, <2>4
<1> QED BY SyncAlways, <1>1, PTL DEF SyncSpec, NoNewerMeansClustered

-----------------------------------------------------------------------------
(* Decisions.  What one round comes to, case by case; what the loop over   *)
(* the rounds comes to, for any number of them; and what an analysis has   *)
(* decided about the pair at each of its stages.                           *)

HumanCall == [decision : SystemDecisions, level : Conclusions \cup {""}]
Statuses  == {"CONFIRMED", "REJECTED", "PENDING_REVIEW", "DISPUTED", "NONE"}
Settlers  == Roles \cup {"SYSTEM", "NONE"}

\* What an analysis has decided about the pair at each stage: every role once, in the order of the
\* steps, the third only over a dispute; and the second examiner of a comparison decides whatever the
\* first did, unless the pair lost a trace.
Worked ==
  \A a \in Opened :
    LET c == calls[a]
    IN  /\ stage[a] = "EXAMINATION" => c = Unmade
        /\ stage[a] = "VERIFICATION" => c["REVIEWER"] = NoRow
        /\ stage[a] # "REPORT" => c["INCONSISTENCE"] = NoRow
        /\ c["INCONSISTENCE"] # NoRow => Disputed(c)
        /\ IsComparison(type[a]) /\ c["VERIFICATOR"] # NoRow =>
             /\ listed[a]
             /\ stage[a] \in {"INCONSISTENCE", "REPORT"} /\ traces = "ALL" => c["REVIEWER"] # NoRow

DecisionsInv == DecisionsTypeOK /\ Worked

\* The settled ones of some rounds.
SettledOf(rounds) == {r \in rounds : RoundOutcome(r).status \in SettledStatus}

\* acc is the outcome of the latest settled one of the rounds, or of the latest when none is.
LatestOf(acc, rounds) ==
  /\ acc.settled <=> SettledOf(rounds) # {}
  /\ SettledOf(rounds) # {} =>
       acc.round \in SettledOf(rounds) /\ \A r \in SettledOf(rounds) : r <= acc.round
  /\ rounds # {} /\ SettledOf(rounds) = {} => acc.round \in rounds /\ \A r \in rounds : r <= acc.round
  /\ rounds # {} => acc.status = RoundOutcome(acc.round).status /\ acc.by = RoundOutcome(acc.round).by
  /\ rounds = {} => acc.status = "NONE"

Derived == LatestOf(DecidingRound, Rounds)

\* An examiner's conclusion is a decision and a level, and no missing row.
LEMMA CallsAreCalls ==
  /\ \A t \in Types : CallsOf(t) \subseteq HumanCall
  /\ AnyCall \subseteq HumanCall
  /\ NoRow \notin HumanCall /\ NoRow \notin SystemDecisions
<1>1. NoRow \notin HumanCall /\ NoRow \notin SystemDecisions
  BY DecisionsConstantsOK DEF HumanCall
<1>2. ASSUME NEW t \in Types, NEW c \in CallsOf(t)
      PROVE  c \in HumanCall
  <2>1. ASSUME NEW l \in Levels
        PROVE  DecisionOf(l) \in SystemDecisions /\ l \in Conclusions
    BY DecisionsConstantsOK DEF DecisionOf, SystemDecisions
  <2>2. CASE t = "FACIAL_COMPARISON"
    <3>1. PICK l \in Levels : c = [decision |-> DecisionOf(l), level |-> l]
      BY <1>2, <2>2 DEF CallsOf
    <3> QED BY <2>1, <3>1 DEF HumanCall
  <2>3. CASE t # "FACIAL_COMPARISON"
    BY <1>2, <2>3 DEF CallsOf, HumanCall
  <2> QED BY <2>2, <2>3
<1> QED BY <1>1, <1>2 DEF AnyCall

\* What one round comes to, by who has decided.
LEMMA RoundCases ==
  ASSUME NEW c \in [Roles -> HumanCall \cup {NoRow}], NEW sys \in SystemDecisions \cup {NoRow}
  PROVE  LET o == DeriveRound(c, sys)
             v == c["VERIFICATOR"]
             r == c["REVIEWER"]
             i == c["INCONSISTENCE"]
         IN  /\ o = [status |-> o.status, by |-> o.by] /\ o.status \in Statuses /\ o.by \in Settlers
             /\ i # NoRow => o.by = "INCONSISTENCE" /\ o.status \in {"CONFIRMED", "REJECTED", "DISPUTED"}
             /\ i = NoRow /\ v # NoRow /\ r # NoRow =>
                  o.by = "REVIEWER" /\ o.status # "NONE" /\ (o.status = "DISPUTED" <=> v # r)
             /\ i = NoRow /\ v # NoRow /\ r = NoRow => o.by = "VERIFICATOR" /\ o.status = "PENDING_REVIEW"
             /\ i = NoRow /\ v = NoRow => o.by \in {"SYSTEM", "NONE"} /\ o.status # "DISPUTED"
             /\ i = NoRow /\ v = NoRow /\ sys = NoRow => o.status = "NONE"
             /\ o.by \in {"NONE", "VERIFICATOR"} => o.status \notin SettledStatus
<1> DEFINE v == c["VERIFICATOR"]
           r == c["REVIEWER"]
           i == c["INCONSISTENCE"]
           o == DeriveRound(c, sys)
<1>1. ASSUME NEW x \in HumanCall
      PROVE  x.decision \in SystemDecisions
  BY DEF HumanCall
<1>2. ASSUME NEW d \in SystemDecisions
      PROVE  /\ Outcome(d, "DISPUTED") \in {"CONFIRMED", "REJECTED", "DISPUTED"}
             /\ Outcome(d, "PENDING_REVIEW") \in {"CONFIRMED", "REJECTED", "PENDING_REVIEW"}
  BY DEF Outcome, SystemDecisions
<1>3. /\ v \in HumanCall \cup {NoRow} /\ r \in HumanCall \cup {NoRow} /\ i \in HumanCall \cup {NoRow}
      /\ NoRow \notin HumanCall /\ NoRow \notin SystemDecisions
  BY CallsAreCalls DEF Roles
<1>4. CASE i # NoRow
  <2>1. o = [status |-> Outcome(i.decision, "DISPUTED"), by |-> "INCONSISTENCE"]
    BY <1>4 DEF DeriveRound
  <2>2. Outcome(i.decision, "DISPUTED") \in {"CONFIRMED", "REJECTED", "DISPUTED"}
    BY <1>1, <1>2, <1>3, <1>4
  <2> HIDE DEF o, v, r, i
  <2> QED BY <1>4, <2>1, <2>2 DEF Statuses, Settlers, Roles, o, v, r, i
<1>5. CASE i = NoRow /\ v # NoRow /\ r # NoRow
  <2>1. o = [status |-> IF v = r THEN Outcome(v.decision, "PENDING_REVIEW") ELSE "DISPUTED", by |-> "REVIEWER"]
    BY <1>5 DEF DeriveRound
  <2>2. Outcome(v.decision, "PENDING_REVIEW") \in {"CONFIRMED", "REJECTED", "PENDING_REVIEW"}
    BY <1>1, <1>2, <1>3, <1>5
  <2> HIDE DEF o
  <2> QED BY <1>5, <2>1, <2>2 DEF Statuses, Settlers, Roles, o
<1>6. CASE i = NoRow /\ v # NoRow /\ r = NoRow
  <2>1. o = [status |-> "PENDING_REVIEW", by |-> "VERIFICATOR"]
    BY <1>6 DEF DeriveRound
  <2> HIDE DEF o
  <2> QED BY <1>6, <2>1 DEF Statuses, Settlers, Roles, SettledStatus, o
<1>7. CASE i = NoRow /\ v = NoRow /\ sys # NoRow
  <2>1. o = [status |-> Outcome(sys, "PENDING_REVIEW"), by |-> "SYSTEM"]
    BY <1>7 DEF DeriveRound
  <2>2. Outcome(sys, "PENDING_REVIEW") \in {"CONFIRMED", "REJECTED", "PENDING_REVIEW"}
    BY <1>2, <1>7
  <2> HIDE DEF o
  <2> QED BY <1>7, <2>1, <2>2 DEF Statuses, Settlers, Roles, o
<1>8. CASE i = NoRow /\ v = NoRow /\ sys = NoRow
  <2>1. o = [status |-> "NONE", by |-> "NONE"]
    BY <1>8 DEF DeriveRound
  <2> HIDE DEF o
  <2> QED BY <1>8, <2>1 DEF Statuses, Settlers, SettledStatus, o
<1> QED BY <1>4, <1>5, <1>6, <1>7, <1>8

\* A round that its first or its third examiner decided comes to the same whatever the matcher says.
LEMMA PeopleAlone ==
  ASSUME NEW c, NEW s1, NEW s2, c["VERIFICATOR"] # NoRow \/ c["INCONSISTENCE"] # NoRow
  PROVE  DeriveRound(c, s1) = DeriveRound(c, s2)
<1>1. CASE c["INCONSISTENCE"] # NoRow
  BY <1>1 DEF DeriveRound
<1>2. CASE c["INCONSISTENCE"] = NoRow /\ c["REVIEWER"] # NoRow
  BY <1>2 DEF DeriveRound
<1>3. CASE c["INCONSISTENCE"] = NoRow /\ c["REVIEWER"] = NoRow
  BY <1>3 DEF DeriveRound
<1> QED BY <1>1, <1>2, <1>3

\* What a round comes to is a status and a role.
LEMMA OutcomesAre ==
  ASSUME DecisionsTypeOK, NEW r \in 0..Len(type)
  PROVE  /\ RoundOutcome(r).status \in Statuses /\ RoundOutcome(r).by \in Settlers
         /\ system \in SystemDecisions \cup {NoRow}
         /\ r # 0 => r \in Opened /\ calls[r] \in [Roles -> HumanCall \cup {NoRow}]
<1>1. ASSUME r # 0
      PROVE  r \in Opened /\ calls[r] \in [Roles -> HumanCall \cup {NoRow}]
  BY <1>1, CallsAreCalls DEF DecisionsTypeOK, Opened
<1>2. Unmade \in [Roles -> HumanCall \cup {NoRow}]
  BY DEF Unmade
<1>3. system \in SystemDecisions \cup {NoRow}
  BY DEF DecisionsTypeOK
<1> QED BY <1>1, <1>2, <1>3, RoundCases DEF RoundOutcome

\* One turn of the loop takes the round after those considered.
LEMMA ConsiderTakes ==
  ASSUME NEW n \in Nat, NEW rounds \in SUBSET (0..n), n \notin rounds,
         NEW acc, LatestOf(acc, rounds)
  PROVE  LatestOf(Consider(acc, n), rounds \cup {n})
<1> DEFINE o == RoundOutcome(n)
           new == Consider(acc, n)
<1>1. \A r \in rounds : r <= n /\ r # n
  OBVIOUS
<1>2. CASE o.status \in SettledStatus
  <2>1. SettledOf(rounds \cup {n}) = SettledOf(rounds) \cup {n}
    BY <1>2 DEF SettledOf
  <2>2. new = [round |-> n, status |-> o.status, by |-> o.by, settled |-> TRUE]
    BY <1>2 DEF Consider
  <2>3. \A r \in SettledOf(rounds) \cup {n} : r <= n
    BY <1>1 DEF SettledOf
  <2> HIDE DEF new
  <2> QED BY <1>2, <2>1, <2>2, <2>3 DEF LatestOf, SettledOf, new
<1>3. CASE o.status \notin SettledStatus /\ ~acc.settled
  <2>1. SettledOf(rounds \cup {n}) = SettledOf(rounds) /\ SettledOf(rounds) = {}
    BY <1>3 DEF SettledOf, LatestOf
  <2>2. new.round = n /\ new.status = o.status /\ new.by = o.by /\ ~new.settled
    BY <1>3 DEF Consider
  <2> HIDE DEF new
  <2> QED BY <1>1, <1>3, <2>1, <2>2 DEF LatestOf, new
<1>4. CASE o.status \notin SettledStatus /\ acc.settled
  <2>1. SettledOf(rounds \cup {n}) = SettledOf(rounds) /\ SettledOf(rounds) # {} /\ rounds # {}
    BY <1>4 DEF SettledOf, LatestOf
  <2>2. new = acc
    BY <1>4 DEF Consider
  <2> HIDE DEF new
  <2> QED BY <2>1, <2>2 DEF LatestOf, new
<1> QED BY <1>2, <1>3, <1>4

\* The rounds before the next are those before this one, and this one if it is one.
LEMMA RoundsBefore ==
  ASSUME NEW R \in SUBSET Nat, NEW n \in Nat
  PROVE  /\ {r \in R : r < 0} = {}
         /\ {r \in R : r < n + 1} = IF n \in R THEN {r \in R : r < n} \cup {n} ELSE {r \in R : r < n}
         /\ {r \in R : r < n} \in SUBSET (0..n) /\ n \notin {r \in R : r < n}
         /\ (\A r \in R : r < n) => {r \in R : r < n} = R
<1>1. ASSUME NEW r \in R
      PROVE  ~(r < 0) /\ (r < n + 1 <=> r < n \/ r = n) /\ (r < n => r \in 0..n /\ r # n)
  OBVIOUS
<1>2. {r \in R : r < 0} = {}
  BY <1>1
<1>3. CASE n \in R
  BY <1>1, <1>2, <1>3
<1>4. CASE n \notin R
  BY <1>1, <1>2, <1>4
<1> QED BY <1>3, <1>4

\* The loop's answer is its definition's: the pair keeps the outcome of its latest settled round, for any
\* number of rounds.
LEMMA DecidingRoundIsLatest ==
  ASSUME DecisionsTypeOK
  PROVE  Derived
<1> DEFINE L     == Len(type) + 1
           Acc   == [round : 0..Len(type), status : Statuses, by : Settlers, settled : BOOLEAN]
           first == [round |-> 0, status |-> "NONE", by |-> "NONE", settled |-> FALSE]
           Turn(f, n) == IF n = 0 THEN first
                         ELSE IF n - 1 \in Rounds THEN Consider(f[n-1], n - 1) ELSE f[n-1]
           turn  == [n \in 1..L |-> [acc \in Acc |-> IF n - 1 \in Rounds THEN Consider(acc, n - 1) ELSE acc]]
           Loop(f) == f = [n \in 0..L |-> Turn(f, n)]
<1>1. Len(type) \in Nat /\ L \in Nat /\ Opened = 1..Len(type)
  BY DEF DecisionsTypeOK, Opened
<1>2. Rounds \in SUBSET Nat /\ \A r \in Rounds : r < L
  BY <1>1 DEF Rounds
<1>3. first \in Acc
  <2>1. 0 \in 0..Len(type)
    BY <1>1
  <2> QED BY <2>1 DEF Statuses, Settlers
<1>4. ASSUME NEW acc \in Acc, NEW n \in 0..Len(type)
      PROVE  Consider(acc, n) \in Acc
  <2> DEFINE o == RoundOutcome(n)
  <2>1. o.status \in Statuses /\ o.by \in Settlers
    BY OutcomesAre
  <2> HIDE DEF o
  <2>2. acc.settled \in BOOLEAN /\ (acc.settled \/ o.status \in SettledStatus) \in BOOLEAN
    OBVIOUS
  <2>3. [round |-> n, status |-> o.status, by |-> o.by, settled |-> acc.settled \/ o.status \in SettledStatus] \in Acc
    BY <2>1, <2>2
  <2> HIDE DEF Acc
  <2> QED BY <2>3 DEF Consider, o
<1>5. turn \in [1..L -> [Acc -> Acc]]
  <2>1. ASSUME NEW n \in 1..L, NEW acc \in Acc
        PROVE  (IF n - 1 \in Rounds THEN Consider(acc, n - 1) ELSE acc) \in Acc
    <3>1. n - 1 \in 0..Len(type)
      BY <1>1
    <3> HIDE DEF Acc
    <3> QED BY <1>4, <3>1
  <2> HIDE DEF Acc, L
  <2> QED BY <2>1
<1>6. \E f : Loop(f) /\ f \in [0..L -> Acc]
  <2> HIDE DEF turn, Acc, L, first
  <2>0. PICK f : Loops(f, L, Acc, first, turn)
    BY <1>1, <1>3, <1>5, LoopRuns
  <2>1. f \in [0..L -> Acc] /\ \A n \in 0..L : f[n] = IF n = 0 THEN first ELSE turn[n][f[n-1]]
    BY <2>0 DEF Loops
  <2>2. ASSUME NEW n \in 0..L
        PROVE  f[n] = Turn(f, n)
    <3>1. CASE n = 0
      BY <2>1, <3>1
    <3>2. CASE n # 0
      <4>1. n \in 1..L /\ n - 1 \in 0..L
        BY <1>1, <3>2
      <4>2. f[n-1] \in Acc
        BY <2>1, <4>1
      <4>3. turn[n][f[n-1]] = IF n - 1 \in Rounds THEN Consider(f[n-1], n - 1) ELSE f[n-1]
        BY <4>1, <4>2 DEF turn
      <4> QED BY <2>1, <3>2, <4>3
    <3> QED BY <3>1, <3>2
  <2>3. Loop(f)
    <3>1. f = [n \in 0..L |-> f[n]]
      BY <2>1
    <3> HIDE DEF Turn
    <3> QED BY <2>2, <3>1
  <2> QED BY <2>1, <2>3
<1> DEFINE acc == CHOOSE f : Loop(f)
<1>7. Loop(acc) /\ DecidingRound = acc[L]
  <2>1. Loop(acc)
    <3> HIDE DEF Loop
    <3> QED BY <1>6
  <2>2. DecidingRound = acc[L]
    BY DEF DecidingRound
  <2> QED BY <2>1, <2>2
<1> HIDE DEF acc
<1> DEFINE Before(n) == {r \in Rounds : r < n}
           S == {n \in Nat : n <= L => LatestOf(acc[n], Before(n))}
<1>8. 0 \in S
  <2>1. 0 \in 0..L
    BY <1>1
  <2>2. acc[0] = first
    BY <1>7, <2>1
  <2>3. Before(0) = {}
    BY <1>2, RoundsBefore
  <2> HIDE DEF Before
  <2> QED BY <2>2, <2>3 DEF LatestOf, SettledOf
<1>9. \A n \in Nat : n \in S => n + 1 \in S
  <2> SUFFICES ASSUME NEW n \in Nat, LatestOf(acc[n], Before(n)), n + 1 <= L
               PROVE  LatestOf(acc[n+1], Before(n + 1))
    <3> HIDE DEF Before
    <3> QED BY <1>1
  <2>1. n + 1 \in 0..L /\ n + 1 # 0 /\ (n + 1) - 1 = n
    BY <1>1
  <2>2. acc[n+1] = IF n \in Rounds THEN Consider(acc[n], n) ELSE acc[n]
    <3> HIDE DEF L, first
    <3> QED BY <1>7, <2>1
  <2>3. Before(n + 1) = IF n \in Rounds THEN Before(n) \cup {n} ELSE Before(n)
    BY <1>2, RoundsBefore
  <2>4. Before(n) \in SUBSET (0..n) /\ n \notin Before(n)
    BY <1>2, RoundsBefore
  <2> HIDE DEF Before
  <2> QED BY <2>2, <2>3, <2>4, ConsiderTakes
<1>10. LatestOf(acc[L], Before(L))
  <2> HIDE DEF Before
  <2>1. Nat \subseteq S
    <3> HIDE DEF S
    <3> QED BY <1>8, <1>9, SetInduction
  <2> QED BY <1>1, <2>1
<1>11. Before(L) = Rounds
  <2> HIDE DEF L
  <2> QED BY <1>1, <1>2, RoundsBefore
<1> HIDE DEF Before, L
<1> QED BY <1>7, <1>10, <1>11 DEF Derived

\* new is the n values of old, and x.
OneMoreThan(new, old, n, S, x) ==
  new \in [1..(n + 1) -> S] /\ new[n + 1] = x /\ \A i \in 1..n : new[i] = old[i]

\* The columns of a table grow by one at their end.
LEMMA OneMore ==
  ASSUME NEW n \in Nat, NEW S, NEW s \in [1..n -> S], NEW x \in S
  PROVE  OneMoreThan(Append(s, x), s, n, S, x)
<1>1. s \in Seq(S) /\ Len(s) = n
  OBVIOUS
<1> DEFINE w == Append(s, x)
<1>2. w \in Seq(S) /\ Len(w) = n + 1
  BY <1>1
<1>3. \A i \in 1..n : w[i] = s[i]
  BY <1>1
<1>4. w[n + 1] = x
  BY <1>1
<1> HIDE DEF w
<1>5. w \in [1..(n + 1) -> S]
  BY <1>2
<1> QED BY <1>3, <1>4, <1>5 DEF w, OneMoreThan

\* A step submitted: whichever it is, its role had not decided, and the third decides disputes only.
LEMMA SubmitWorked ==
  ASSUME DecisionsInv, NEW a \in Opened, NEW c \in CallsOf(type[a]), Submit(a, c)
  PROVE  DecisionsInv'
<1>1. /\ type \in Seq(Types) /\ Opened = 1..Len(type) /\ type[a] \in Types
      /\ stage \in [Opened -> Stages] /\ calls \in [Opened -> [Roles -> AnyCall \cup {NoRow}]]
      /\ \A b \in Opened, r \in Roles : calls[b][r] \in CallsOf(type[b]) \cup {NoRow}
  BY DEF DecisionsInv, DecisionsTypeOK, Opened
<1>2. c \in AnyCall /\ c # NoRow
  BY <1>1, CallsAreCalls DEF AnyCall
<1>3. UNCHANGED <<type, listed, traces, system, written>> /\ Opened' = Opened
  BY DEF Submit, Opened
<1>4. PICK next \in Stages :
        /\ stage' = [stage EXCEPT ![a] = next]
        /\ CASE stage[a] = "EXAMINATION"   -> next \in {"VERIFICATION"} \cup IF Decides(a) THEN {} ELSE {"REPORT"}
             [] stage[a] = "VERIFICATION"  -> next \in {"INCONSISTENCE"} \cup
                                                IF Decides(a) /\ Disputed(calls'[a]) THEN {} ELSE {"REPORT"}
             [] OTHER                      -> next = "REPORT"
  BY DEF Submit
<1>5. stage[a] # "REPORT" /\ calls' = Recorded(a, c)
  BY DEF Submit
<1> DEFINE role == StepOf(stage[a])
<1>6. role \in Roles
  BY DEF StepOf, Roles
<1>7. calls'[a] = (IF Decides(a) THEN [calls[a] EXCEPT ![role] = c] ELSE calls[a])
      /\ \A b \in Opened \ {a} : calls'[b] = calls[b]
  BY <1>1, <1>5, <1>6 DEF Recorded
<1>8. calls' \in [Opened -> [Roles -> AnyCall \cup {NoRow}]]
  <2>1. [calls[a] EXCEPT ![role] = c] \in [Roles -> AnyCall \cup {NoRow}]
    BY <1>1, <1>2, <1>6
  <2> QED BY <1>1, <1>5, <2>1 DEF Recorded
<1>9. ASSUME NEW b \in Opened, NEW r \in Roles
      PROVE  calls'[b][r] \in CallsOf(type[b]) \cup {NoRow}
  <2>1. CASE b = a
    BY <1>1, <1>6, <1>7, <2>1
  <2>2. CASE b # a
    BY <1>1, <1>7, <2>2
  <2> QED BY <2>1, <2>2
<1>10. stage' \in [Opened -> Stages] /\ stage'[a] = next /\ \A b \in Opened \ {a} : stage'[b] = stage[b]
  BY <1>1, <1>4
<1>11. DecisionsTypeOK'
  BY <1>3, <1>8, <1>9, <1>10 DEF DecisionsInv, DecisionsTypeOK
<1>12. /\ stage[a] = "EXAMINATION" => calls[a] = Unmade
       /\ stage[a] = "VERIFICATION" => calls[a]["REVIEWER"] = NoRow
       /\ calls[a]["INCONSISTENCE"] = NoRow
       /\ IsComparison(type[a]) /\ calls[a]["VERIFICATOR"] # NoRow =>
            /\ listed[a]
            /\ stage[a] \in {"INCONSISTENCE", "REPORT"} /\ traces = "ALL" => calls[a]["REVIEWER"] # NoRow
  BY <1>5 DEF DecisionsInv, Worked
<1>13. IsComparison(type[a]) => /\ InScope(a) => listed[a]
                                /\ listed[a] /\ traces = "ALL" => InScope(a)
  BY DEF InScope
<1>14. Worked'
  <2> SUFFICES ASSUME NEW b \in Opened
               PROVE  /\ stage'[b] = "EXAMINATION" => calls'[b] = Unmade
                      /\ stage'[b] = "VERIFICATION" => calls'[b]["REVIEWER"] = NoRow
                      /\ stage'[b] # "REPORT" => calls'[b]["INCONSISTENCE"] = NoRow
                      /\ calls'[b]["INCONSISTENCE"] # NoRow => Disputed(calls'[b])
                      /\ IsComparison(type[b]) /\ calls'[b]["VERIFICATOR"] # NoRow =>
                           /\ listed[b]
                           /\ stage'[b] \in {"INCONSISTENCE", "REPORT"} /\ traces = "ALL"
                                => calls'[b]["REVIEWER"] # NoRow
    BY <1>3 DEF Worked, Disputed
  <2>1. CASE b # a
    BY <1>7, <1>10, <2>1 DEF DecisionsInv, Worked
  <2>2. CASE b = a /\ stage[a] = "EXAMINATION"
    <3>1. role = "VERIFICATOR" /\ next \in {"VERIFICATION", "REPORT"} /\ (Decides(a) => next = "VERIFICATION")
      BY <1>4, <2>2 DEF StepOf
    <3>2. Decides(a) <=> InScope(a)
      BY <2>2 DEF Decides
    <3>3. /\ calls'[a]["REVIEWER"] = NoRow /\ calls'[a]["INCONSISTENCE"] = NoRow
          /\ calls'[a]["VERIFICATOR"] # NoRow => Decides(a)
      BY <1>1, <1>7, <1>12, <2>2, <3>1 DEF Unmade, Roles
    <3> QED BY <1>10, <1>13, <2>2, <3>1, <3>2, <3>3
  <2>3. CASE b = a /\ stage[a] = "VERIFICATION"
    <3>1. role = "REVIEWER" /\ next \in {"INCONSISTENCE", "REPORT"}
      BY <1>4, <2>3 DEF StepOf
    <3>2. Decides(a) <=> InScope(a)
      BY <2>3 DEF Decides
    <3>3. /\ calls'[a]["INCONSISTENCE"] = NoRow /\ calls'[a]["VERIFICATOR"] = calls[a]["VERIFICATOR"]
          /\ Decides(a) => calls'[a]["REVIEWER"] # NoRow
      BY <1>1, <1>2, <1>7, <1>12, <3>1 DEF Roles
    <3> QED BY <1>10, <1>12, <1>13, <2>3, <3>1, <3>2, <3>3
  <2>4. CASE b = a /\ stage[a] = "INCONSISTENCE"
    <3>1. role = "INCONSISTENCE" /\ next = "REPORT"
      BY <1>4, <2>4 DEF StepOf
    <3>2. /\ calls'[a]["VERIFICATOR"] = calls[a]["VERIFICATOR"] /\ calls'[a]["REVIEWER"] = calls[a]["REVIEWER"]
          /\ calls'[a]["INCONSISTENCE"] # NoRow => Decides(a)
      BY <1>1, <1>7, <1>12, <3>1 DEF Roles
    <3>3. Decides(a) => Disputed(calls[a])
      BY <2>4 DEF Decides
    <3> QED BY <1>10, <1>12, <2>4, <3>1, <3>2, <3>3 DEF Disputed
  <2> QED BY <1>1, <1>5, <2>1, <2>2, <2>3, <2>4 DEF Stages
<1> QED BY <1>11, <1>14 DEF DecisionsInv

\* An analysis opened has decided nothing.
LEMMA OpenWorked ==
  ASSUME DecisionsInv, NEW t \in Types, NEW lists \in BOOLEAN, Open(t, lists)
  PROVE  DecisionsInv'
<1> DEFINE n == Len(type)
<1>1. n \in Nat /\ Opened = 1..n /\ type \in [1..n -> Types] /\ n < MaxAnalyses /\ MaxAnalyses \in Nat
  <2>1. type \in Seq(Types) /\ n < MaxAnalyses
    BY DEF DecisionsInv, DecisionsTypeOK, Open
  <2>2. DOMAIN type = 1..n /\ n \in Nat /\ type \in [1..n -> Types]
    BY <2>1
  <2> QED BY <2>1, <2>2, DecisionsConstantsOK DEF Opened
<1>2. /\ stage \in [1..n -> Stages] /\ listed \in [1..n -> BOOLEAN]
      /\ calls \in [1..n -> [Roles -> AnyCall \cup {NoRow}]]
      /\ "EXAMINATION" \in Stages /\ Unmade \in [Roles -> AnyCall \cup {NoRow}]
  BY <1>1 DEF DecisionsInv, DecisionsTypeOK, Stages, Unmade
<1>3. /\ type' = Append(type, t) /\ stage' = Append(stage, "EXAMINATION")
      /\ listed' = Append(listed, lists) /\ calls' = Append(calls, Unmade)
      /\ UNCHANGED <<traces, system, written>>
  BY DEF Open
<1> HIDE DEF n
<1>4. /\ type' \in [1..(n + 1) -> Types] /\ type'[n + 1] = t /\ \A i \in 1..n : type'[i] = type[i]
      /\ stage' \in [1..(n + 1) -> Stages] /\ stage'[n + 1] = "EXAMINATION" /\ \A i \in 1..n : stage'[i] = stage[i]
      /\ listed' \in [1..(n + 1) -> BOOLEAN] /\ \A i \in 1..n : listed'[i] = listed[i]
      /\ calls' \in [1..(n + 1) -> [Roles -> AnyCall \cup {NoRow}]] /\ calls'[n + 1] = Unmade
      /\ \A i \in 1..n : calls'[i] = calls[i]
  <2>1. OneMoreThan(type', type, n, Types, t) /\ OneMoreThan(stage', stage, n, Stages, "EXAMINATION")
    BY <1>1, <1>2, <1>3, OneMore
  <2>2. OneMoreThan(listed', listed, n, BOOLEAN, lists)
    BY <1>1, <1>2, <1>3, OneMore
  <2>3. OneMoreThan(calls', calls, n, [Roles -> AnyCall \cup {NoRow}], Unmade)
    BY <1>1, <1>2, <1>3, OneMore
  <2> QED BY <2>1, <2>2, <2>3 DEF OneMoreThan
<1>5. Opened' = 1..(n + 1) /\ \A i \in 1..(n + 1) : i \in 1..n \/ i = n + 1
  BY <1>1, <1>4 DEF Opened
<1>6. type' \in Seq(Types) /\ Len(type') <= MaxAnalyses
  BY <1>1, <1>4
<1>7. ASSUME NEW b \in 1..(n + 1), NEW r \in Roles
      PROVE  calls'[b][r] \in CallsOf(type'[b]) \cup {NoRow}
  <2>1. CASE b \in 1..n
    BY <1>1, <1>4, <2>1 DEF DecisionsInv, DecisionsTypeOK
  <2>2. CASE b = n + 1
    BY <1>4, <2>2 DEF Unmade
  <2> QED BY <1>5, <2>1, <2>2
<1>8. DecisionsTypeOK'
  BY <1>3, <1>4, <1>5, <1>6, <1>7 DEF DecisionsInv, DecisionsTypeOK
<1>9. Worked'
  <2> SUFFICES ASSUME NEW b \in 1..(n + 1)
               PROVE  /\ stage'[b] = "EXAMINATION" => calls'[b] = Unmade
                      /\ stage'[b] = "VERIFICATION" => calls'[b]["REVIEWER"] = NoRow
                      /\ stage'[b] # "REPORT" => calls'[b]["INCONSISTENCE"] = NoRow
                      /\ calls'[b]["INCONSISTENCE"] # NoRow => Disputed(calls'[b])
                      /\ IsComparison(type'[b]) /\ calls'[b]["VERIFICATOR"] # NoRow =>
                           /\ listed'[b]
                           /\ stage'[b] \in {"INCONSISTENCE", "REPORT"} /\ traces = "ALL"
                                => calls'[b]["REVIEWER"] # NoRow
    BY <1>3, <1>5 DEF Worked, Disputed
  <2>1. CASE b \in 1..n
    <3>1. stage'[b] = stage[b] /\ calls'[b] = calls[b] /\ type'[b] = type[b] /\ listed'[b] = listed[b] /\ b \in Opened
      BY <1>1, <1>4, <2>1
    <3> QED BY <3>1 DEF DecisionsInv, Worked
  <2>2. CASE b = n + 1
    <3>1. \A r \in Roles : calls'[b][r] = NoRow
      BY <1>4, <2>2 DEF Unmade
    <3>2. calls'[b]["REVIEWER"] = NoRow /\ calls'[b]["INCONSISTENCE"] = NoRow /\ calls'[b]["VERIFICATOR"] = NoRow
      BY <3>1 DEF Roles
    <3>3. stage'[b] = "EXAMINATION" /\ calls'[b] = Unmade
      BY <1>4, <2>2
    <3> QED BY <3>2, <3>3
  <2> QED BY <1>5, <2>1, <2>2
<1> QED BY <1>8, <1>9 DEF DecisionsInv

\* What each analysis has decided is what its stage says, for any number of analyses and levels.
LEMMA DecisionsAlways == DecisionsSpec => [](DecisionsInv /\ Derived)
<1>1. DecisionsInit => DecisionsInv
  <2> SUFFICES ASSUME DecisionsInit
               PROVE  DecisionsInv
    OBVIOUS
  <2>1. Opened = {} /\ Len(type) = 0 /\ type \in Seq(Types)
    BY DEF DecisionsInit, Opened
  <2>2. stage \in [{} -> Stages] /\ listed \in [{} -> BOOLEAN] /\ calls \in [{} -> [Roles -> AnyCall \cup {NoRow}]]
    BY DEF DecisionsInit
  <2>3. system = NoRow /\ traces = "ALL" /\ written = 0 /\ 0 \in 0..MaxSystem /\ 0 <= MaxAnalyses
    <3>1. MaxAnalyses \in Nat /\ MaxSystem \in Nat
      BY DecisionsConstantsOK
    <3> QED BY <3>1 DEF DecisionsInit
  <2> QED BY <2>1, <2>2, <2>3 DEF DecisionsInv, DecisionsTypeOK, Worked
<1>2. DecisionsInv /\ [DecisionsNext]_decisionsVars => DecisionsInv'
  <2> SUFFICES ASSUME DecisionsInv, [DecisionsNext]_decisionsVars
               PROVE  DecisionsInv'
    OBVIOUS
  <2>1. CASE UNCHANGED decisionsVars
    BY <2>1 DEF decisionsVars, DecisionsInv, DecisionsTypeOK, Worked, Opened, Disputed
  <2>2. ASSUME NEW d \in SystemDecisions, MatcherDecides(d)
        PROVE  DecisionsInv'
    <3>1. DecisionsTypeOK'
      <4>1. MaxSystem \in Nat
        BY DecisionsConstantsOK
      <4>2. written' \in 0..MaxSystem /\ system' \in SystemDecisions \cup {NoRow}
        BY <2>2, <4>1 DEF MatcherDecides, DecisionsInv, DecisionsTypeOK
      <4> QED BY <2>2, <4>2 DEF MatcherDecides, DecisionsInv, DecisionsTypeOK, Opened
    <3>2. Worked'
      BY <2>2 DEF MatcherDecides, DecisionsInv, Worked, Opened, Disputed
    <3> QED BY <3>1, <3>2 DEF DecisionsInv
  <2>3. ASSUME NEW a \in Opened, AddPair(a)
        PROVE  DecisionsInv'
    <3>1. DecisionsTypeOK'
      BY <2>3 DEF AddPair, DecisionsInv, DecisionsTypeOK, Opened
    <3>2. Worked'
      BY <2>3 DEF AddPair, DecisionsInv, DecisionsTypeOK, Worked, Opened, Disputed
    <3> QED BY <3>1, <3>2 DEF DecisionsInv
  <2>4. CASE DeleteTrace
    BY <2>4 DEF DeleteTrace, DecisionsInv, DecisionsTypeOK, Worked, Opened, Disputed
  <2> QED BY <2>1, <2>2, <2>3, <2>4, OpenWorked, SubmitWorked DEF DecisionsNext
<1>3. DecisionsInv => Derived
  BY DecidingRoundIsLatest DEF DecisionsInv
<1> QED BY <1>1, <1>2, <1>3, PTL DEF DecisionsSpec

\* The pair's rounds and its SYSTEM decision are well typed, for any analyses and levels.
THEOREM DecisionsTypeCorrect == DecisionsSpec => []DecisionsTypeOK
BY DecisionsAlways, PTL DEF DecisionsInv

\* Some rounds are finitely many numbers.
LEMMA RoundsFinite ==
  ASSUME DecisionsTypeOK, NEW R \in SUBSET (0..Len(type)), R # {}
  PROVE  R \in SUBSET Int /\ Max(R) \in R /\ \A r \in R : r <= Max(R)
<1>1. Len(type) \in Nat
  BY DEF DecisionsTypeOK
<1>2. IsFiniteSet(0..Len(type)) /\ R \in SUBSET Int
  BY <1>1, FS_Interval
<1>3. IsFiniteSet(R)
  BY <1>2, FS_Subset
<1> QED BY <1>2, <1>3, MaxIsGreatest

\* The rounds there are, by number.
LEMMA RoundsAre ==
  ASSUME DecisionsTypeOK
  PROVE  /\ Rounds \in SUBSET (0..Len(type)) /\ SettledOf(Rounds) \in SUBSET Rounds
         /\ Opened = 1..Len(type) /\ Len(type) \in Nat
         /\ \A r \in Rounds : r # 0 => r \in Opened /\ calls[r] # Unmade
BY DEF DecisionsTypeOK, Rounds, SettledOf, Opened

\* The loop over the rounds gives the latest settled one, however many there are and in whatever order
\* their rows came.
THEOREM DecidingIsLatestSettledAlways == DecisionsSpec => []DecidingIsLatestSettled
<1>1. ASSUME DecisionsInv, Derived
      PROVE  DecidingIsLatestSettled
  <2> SUFFICES ASSUME Rounds # {}
               PROVE  /\ DecidingRound.round = IF SettledOf(Rounds) # {} THEN Max(SettledOf(Rounds)) ELSE Max(Rounds)
                      /\ DecidingRound.status = RoundOutcome(DecidingRound.round).status
    BY DEF DecidingIsLatestSettled, SettledOf
  <2>1. /\ Rounds \in SUBSET (0..Len(type)) /\ SettledOf(Rounds) \in SUBSET (0..Len(type))
    BY <1>1, RoundsAre DEF DecisionsInv
  <2>2. CASE SettledOf(Rounds) # {}
    <3>1. /\ SettledOf(Rounds) \in SUBSET Int /\ Max(SettledOf(Rounds)) \in SettledOf(Rounds)
          /\ \A r \in SettledOf(Rounds) : r <= Max(SettledOf(Rounds))
      BY <1>1, <2>1, <2>2, RoundsFinite DEF DecisionsInv
    <3>2. /\ DecidingRound.round \in SettledOf(Rounds)
          /\ \A r \in SettledOf(Rounds) : r <= DecidingRound.round
          /\ DecidingRound.status = RoundOutcome(DecidingRound.round).status
      BY <1>1, <2>2 DEF Derived, LatestOf
    <3>3. DecidingRound.round = Max(SettledOf(Rounds))
      BY <3>1, <3>2
    <3> QED BY <2>2, <3>2, <3>3
  <2>3. CASE SettledOf(Rounds) = {}
    <3>1. Rounds \in SUBSET Int /\ Max(Rounds) \in Rounds /\ \A r \in Rounds : r <= Max(Rounds)
      BY <1>1, <2>1, RoundsFinite DEF DecisionsInv
    <3>2. /\ DecidingRound.round \in Rounds /\ \A r \in Rounds : r <= DecidingRound.round
          /\ DecidingRound.status = RoundOutcome(DecidingRound.round).status
      BY <1>1, <2>3 DEF Derived, LatestOf
    <3>3. DecidingRound.round = Max(Rounds)
      BY <3>1, <3>2
    <3> QED BY <2>3, <3>2, <3>3
  <2> QED BY <2>2, <2>3
<1> QED BY DecisionsAlways, <1>1, PTL

\* The two judgements of a dispute agree in every round.
THEOREM DisputesAgreeAlways == DecisionsSpec => []DisputesAgree
<1>1. ASSUME DecisionsInv
      PROVE  DisputesAgree
  <2> SUFFICES ASSUME NEW a \in Opened
               PROVE  /\ Disputed(calls[a]) /\ calls[a]["INCONSISTENCE"] = NoRow
                           <=> DeriveRound(calls[a], system) = [status |-> "DISPUTED", by |-> "REVIEWER"]
                      /\ calls[a]["INCONSISTENCE"] # NoRow => Disputed(calls[a])
    BY DEF DisputesAgree
  <2> DEFINE o == DeriveRound(calls[a], system)
  <2>1. calls[a] \in [Roles -> HumanCall \cup {NoRow}] /\ system \in SystemDecisions \cup {NoRow}
    BY <1>1, CallsAreCalls DEF DecisionsInv, DecisionsTypeOK
  <2>2. /\ o = [status |-> o.status, by |-> o.by]
        /\ o.by = "REVIEWER" /\ o.status = "DISPUTED" <=> Disputed(calls[a]) /\ calls[a]["INCONSISTENCE"] = NoRow
    <3> HIDE DEF o
    <3> QED BY <2>1, RoundCases DEF Disputed, o
  <2>3. calls[a]["INCONSISTENCE"] # NoRow => Disputed(calls[a])
    BY <1>1 DEF DecisionsInv, Worked
  <2> HIDE DEF o
  <2> QED BY <2>2, <2>3 DEF o
<1> QED BY DecisionsAlways, <1>1, PTL

\* The note beside a reviewed link says how its latest later comparison stands, whatever the matcher and
\* the other analyses did meanwhile.
THEOREM LaterLaudoIsTrueAlways == DecisionsSpec => []LaterLaudoIsTrue
<1>1. ASSUME DecisionsInv, Derived
      PROVE  LaterLaudoIsTrue
  <2> DEFINE r     == DecidingRound.round
             later == {a \in Opened : a > r /\ calls[a] # Unmade /\ IsComparison(type[a])}
             last  == Max(later)
             c     == calls[last]
             o     == DeriveRound(c, NoRow)
  <2> SUFFICES ASSUME Reviewed
               PROVE  /\ later = {} <=> LaterLaudo(r) = "NONE"
                      /\ LaterLaudo(r) = "PENDING" => \/ stage[last] # "REPORT" \/ HalfDecided(c)
                                                      \/ traces # "ALL" /\ c["REVIEWER"] = NoRow
                      /\ LaterLaudo(r) = "DISPUTED" => Disputed(c)
                      /\ LaterLaudo(r) = "INCONCLUSIVE" => stage[last] \in {"INCONSISTENCE", "REPORT"} /\ ~Disputed(c)
    BY DEF LaterLaudoIsTrue
  <2>1. CASE later = {}
    <3>1. LaterLaudo(r) = "NONE"
      BY <2>1 DEF LaterLaudo
    <3> HIDE DEF later, r
    <3> QED BY <2>1, <3>1
  <2>2. CASE later # {}
    <3>1. LaterLaudo(r) = IF o.status = "DISPUTED" THEN "DISPUTED"
                          ELSE IF o.status = "PENDING_REVIEW" /\ o.by = "REVIEWER" THEN "INCONCLUSIVE" ELSE "PENDING"
      BY <2>2 DEF LaterLaudo
    <3>2. last \in later
      <4>1. later \in SUBSET (0..Len(type))
        BY <1>1, RoundsAre DEF DecisionsInv
      <4> HIDE DEF later
      <4> QED BY <1>1, <2>2, <4>1, RoundsFinite DEF DecisionsInv
    <3>3. last \in Opened /\ last > r /\ c # Unmade /\ IsComparison(type[last])
      BY <3>2
    <3> HIDE DEF last, later
    <3>4. c \in [Roles -> HumanCall \cup {NoRow}] /\ stage[last] \in Stages
      BY <1>1, <3>3, CallsAreCalls DEF DecisionsInv, DecisionsTypeOK
    <3>5. o.status \notin SettledStatus
      <4> SUFFICES ASSUME o.status \in SettledStatus
                   PROVE  FALSE
        OBVIOUS
      <4>1. c["VERIFICATOR"] # NoRow \/ c["INCONSISTENCE"] # NoRow
        <5> HIDE DEF c
        <5> QED BY <3>4, RoundCases DEF SettledStatus
      <4>2. DeriveRound(c, system) = o
        BY <4>1, PeopleAlone
      <4>3. last # 0 /\ last \in Rounds
        BY <1>1, <3>3, RoundsAre DEF DecisionsInv, Rounds
      <4>4. RoundOutcome(last) = o
        BY <4>2, <4>3 DEF RoundOutcome
      <4>5. last \in SettledOf(Rounds)
        BY <4>3, <4>4 DEF SettledOf
      <4>6. last <= r /\ r \in 0..Len(type) /\ last \in 0..Len(type) /\ Len(type) \in Nat
        BY <1>1, <4>3, <4>5, RoundsAre DEF Derived, LatestOf, DecisionsInv
      <4> HIDE DEF r
      <4> QED BY <3>3, <4>6
    <3>6. /\ c["INCONSISTENCE"] # NoRow => Disputed(c)
          /\ stage[last] = "EXAMINATION" => c = Unmade
          /\ stage[last] = "VERIFICATION" => c["REVIEWER"] = NoRow
          /\ c["VERIFICATOR"] # NoRow /\ stage[last] = "REPORT" /\ traces = "ALL" => c["REVIEWER"] # NoRow
      BY <1>1, <3>3 DEF DecisionsInv, Worked
    <3> HIDE DEF c
    <3>7. c["VERIFICATOR"] = NoRow /\ c["INCONSISTENCE"] = NoRow => c["REVIEWER"] # NoRow
      <4> SUFFICES ASSUME c["VERIFICATOR"] = NoRow, c["INCONSISTENCE"] = NoRow, c["REVIEWER"] = NoRow
                   PROVE  c = Unmade
        BY <3>3 DEF c
      <4> QED BY <3>4 DEF Unmade, Roles
    <3>8. o.status = "DISPUTED" => Disputed(c)
      <4> HIDE DEF o
      <4> QED BY <3>4, <3>6, RoundCases DEF Disputed, o
    <3>9. /\ o.status = "PENDING_REVIEW" /\ o.by = "REVIEWER" =>
               ~Disputed(c) /\ stage[last] \in {"INCONSISTENCE", "REPORT"}
      <4> SUFFICES ASSUME o.status = "PENDING_REVIEW", o.by = "REVIEWER"
                   PROVE  ~Disputed(c) /\ stage[last] \in {"INCONSISTENCE", "REPORT"}
        OBVIOUS
      <4> HIDE DEF o
      <4>1. c["VERIFICATOR"] = c["REVIEWER"] /\ c["REVIEWER"] # NoRow
        BY <3>4, RoundCases DEF o
      <4> QED BY <3>4, <3>6, <4>1 DEF Disputed, Unmade, Roles, Stages
    <3>10. o.status # "DISPUTED" /\ ~(o.status = "PENDING_REVIEW" /\ o.by = "REVIEWER") =>
             stage[last] # "REPORT" \/ HalfDecided(c) \/ (traces # "ALL" /\ c["REVIEWER"] = NoRow)
      <4> SUFFICES ASSUME o.status # "DISPUTED", ~(o.status = "PENDING_REVIEW" /\ o.by = "REVIEWER"),
                          stage[last] = "REPORT", ~(traces # "ALL" /\ c["REVIEWER"] = NoRow)
                   PROVE  HalfDecided(c)
        OBVIOUS
      <4> HIDE DEF o
      <4>1. o.status \in {"PENDING_REVIEW", "NONE"}
        BY <3>4, <3>5, RoundCases DEF Statuses, SettledStatus, o
      <4>2. c["INCONSISTENCE"] = NoRow
        BY <3>4, <4>1, RoundCases DEF o
      <4>3. c["VERIFICATOR"] = NoRow
        BY <3>4, <3>6, <4>1, <4>2, RoundCases DEF o
      <4> QED BY <3>7, <4>2, <4>3 DEF HalfDecided
    <3> HIDE DEF o
    <3> QED BY <2>2, <3>1, <3>8, <3>9, <3>10
  <2> QED BY <2>1, <2>2
<1> QED BY DecisionsAlways, <1>1, PTL

\* What people settled stands by itself, whoever acts: the round that settled the pair comes to the same.
LEMMA SettledStands ==
  ASSUME DecisionsInv, DecisionsInv', [DecisionsNext]_decisionsVars,
         NEW r \in Rounds, RoundOutcome(r).status \in SettledStatus, RoundOutcome(r).by # "SYSTEM"
  PROVE  r \in Rounds' /\ RoundOutcome(r)' = RoundOutcome(r)
<1> DEFINE c == calls[r]
           o == RoundOutcome(r)
<1>1. Opened = 1..Len(type) /\ Len(type) \in Nat /\ r \in 0..Len(type)
  BY RoundsAre DEF DecisionsInv
<1>2. system \in SystemDecisions \cup {NoRow}
  BY DEF DecisionsInv, DecisionsTypeOK
<1>3. r # 0
  <2>1. Unmade \in [Roles -> HumanCall \cup {NoRow}]
        /\ \A x \in Roles : Unmade[x] = NoRow
    BY DEF Unmade
  <2>2. DeriveRound(Unmade, system).by \in {"SYSTEM", "NONE"}
    BY <1>2, <2>1, RoundCases DEF Roles
  <2>3. DeriveRound(Unmade, system).by = "NONE" => DeriveRound(Unmade, system).status \notin SettledStatus
    BY <1>2, <2>1, RoundCases
  <2> SUFFICES ASSUME r = 0
               PROVE  FALSE
    OBVIOUS
  <2>4. RoundOutcome(r) = DeriveRound(Unmade, system)
    BY DEF RoundOutcome
  <2> QED BY <2>2, <2>3, <2>4
<1>4. r \in Opened /\ c # Unmade /\ RoundOutcome(r) = DeriveRound(c, system)
  BY <1>3, RoundsAre DEF DecisionsInv, RoundOutcome
<1>5. c \in [Roles -> HumanCall \cup {NoRow}] /\ stage[r] \in Stages
  BY <1>4, CallsAreCalls DEF DecisionsInv, DecisionsTypeOK
<1> HIDE DEF c
<1>6. /\ c["VERIFICATOR"] # NoRow
      /\ c["INCONSISTENCE"] = NoRow => c["REVIEWER"] # NoRow /\ c["VERIFICATOR"] = c["REVIEWER"]
  <2>1. c["INCONSISTENCE"] # NoRow => Disputed(c)
    BY <1>4 DEF DecisionsInv, Worked, c
  <2>2. DeriveRound(c, system).status \in SettledStatus /\ DeriveRound(c, system).by # "SYSTEM"
    BY <1>4
  <2> QED BY <1>2, <1>5, <2>1, <2>2, RoundCases DEF Disputed, SettledStatus
<1>7. ASSUME r \in Opened', calls'[r] = c
      PROVE  r \in Rounds' /\ RoundOutcome(r)' = RoundOutcome(r)
  <2>1. r \in Rounds'
    BY <1>4, <1>7 DEF Rounds
  <2>2. RoundOutcome(r)' = DeriveRound(c, system')
    BY <1>3, <1>7 DEF RoundOutcome
  <2>3. DeriveRound(c, system') = DeriveRound(c, system)
    BY <1>6, PeopleAlone
  <2> QED BY <1>4, <2>1, <2>2, <2>3
<1>8. CASE UNCHANGED decisionsVars
  BY <1>4, <1>7, <1>8 DEF decisionsVars, Opened, c
<1>9. ASSUME NEW d \in SystemDecisions, MatcherDecides(d)
      PROVE  r \in Rounds' /\ RoundOutcome(r)' = RoundOutcome(r)
  BY <1>4, <1>7, <1>9 DEF MatcherDecides, Opened, c
<1>10. ASSUME NEW t \in Types, NEW lists \in BOOLEAN, Open(t, lists)
       PROVE  r \in Rounds' /\ RoundOutcome(r)' = RoundOutcome(r)
  <2> DEFINE n == Len(type)
  <2>1. /\ n \in Nat /\ r \in 1..n /\ type \in [1..n -> Types]
        /\ calls \in [1..n -> [Roles -> AnyCall \cup {NoRow}]] /\ Unmade \in [Roles -> AnyCall \cup {NoRow}]
    <3>1. type \in Seq(Types)
      BY DEF DecisionsInv, DecisionsTypeOK
    <3>2. n \in Nat /\ type \in [1..n -> Types]
      BY <3>1
    <3>3. Unmade \in [Roles -> AnyCall \cup {NoRow}]
      BY DEF Unmade
    <3> QED BY <1>1, <1>4, <3>2, <3>3 DEF DecisionsInv, DecisionsTypeOK
  <2>2. type' = Append(type, t) /\ calls' = Append(calls, Unmade)
    BY <1>10 DEF Open
  <2> HIDE DEF n
  <2>3. OneMoreThan(type', type, n, Types, t)
    BY <2>1, <2>2, OneMore
  <2>4. OneMoreThan(calls', calls, n, [Roles -> AnyCall \cup {NoRow}], Unmade)
    BY <2>1, <2>2, OneMore
  <2>5. r \in Opened' /\ calls'[r] = c
    BY <2>1, <2>3, <2>4 DEF OneMoreThan, Opened, c
  <2> QED BY <1>7, <2>5
<1>11. ASSUME NEW a \in Opened, AddPair(a)
       PROVE  r \in Rounds' /\ RoundOutcome(r)' = RoundOutcome(r)
  BY <1>4, <1>7, <1>11 DEF AddPair, Opened, c
<1>12. CASE DeleteTrace
  BY <1>4, <1>7, <1>12 DEF DeleteTrace, Opened, c
<1>13. ASSUME NEW a \in Opened, NEW x \in CallsOf(type[a]), Submit(a, x)
       PROVE  r \in Rounds' /\ RoundOutcome(r)' = RoundOutcome(r)
  <2>1. r \in Opened' /\ calls' = Recorded(a, x) /\ stage[a] # "REPORT"
    BY <1>4, <1>13 DEF Submit, Opened
  <2>2. CASE a # r
    BY <1>4, <1>7, <2>1, <2>2 DEF Recorded, c
  <2>3. CASE a = r
    <3>1. /\ stage[r] # "EXAMINATION" /\ c["INCONSISTENCE"] = NoRow
          /\ stage[r] = "VERIFICATION" => c["REVIEWER"] = NoRow
      BY <1>4, <2>1, <2>3 DEF DecisionsInv, Worked, c
    <3>2. stage[r] = "INCONSISTENCE" /\ ~Disputed(c)
      BY <1>5, <1>6, <2>1, <2>3, <3>1 DEF Disputed, Stages
    <3>3. ~Decides(a)
      BY <2>3, <3>2 DEF Decides, c
    <3> QED BY <1>7, <2>1, <3>3 DEF Recorded, c
  <2> QED BY <2>2, <2>3
<1> QED BY <1>8, <1>9, <1>10, <1>11, <1>12, <1>13 DEF DecisionsNext

\* What the pair's deciding round tells of its rounds; and that a settled one, if not by its people, is
\* one its second examiner decided alone.
Told ==
  /\ SettledByPeople(DecidingRound) => DecidingRound.round \in Rounds
  /\ \A r \in Rounds :
       /\ r = DecidingRound.round =>
            DecidingRound.status = RoundOutcome(r).status /\ DecidingRound.by = RoundOutcome(r).by
       /\ RoundOutcome(r).status \in SettledStatus =>
            /\ r <= DecidingRound.round /\ DecidingRound.round \in Rounds
            /\ DecidingRound.status \in SettledStatus
            /\ r # 0 => r \in Opened /\ (RoundOutcome(r).by # "SYSTEM" \/ HalfDecided(calls[r]))

\* What the deciding round tells is so in every state.
LEMMA ToldAlways == DecisionsSpec => []Told
<1>1. ASSUME DecisionsInv, Derived
      PROVE  Told
  <2> DEFINE d == DecidingRound
  <2>1. Rounds # {} => d.status = RoundOutcome(d.round).status /\ d.by = RoundOutcome(d.round).by
    BY <1>1 DEF Derived, LatestOf
  <2>2. SettledByPeople(d) => d.round \in Rounds
    <3> SUFFICES ASSUME SettledByPeople(d)
                 PROVE  d.round \in Rounds
      OBVIOUS
    <3>1. Rounds # {}
      BY <1>1 DEF Derived, LatestOf, SettledByPeople, SettledStatus
    <3>2. CASE SettledOf(Rounds) = {}
      BY <1>1, <3>1, <3>2 DEF Derived, LatestOf
    <3>3. CASE SettledOf(Rounds) # {}
      BY <1>1, <3>3 DEF Derived, LatestOf, SettledOf
    <3> QED BY <3>2, <3>3
  <2>3. ASSUME NEW r \in Rounds, RoundOutcome(r).status \in SettledStatus
        PROVE  r <= d.round /\ d.round \in Rounds /\ d.status \in SettledStatus
    <3>1. r \in SettledOf(Rounds)
      BY <2>3 DEF SettledOf
    <3>2. d.round \in SettledOf(Rounds) /\ r <= d.round
      BY <1>1, <3>1 DEF Derived, LatestOf
    <3> QED BY <2>1, <3>2 DEF SettledOf
  <2>4. ASSUME NEW r \in Rounds, RoundOutcome(r).status \in SettledStatus, r # 0
        PROVE  r \in Opened /\ (RoundOutcome(r).by # "SYSTEM" \/ HalfDecided(calls[r]))
    <3> DEFINE c == calls[r]
    <3>1. r \in Opened /\ c # Unmade /\ RoundOutcome(r) = DeriveRound(c, system)
      BY <1>1, <2>4, RoundsAre DEF DecisionsInv, RoundOutcome
    <3>2. c \in [Roles -> HumanCall \cup {NoRow}] /\ system \in SystemDecisions \cup {NoRow}
      BY <1>1, <3>1, CallsAreCalls DEF DecisionsInv, DecisionsTypeOK
    <3>3. c["VERIFICATOR"] = NoRow /\ c["INCONSISTENCE"] = NoRow => c["REVIEWER"] # NoRow
      <4> SUFFICES ASSUME c["VERIFICATOR"] = NoRow, c["INCONSISTENCE"] = NoRow, c["REVIEWER"] = NoRow
                   PROVE  c = Unmade
        BY <3>1
      <4> HIDE DEF c
      <4> QED BY <3>2 DEF Unmade, Roles
    <3> HIDE DEF c
    <3>4. RoundOutcome(r).by = "SYSTEM" => c["VERIFICATOR"] = NoRow /\ c["INCONSISTENCE"] = NoRow
      BY <3>1, <3>2, RoundCases
    <3> QED BY <3>1, <3>3, <3>4 DEF HalfDecided, c
  <2> HIDE DEF d
  <2> QED BY <2>1, <2>2, <2>3, <2>4 DEF Told, d
<1> QED BY DecisionsAlways, <1>1, PTL

\* What people settled, only people unsettle, and only in a later round, but for a round its second
\* examiner decided alone: of any number of rounds, levels and changes of the matcher's mind.
THEOREM PeopleUndoAlways == DecisionsSpec => PeopleUndoUnlessHalfDecided
<1> DEFINE Allowed ==
      SettledByPeople(DecidingRound) /\ DecidingRound'.status # DecidingRound.status
        => \/ SettledByPeople(DecidingRound') /\ DecidingRound'.round > DecidingRound.round
           \/ DecidingRound'.round \in Opened' /\ HalfDecided(calls'[DecidingRound'.round])
<1>1. ASSUME DecisionsInv, Told, DecisionsInv', Told', [DecisionsNext]_decisionsVars,
             SettledByPeople(DecidingRound), DecidingRound'.status # DecidingRound.status
      PROVE  \/ SettledByPeople(DecidingRound') /\ DecidingRound'.round > DecidingRound.round
             \/ DecidingRound'.round \in Opened' /\ HalfDecided(calls'[DecidingRound'.round])
  <2>1. PICK r \in Rounds : r = DecidingRound.round
    BY <1>1 DEF Told
  <2>2. /\ RoundOutcome(r).status \in SettledStatus /\ RoundOutcome(r).by # "SYSTEM"
        /\ DecidingRound.status = RoundOutcome(r).status /\ r \in Nat
    BY <1>1, <2>1, RoundsAre DEF Told, SettledByPeople, DecisionsInv
  <2>3. r \in Rounds' /\ RoundOutcome(r)' = RoundOutcome(r)
    BY <1>1, <2>2, SettledStands
  <2>4. r <= DecidingRound'.round /\ DecidingRound'.round \in Rounds' /\ DecidingRound'.status \in SettledStatus
    BY <1>1, <2>2, <2>3 DEF Told
  <2>5. PICK q \in Rounds' : q = DecidingRound'.round
    BY <2>4
  <2>6. q \in Nat
    BY <1>1 DEF DecisionsInv, DecisionsTypeOK, Rounds, Opened
  <2>7. /\ DecidingRound'.status = RoundOutcome(q)'.status /\ DecidingRound'.by = RoundOutcome(q)'.by
    BY <1>1, <2>5 DEF Told
  <2>8. q # r
    BY <1>1, <2>2, <2>3, <2>7
  <2>9. q > r /\ q # 0
    BY <2>2, <2>4, <2>5, <2>6, <2>8
  <2>10. q \in Opened' /\ (RoundOutcome(q)'.by # "SYSTEM" \/ HalfDecided(calls'[q]))
    BY <1>1, <2>4, <2>5, <2>7, <2>9 DEF Told, HalfDecided
  <2> QED BY <2>1, <2>4, <2>5, <2>7, <2>9, <2>10 DEF SettledByPeople
<1>2. DecisionsInv /\ Told /\ DecisionsInv' /\ Told' /\ [DecisionsNext]_decisionsVars => Allowed
  BY <1>1
<1> QED BY DecisionsAlways, ToldAlways, <1>2, PTL DEF DecisionsSpec, PeopleUndoUnlessHalfDecided

=============================================================================
