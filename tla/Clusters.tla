------------------------------- MODULE Clusters -------------------------------
(***************************************************************************)
(* The clusters of features and their numbers, rebuilt by cluster.Run      *)
(* from the confirmed pairs.  There are two layers, each reconciled and    *)
(* written in a transaction of its own: AUTOMATIC from every confirmed     *)
(* pair, REVIEWED from those that people confirmed.  Runs exclude one      *)
(* another (lockClusterRun), but not the decisions and features that keep  *)
(* arriving, nor those deleted, and may stop anywhere.  A deleted feature  *)
(* leaves its decisions and its cluster_members behind.                    *)
(*                                                                         *)
(* One modality: an edge joins features of the same one, so a component    *)
(* never mixes two.  Features are numbers, standing for the byte order of  *)
(* their ids.  What union-find computes is stated as connectedness.        *)
(***************************************************************************)
EXTENDS Naturals, FiniteSetsExt

CONSTANTS
  Features,   \* biometric features, in the order of their ids
  MaxChanges  \* bound on decisions and features that arrive, and features deleted

Bases  == {"AUTOMATIC", "REVIEWED"}
Pairs  == {{f, g} : f, g \in Features} \ {{f} : f \in Features}
Status == {"OPEN", "SYSTEM", "PEOPLE"} \* not confirmed; confirmed, and by whom

ASSUME ConstantsOK ==
  /\ Features \subseteq Nat /\ IsFiniteSet(Features)
  /\ MaxChanges \in Nat

VARIABLES
  known,   \* features with a biometric_features row
  gone,    \* features deleted; nothing has their ids again
  status,  \* status[p]: what the pair's chain of decisions derives to (Decisions)
  member,  \* member[basis][f]: cluster_members; 0 for no row
  live,    \* live[basis]: clusters
  merges,  \* merges[basis]: cluster_merges, as <<from, to>>
  nextId,  \* the clusters table's sequence, shared by the layers
  run,     \* where the run holding lockClusterRun is
  read,    \* the features and pairs that run has read
  settled, \* the last run reached its end
  fresh,   \* nothing arrived since that run read it
  changes  \* how many changes arrived

tables == <<member, live, merges, nextId>>
vars   == <<known, gone, status, tables, run, read, settled, fresh, changes>>

Points == {"NONE", "FEATURES", "PAIRS", "REVIEWED"}
NoRead == [features |-> {}, status |-> [p \in Pairs |-> "OPEN"]]

TypeOK ==
  /\ known \subseteq Features /\ gone \subseteq Features
  /\ status \in [Pairs -> Status]
  /\ member \in [Bases -> [Features -> Nat]]
  /\ live \in [Bases -> SUBSET (1..(nextId - 1))]
  /\ merges \in [Bases -> SUBSET ((1..(nextId - 1)) \X (1..(nextId - 1)))]
  /\ nextId \in Nat \ {0}
  /\ run \in Points
  /\ read \in [features : SUBSET Features, status : [Pairs -> Status]]
  /\ settled \in BOOLEAN /\ fresh \in BOOLEAN
  /\ changes \in 0..MaxChanges

-----------------------------------------------------------------------------
(* Reconciling edges with the clusters there are: cluster/reconcile.go.    *)

\* edgesFor: the pairs that build a layer.
Edges(basis, st) ==
  {p \in Pairs : st[p] = "PEOPLE" \/ (basis = "AUTOMATIC" /\ st[p] = "SYSTEM")}

\* The features connected to f by edges, f among them.
Component(f, edges) ==
  {g \in Features : \A S \in SUBSET Features :
     f \in S /\ (\A e \in edges : e \cap S # {} => e \subseteq S) => g \in S}

Members(m, id) == {f \in Features : m[f] = id}

\* A cluster follows its anchor, the smallest of its members.
Anchor(m, id) == Min(Members(m, id))

\* Fault: a cluster follows the largest of its members.
AnchoredByLast(m, ids, c) == {id \in ids : Members(m, id) # {} /\ Max(Members(m, id)) \in c}

\* The clusters of m whose anchor is among the features of component c.
Anchored(m, ids, c) == {id \in ids : Members(m, id) # {} /\ Anchor(m, id) \in c}

\* The components the plan is made of.
Nodes(basis)      == read.features \cup {f \in Features : member[basis][f] # 0}
                       \cup UNION Edges(basis, read.status)
Components(basis) == {Component(f, Edges(basis, read.status)) : f \in Nodes(basis)}

\* Fault: the newest of the joined clusters survives.
KeptNewest(basis, c) == Max(Anchored(member[basis], live[basis], c))

\* Of the clusters a component joins, the oldest survives.
Kept(basis, c) == Min(Anchored(member[basis], live[basis], c))

\* Components that get a number of their own.
Unnamed(basis) == {c \in Components(basis) : Anchored(member[basis], live[basis], c) = {}}

Merges(basis) ==
  UNION {{<<id, Kept(basis, c)>> : id \in Anchored(member[basis], live[basis], c) \ {Kept(basis, c)}} :
           c \in Components(basis) \ Unnamed(basis)}

-----------------------------------------------------------------------------
Init ==
  /\ known = {} /\ gone = {} /\ status = [p \in Pairs |-> "OPEN"]
  /\ member = [b \in Bases |-> [f \in Features |-> 0]]
  /\ live = [b \in Bases |-> {}] /\ merges = [b \in Bases |-> {}]
  /\ nextId = 1
  /\ run = "NONE" /\ read = NoRead
  /\ settled = TRUE /\ fresh = TRUE
  /\ changes = 0

\* Features are enrolled or computed, while a run is under way or not.
Enrol(fs) ==
  /\ changes < MaxChanges
  /\ fs # {} /\ fs \cap (known \cup gone) = {}
  /\ known' = known \cup fs
  /\ changes' = changes + 1 /\ fresh' = FALSE
  /\ UNCHANGED <<gone, status, tables, run, read, settled>>

\* DeleteTrace: a trace takes its feature along, but neither what was decided about it nor its place
\* in the clusters, which have no foreign key to it.
Delete(f) ==
  /\ changes < MaxChanges
  /\ f \in known
  /\ known' = known \ {f} /\ gone' = gone \cup {f}
  /\ changes' = changes + 1 /\ fresh' = FALSE
  /\ UNCHANGED <<status, tables, run, read, settled>>

\* A decision, of the matcher or of people, changes what a pair of features derives to; it may have
\* been on its way when one of them was deleted.
Decide(p, s) ==
  /\ changes < MaxChanges
  /\ p \subseteq known \cup gone /\ status[p] # s
  /\ status' = [status EXCEPT ![p] = s]
  /\ changes' = changes + 1 /\ fresh' = FALSE
  /\ UNCHANGED <<known, gone, tables, run, read, settled>>

\* A run takes the lock and reads the features, then the decisions: once, for both layers.
RunReadsFeatures ==
  /\ run = "NONE"
  /\ run' = "FEATURES"
  /\ read' = [read EXCEPT !.features = known]
  /\ settled' = FALSE /\ fresh' = TRUE
  /\ UNCHANGED <<known, gone, status, tables, changes>>

RunReadsPairs ==
  /\ run = "FEATURES"
  /\ run' = "PAIRS"
  /\ read' = [read EXCEPT !.status = status]
  /\ UNCHANGED <<known, gone, status, tables, settled, fresh, changes>>

\* Fault: the sequence's next value is skipped.
NewNumbersSkipping(basis) == (nextId + 1)..(nextId + Cardinality(Unnamed(basis)))

\* What the sequence gives the new components.
NewNumbers(basis) == nextId..(nextId + Cardinality(Unnamed(basis)) - 1)

\* Fault: a feature stays in the cluster it has.
NumberOfExtending(basis, f, number) ==
  LET c == Component(f, Edges(basis, read.status))
  IN  CASE f \notin Nodes(basis)                      -> 0
        [] f \in Nodes(basis) /\ member[basis][f] # 0 -> member[basis][f]
        [] OTHER -> IF c \in Unnamed(basis) THEN number[c] ELSE Kept(basis, c)

\* The cluster feature f goes to, number being what the new components were given.
NumberOf(basis, f, number) ==
  LET c == Component(f, Edges(basis, read.status))
  IN  CASE f \notin Nodes(basis)                         -> 0
        [] f \in Nodes(basis) /\ c \in Unnamed(basis)    -> number[c]
        [] f \in Nodes(basis) /\ c \notin Unnamed(basis) -> Kept(basis, c)

\* Fault: merged clusters are not deleted.
SurvivingMerged(basis) == live[basis]

\* The clusters that stay; the others are deleted.
Surviving(basis) == {Kept(basis, c) : c \in Components(basis) \ Unnamed(basis)}

\* The layer's plan is made from its clusters as they are and written, in one transaction: new
\* components are numbered in no particular order.
ApplyLayer(basis) ==
  \E number \in [Unnamed(basis) -> NewNumbers(basis)] :
    /\ \A c, d \in Unnamed(basis) : number[c] = number[d] => c = d
    /\ member' = [member EXCEPT ![basis] = [f \in Features |-> NumberOf(basis, f, number)]]
    /\ live' = [live EXCEPT ![basis] = Surviving(basis) \cup NewNumbers(basis)]
    /\ merges' = [merges EXCEPT ![basis] = @ \cup Merges(basis)]
    /\ nextId' = nextId + Cardinality(Unnamed(basis))

\* Fault: the decisions are read again for the second layer.
RunAppliesAutomaticRereads ==
  /\ run = "PAIRS"
  /\ run' = "REVIEWED"
  /\ ApplyLayer("AUTOMATIC")
  /\ read' = [read EXCEPT !.status = status]
  /\ UNCHANGED <<known, gone, status, settled, fresh, changes>>

RunAppliesAutomatic ==
  /\ run = "PAIRS"
  /\ run' = "REVIEWED"
  /\ ApplyLayer("AUTOMATIC")
  /\ UNCHANGED <<known, gone, status, read, settled, fresh, changes>>

RunAppliesReviewed ==
  /\ run = "REVIEWED"
  /\ run' = "NONE" /\ read' = NoRead
  /\ ApplyLayer("REVIEWED")
  /\ settled' = TRUE
  /\ UNCHANGED <<known, gone, status, fresh, changes>>

\* An error, a cancelled task, a crash: the lock goes with the connection, and what was
\* committed stays.
RunStops ==
  /\ run # "NONE"
  /\ run' = "NONE" /\ read' = NoRead
  /\ fresh' = FALSE
  /\ UNCHANGED <<known, gone, status, tables, settled, changes>>

Next ==
  \/ \E fs \in SUBSET Features : Enrol(fs)
  \/ \E f \in Features : Delete(f)
  \/ \E p \in Pairs, s \in Status : Decide(p, s)
  \/ RunReadsFeatures
  \/ RunReadsPairs
  \/ RunAppliesAutomatic
  \/ RunAppliesReviewed
  \/ RunStops

Spec == Init /\ [][Next]_vars

-----------------------------------------------------------------------------
(* Properties.                                                             *)

\* "Old citations resolve to the surviving cluster" (008_clusters.sql): a number ever given out
\* is that of a cluster, or of one merged once, into an older one of its layer.  Following merges
\* therefore ends, at a cluster there is.
CitationsResolve ==
  \A id \in 1..(nextId - 1) :
    \E basis \in Bases :
      \/ id \in live[basis] /\ Members(member[basis], id) # {}
      \/ /\ id \notin live[basis]
         /\ \E to \in 1..(id - 1) :
              /\ {m \in merges[basis] : m[1] = id} = {<<id, to>>}
              /\ to \in live[basis] \/ \E m \in merges[basis] : m[1] = to

\* A number cited keeps leading to the same feature: rewriting a layer leaves a cluster's anchor
\* in the cluster, or in the one it is merged into.
CitationFollowsAnchor ==
  [][\A basis \in Bases : \A id \in live[basis] :
       LET here == member'[basis][Anchor(member[basis], id)]
       IN  here = id \/ <<id, here>> \in merges'[basis]]_vars

\* A layer's rows are a partition: every cluster has members, every member a cluster.
MembersLive ==
  \A basis \in Bases : live[basis] = {member[basis][f] : f \in Features} \ {0}

\* What the incremental rewriting comes to is what the decisions say: once a run has read all
\* there is and reached its end, two features share a cluster exactly when confirmed pairs of
\* that layer connect them, however clusters were extended, merged or split before.
FreshIsExact ==
  settled /\ fresh =>
    \A basis \in Bases : \A f, g \in known :
      /\ member[basis][f] # 0
      /\ member[basis][f] = member[basis][g] <=> g \in Component(f, Edges(basis, status))

Nested ==
  \A f, g \in Features :
    member["REVIEWED"][f] # 0 /\ member["REVIEWED"][f] = member["REVIEWED"][g]
      => member["AUTOMATIC"][f] = member["AUTOMATIC"][g]

\* The layers fit: after a run that reached its end no REVIEWED cluster straddles two AUTOMATIC
\* ones, though decisions came in between its reads and its two transactions.
NestedAfterRun == settled => Nested

\* "Every REVIEWED cluster sits inside one AUTOMATIC cluster" (008_clusters.sql:16-17).
AlwaysNested == Nested
=============================================================================
