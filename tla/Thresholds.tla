------------------------------ MODULE Thresholds ------------------------------
(***************************************************************************)
(* What the matcher decides on a pair, as the cutoffs change: versions of  *)
(* the band (match_thresholds), RunBand, which decides the pairs it finds  *)
(* under the version its sync read, and bulk-match apply, which bands the  *)
(* score store again under the current one, a chunk at a time.             *)
(*                                                                         *)
(* The SYSTEM rows of a pair are kept in a function of the version they    *)
(* cite (the table's unique index), each with the time it was decided at,  *)
(* that of its statement or transaction; the latest is the decision.  What *)
(* RunBand finds is module Gallery: here it is any pair not decided yet.   *)
(***************************************************************************)
EXTENDS Naturals, FiniteSetsExt

CONSTANTS
  MaxPair,     \* pairs of embeddings are 1..MaxPair, by embedding_a_id
  Scores,      \* similarities a pair may have
  Bands,       \* bands, [review, confirm], that may be set
  Fallback,    \* the band used when none is set
  MaxVersions, \* bound on versions set
  Chunk,       \* ids each write of an apply covers
  Applies,     \* runs of bulk-match apply at once
  MaxWrites,   \* bound on the writes stamped with a time
  NoRow        \* a version that decided nothing

Pairs    == 1..MaxPair
Versions == 0..MaxVersions
Decision == {"POSITIVE", "INCONCLUSIVE", "NEGATIVE"}

ASSUME ConstantsOK ==
  /\ MaxPair \in Nat \ {0} /\ MaxVersions \in Nat /\ MaxWrites \in Nat /\ Chunk \in Nat \ {0}
  /\ Scores \subseteq Nat
  /\ Fallback \in Bands /\ Bands \subseteq [review : Nat, confirm : Nat]
  /\ \A b \in Bands : b.review <= b.confirm
  /\ NoRow \notin [decision : Decision, at : Nat]

VARIABLES
  sim,     \* sim[p]: the similarity of the pair
  stored,  \* pairs in bulk_match_scores
  version, \* the latest row of match_thresholds, 0 before there is one
  bandOf,  \* bandOf[v]: its cutoffs
  rows,    \* rows[p][v]: the SYSTEM row of p that cites v
  clock,   \* the time of the last write
  sync,    \* a RunBand in flight
  apply,   \* apply[a]: a run of bulk-match apply
  late     \* pairs written, since the version was set, by a run that read an earlier one

vars == <<sim, stored, version, bandOf, rows, clock, sync, apply, late>>

Row     == [decision : Decision, at : 1..MaxWrites]
NoSync  == [at |-> "NONE", v |-> 0, found |-> {}, time |-> 0]
NoApply == [at |-> "NONE", v |-> 0, next |-> 1, last |-> 0, change |-> {}, time |-> 0,
            begun |-> {}, before |-> {}]

Banded(s, b) == IF s >= b.confirm THEN "POSITIVE" ELSE IF s >= b.review THEN "INCONCLUSIVE" ELSE "NEGATIVE"

Cited(p)  == {v \in Versions : rows[p][v] # NoRow}
Latest(p) == CHOOSE v \in Cited(p) : \A w \in Cited(p) : rows[p][w].at <= rows[p][v].at

\* The pair's SYSTEM decision: NEGATIVE when there is none.
Decided(p) == IF Cited(p) = {} THEN "NEGATIVE" ELSE rows[p][Latest(p)].decision

Init ==
  /\ sim \in [Pairs -> Scores] /\ stored = {}
  /\ version = 0 /\ bandOf = [v \in Versions |-> Fallback]
  /\ rows = [p \in Pairs |-> [v \in Versions |-> NoRow]] /\ clock = 0
  /\ sync = NoSync /\ apply = [a \in Applies |-> NoApply]
  /\ late = {}

-----------------------------------------------------------------------------
\* A batch of bulk-match stores the pair's score.
StoreScore(p) ==
  /\ p \notin stored
  /\ stored' = stored \cup {p}
  /\ UNCHANGED <<sim, version, bandOf, rows, clock, sync, apply, late>>

\* cmd/match-threshold: the new version is the current one from now on.
SetBand(b) ==
  /\ version < MaxVersions
  /\ version' = version + 1
  /\ bandOf' = [bandOf EXCEPT ![version + 1] = b]
  /\ late' = {}
  /\ UNCHANGED <<sim, stored, rows, clock, sync, apply>>

Tick == clock < MaxWrites /\ clock' = clock + 1

\* Writes the decision d[p] of each pair of ps under v.
Write(ps, v, d, time) ==
  /\ rows' = [p \in Pairs |-> IF p \in ps THEN [rows[p] EXCEPT ![v] = [decision |-> d[p], at |-> time]]
                              ELSE rows[p]]
  /\ late' = IF v = version THEN late ELSE late \cup ps

-----------------------------------------------------------------------------
(* RunBand.                                                                *)

\* The sync reads the version.
CurrentBand ==
  /\ sync.at = "NONE"
  /\ sync' = [sync EXCEPT !.at = "READ", !.v = version]
  /\ UNCHANGED <<sim, stored, version, bandOf, rows, clock, apply, late>>

\* Fault: a pair already decided is found again.
RunBandFindsAgain(ps) ==
  /\ sync.at = "READ"
  /\ \A p \in ps : sim[p] >= bandOf[sync.v].review
  /\ sync' = [sync EXCEPT !.at = "FOUND", !.found = ps]
  /\ UNCHANGED <<sim, stored, version, bandOf, rows, clock, apply, late>>

\* It finds pairs at or above Review that have no SYSTEM row ...
RunBandFinds(ps) ==
  /\ sync.at = "READ"
  /\ \A p \in ps : Cited(p) = {} /\ sim[p] >= bandOf[sync.v].review
  /\ sync' = [sync EXCEPT !.at = "FOUND", !.found = ps]
  /\ UNCHANGED <<sim, stored, version, bandOf, rows, clock, apply, late>>

\* ... begins the transaction its rows will be dated by ...
RecordBegins ==
  /\ sync.at = "FOUND" /\ sync.found # {}
  /\ Tick
  /\ sync' = [sync EXCEPT !.at = "TX", !.time = clock']
  /\ UNCHANGED <<sim, stored, version, bandOf, rows, apply, late>>

\* ... and commits it, or fails on the first row another run wrote under the same version.
RecordDecisions ==
  /\ sync.at = "TX"
  /\ IF \A p \in sync.found : rows[p][sync.v] = NoRow
       THEN Write(sync.found, sync.v, [p \in Pairs |-> Banded(sim[p], bandOf[sync.v])], sync.time)
       ELSE UNCHANGED <<rows, late>>
  /\ sync' = NoSync
  /\ UNCHANGED <<sim, stored, version, bandOf, clock, apply>>

\* Nothing found, an error or a crash.
SyncEnds ==
  /\ sync.at # "NONE"
  /\ sync' = NoSync
  /\ UNCHANGED <<sim, stored, version, bandOf, rows, clock, apply, late>>

-----------------------------------------------------------------------------
(* bulk-match apply.                                                       *)

\* Reads the version (the fallback only when allowed to) and the range of the score store.
ApplyStarts(a, allowDefault) ==
  /\ apply[a].at \in {"NONE", "DONE"} /\ stored # {}
  /\ version # 0 \/ allowDefault
  /\ apply' = [apply EXCEPT ![a] = [NoApply EXCEPT !.at = "CHUNK", !.v = version, !.next = Min(stored),
                                                   !.last = Max(stored), !.begun = stored, !.before = late]]
  /\ UNCHANGED <<sim, stored, version, bandOf, rows, clock, sync, late>>

\* The chunk [next, next + Chunk) of the score store.
InChunk(a) == {p \in stored : p >= apply[a].next /\ p < apply[a].next + Chunk}

\* Fault: a pair that falls below Review is left as it was.
ChangedUpwards(p, b) ==
  LET d == Banded(sim[p], b)
  IN  d # "NEGATIVE" /\ (Cited(p) = {} \/ Decided(p) # d)

\* bandSQL's changed: NEGATIVE is written only over a POSITIVE or an INCONCLUSIVE.
Changed(p, b) ==
  LET d == Banded(sim[p], b)
  IN  IF d = "NEGATIVE" THEN Decided(p) \in {"POSITIVE", "INCONCLUSIVE"}
      ELSE Cited(p) = {} \/ Decided(p) # d

\* Fault: a last id that begins a chunk is left out.
MoreShort(a) == apply[a].next < apply[a].last

\* Fault: a chunk past the last is read.
MoreLong(a) == apply[a].next <= apply[a].last + Chunk

\* for start := lo; start <= hi
More(a) == apply[a].next <= apply[a].last

\* A chunk's statement reads what is committed ...
ApplyReads(a) ==
  /\ apply[a].at = "CHUNK" /\ More(a)
  /\ Tick
  /\ apply' = [apply EXCEPT ![a].at = "WRITE", ![a].time = clock',
                            ![a].change = {p \in InChunk(a) : Changed(p, bandOf[apply[a].v])}]
  /\ UNCHANGED <<sim, stored, version, bandOf, rows, sync, late>>

\* ... and inserts what changed, but for the pairs that have that version's row (ON CONFLICT DO
\* NOTHING): a transaction of its own.
ApplyWrites(a) ==
  /\ apply[a].at = "WRITE"
  /\ LET v == apply[a].v
     IN  Write({p \in apply[a].change : rows[p][v] = NoRow}, v,
               [p \in Pairs |-> Banded(sim[p], bandOf[v])], apply[a].time)
  /\ apply' = [apply EXCEPT ![a].at = "CHUNK", ![a].next = @ + Chunk, ![a].change = {}, ![a].time = 0]
  /\ UNCHANGED <<sim, stored, version, bandOf, clock, sync>>

\* Past the last chunk the clusters are brought up to date (module Clusters).
ApplyEnds(a) ==
  /\ apply[a].at = "CHUNK" /\ ~More(a)
  /\ apply' = [apply EXCEPT ![a].at = "DONE"]
  /\ UNCHANGED <<sim, stored, version, bandOf, rows, clock, sync, late>>

\* An error or a crash: the chunks written stay.
ApplyFails(a) ==
  /\ apply[a].at \in {"CHUNK", "WRITE"}
  /\ apply' = [apply EXCEPT ![a] = NoApply]
  /\ UNCHANGED <<sim, stored, version, bandOf, rows, clock, sync, late>>

Next ==
  \/ \E p \in Pairs : StoreScore(p)
  \/ \E b \in Bands : SetBand(b)
  \/ CurrentBand \/ RecordBegins \/ RecordDecisions \/ SyncEnds
  \/ \E ps \in SUBSET Pairs : RunBandFinds(ps)
  \/ \E a \in Applies :
       \/ \E allowDefault \in BOOLEAN : ApplyStarts(a, allowDefault)
       \/ ApplyReads(a) \/ ApplyWrites(a) \/ ApplyEnds(a) \/ ApplyFails(a)

Spec == Init /\ [][Next]_vars

-----------------------------------------------------------------------------
(* Properties.                                                             *)

TypeOK ==
  /\ sim \in [Pairs -> Scores] /\ stored \subseteq Pairs
  /\ version \in Versions /\ bandOf \in [Versions -> Bands]
  /\ rows \in [Pairs -> [Versions -> Row \cup {NoRow}]] /\ clock \in 0..MaxWrites
  /\ sync \in [at : {"NONE", "READ", "FOUND", "TX"}, v : Versions, found : SUBSET Pairs, time : 0..MaxWrites]
  /\ apply \in [Applies -> [at : {"NONE", "CHUNK", "WRITE", "DONE"}, v : Versions, next : 1..(MaxPair + Chunk), last : 0..MaxPair,
                            change : SUBSET Pairs, time : 0..MaxWrites, begun : SUBSET Pairs, before : SUBSET Pairs]]
  /\ late \subseteq Pairs

\* "bands every stored score of a model version under the current threshold version"
\* (apply.go:72): when a run has finished, in one go or after others that died between chunks,
\* and the version is still the current one, each pair of the store is decided as it bands it;
\* but for the pairs a run that read an older version wrote since it was set.
FinishedMeansBanded ==
  \A a \in Applies : apply[a].at = "DONE" /\ apply[a].v = version =>
    \A p \in apply[a].begun \ late : Decided(p) = Banded(sim[p], bandOf[version])

\* "decisions already written stay" (006_features.sql:137) when a version is set: on a pair
\* decided, only an apply decides again, or a run whose version was not the current one.
DecisionsStand ==
  [][\A p \in Pairs : Cited(p) # {} /\ Decided(p)' # Decided(p) =>
       p \in late' \/ \E a \in Applies : apply[a].at = "WRITE" /\ p \in apply[a].change]_vars

\* "a rerun writes only what the last one did not" (apply.go:81): a run that no older one
\* overlaps puts right what one wrote late before it.
RerunRepairs ==
  \A a \in Applies : apply[a].at = "DONE" /\ apply[a].v = version /\ late = apply[a].before =>
    \A p \in apply[a].begun : Decided(p) = Banded(sim[p], bandOf[version])
=============================================================================
