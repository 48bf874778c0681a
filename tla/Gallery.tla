------------------------------- MODULE Gallery -------------------------------
(***************************************************************************)
(* Faces becoming embeddings and embeddings being matched: the worker's    *)
(* tasks and RunBand for one face at a time (match_path SYNC), bulk-enroll *)
(* and bulk-match for a whole gallery (match_path BULK), over the same     *)
(* table.  A photo is a number, and so is its embedding; a replaced photo  *)
(* is the next number.                                                     *)
(*                                                                         *)
(* What a score is, and the neighbours a search is limited to, are left    *)
(* out: comparing two vectors is all there is to a pair.  What a run then  *)
(* decides is module Thresholds.                                           *)
(***************************************************************************)
EXTENDS Naturals, FiniteSetsExt

CONSTANTS
  Known,      \* faces of enrolled persons
  Questioned, \* faces of cases
  MaxPhotos,  \* bound on the photos of one face
  MaxUploads, \* bound on the uploads of all
  MaxTasks,   \* how many tasks the worker runs at once
  MaxBatches, \* bound on the batches of bulk-match
  MaxCrashes  \* bound on runs of the bulk commands that die

ASSUME GalleryConstantsOK ==
  /\ IsFiniteSet(Known) /\ IsFiniteSet(Questioned) /\ Known \cap Questioned = {}
  /\ MaxPhotos \in Nat /\ MaxUploads \in Nat /\ MaxTasks \in Nat /\ MaxBatches \in Nat /\ MaxCrashes \in Nat

Faces    == Known \cup Questioned
Photos   == 1..MaxPhotos
Outcomes == {"NONE", "EMBEDDED", "FETCH_FAILED", "NO_FACE"}

VARIABLES
  photo,   \* photo[f]: the image of the face as it is, 0 before there is one
  emb,     \* emb[f]: its feature_embeddings row
  outcome, \* outcome[f]: bulk_enroll_outcomes
  shards,  \* shards[f]: the vectors of f in the shard files
  batchOf, \* batchOf[f]: bulk_match_batch_members, 0 for no row
  status,  \* status[b]: bulk_match_batches
  tasks,   \* the worker's tasks that have read their photo, <<f, photo>>
  band,    \* RunBand
  enrol,   \* bulk-enroll: the page in flight
  match,   \* bulk-match: the batch in flight
  compared, \* pairs of <<face, vector>> whose scores were recorded
  overtaken, \* faces replaced while the run that would mark them had them
  crashes  \* how many bulk runs died

galleryVars == <<photo, emb, outcome, shards, batchOf, status, tasks, band, enrol, match, compared,
                 overtaken, crashes>>

NoRow   == [vec |-> 0, path |-> "SYNC", matched |-> FALSE]
NoBand  == [at |-> "NONE", todo |-> {}, known |-> {}, found |-> {}]
NoPage  == [at |-> "NONE", found |-> {}]
NoMatch == [at |-> "NONE", batch |-> 0, earlier |-> {}, others |-> {}, found |-> {}]

Vector == Faces \X Photos
Pair   == {{x, y} : x, y \in Vector}

GalleryTypeOK ==
  /\ photo \in [Faces -> 0..MaxPhotos]
  /\ emb \in [Faces -> [vec : 0..MaxPhotos, path : {"SYNC", "BULK"}, matched : BOOLEAN]]
  /\ outcome \in [Faces -> Outcomes]
  /\ shards \in [Faces -> SUBSET Photos]
  /\ batchOf \in [Faces -> 0..MaxBatches]
  /\ status \in [1..MaxBatches -> {"NONE", "SELECTED", "MATCHED"}]
  /\ tasks \subseteq Vector
  /\ band \in [at : {"NONE", "READ", "SEARCH"}, todo : SUBSET Vector, known : SUBSET Faces, found : SUBSET Pair]
  /\ enrol \in [at : {"NONE", "PAGE", "WRITTEN"}, found : SUBSET Vector]
  /\ match \in [at : {"NONE", "SELECTED", "READ", "SCORED"}, batch : 0..MaxBatches, earlier : SUBSET Faces,
                others : SUBSET Vector, found : SUBSET Pair]
  /\ compared \subseteq Pair
  /\ overtaken \subseteq Faces
  /\ crashes \in 0..MaxCrashes

GalleryInit ==
  /\ photo = [f \in Faces |-> 0] /\ emb = [f \in Faces |-> NoRow]
  /\ outcome = [f \in Faces |-> "NONE"] /\ shards = [f \in Faces |-> {}]
  /\ batchOf = [f \in Faces |-> 0] /\ status = [b \in 1..MaxBatches |-> "NONE"]
  /\ tasks = {} /\ band = NoBand /\ enrol = NoPage /\ match = NoMatch
  /\ compared = {} /\ overtaken = {} /\ crashes = 0

-----------------------------------------------------------------------------
(* The table's queries.                                                    *)

Embedded(f)  == emb[f].vec # 0
Current(f)   == <<f, emb[f].vec>>
Rows         == {f \in Faces : Embedded(f)}

\* What a run in flight will mark matched.
InFlight ==
  {x[1] : x \in band.todo}
    \cup {f \in Faces : match.at \in {"READ", "SCORED"} /\ batchOf[f] = match.batch}

\* Fault: a replaced embedding keeps its mark.
UpsertFeatureEmbeddingMarked(f, v) ==
  /\ emb' = [emb EXCEPT ![f].vec = v]
  /\ UNCHANGED overtaken

\* Inserts the row, or replaces its vector: to be matched again, on the path it was on.
UpsertFeatureEmbedding(f, v) ==
  /\ emb' = [emb EXCEPT ![f].vec = v, ![f].matched = FALSE]
  /\ overtaken' = IF f \in InFlight THEN overtaken \cup {f} ELSE overtaken \ {f}

\* What the per-face sync has to match.
ListUnmatchedFeatureEmbeddings ==
  {Current(f) : f \in {g \in Rows : ~emb[g].matched /\ emb[g].path = "SYNC"}}

\* The nearest neighbours of f by the vector v, whatever path they are on.
FindNearestFeatureEmbeddings(f, among) == {Current(g) : g \in (Rows \cap among) \ {f}}

\* Marks rows by id, whatever their vectors are by now.
MarkFeatureEmbeddingMatched(marked) ==
  emb' = [f \in Faces |-> IF f \in marked THEN [emb[f] EXCEPT !.matched = TRUE] ELSE emb[f]]

-----------------------------------------------------------------------------
(* One face at a time.                                                     *)

\* A person is enrolled, a trace marked, or the image of either replaced.
Upload(f) ==
  /\ photo[f] < MaxPhotos
  /\ MapThenSumSet(LAMBDA g : photo[g], Faces) < MaxUploads
  /\ photo' = [photo EXCEPT ![f] = @ + 1]
  /\ UNCHANGED <<emb, outcome, shards, batchOf, status, tasks, band, enrol, match, compared, overtaken, crashes>>

\* Fault: the feature need not have a photo yet.
ComputeReadsNothing(f) ==
  /\ Cardinality(tasks) < MaxTasks
  /\ tasks' = tasks \cup {<<f, photo[f]>>}
  /\ UNCHANGED <<photo, emb, outcome, shards, batchOf, status, band, enrol, match, compared, overtaken, crashes>>

\* A task, queued by an upload or a backfill, reads the photo it will embed.
ComputeReads(f) ==
  /\ photo[f] # 0 /\ Cardinality(tasks) < MaxTasks
  /\ tasks' = tasks \cup {<<f, photo[f]>>}
  /\ UNCHANGED <<photo, emb, outcome, shards, batchOf, status, band, enrol, match, compared, overtaken, crashes>>

\* It has the vector and writes it, whatever was written meanwhile.
ComputeForIdentityFeature(x) ==
  /\ x \in tasks
  /\ tasks' = tasks \ {x}
  /\ UpsertFeatureEmbedding(x[1], x[2])
  /\ UNCHANGED <<photo, outcome, shards, batchOf, status, band, enrol, match, compared, crashes>>

\* No face, or no more retries: nothing is written.
ComputeEnds(x) ==
  /\ x \in tasks
  /\ tasks' = tasks \ {x}
  /\ UNCHANGED <<photo, emb, outcome, shards, batchOf, status, band, enrol, match, compared, overtaken, crashes>>

\* RunBand (one at a time: the sync's lock) reads the backlog ...
BandReads ==
  /\ band.at = "NONE" /\ ListUnmatchedFeatureEmbeddings # {}
  /\ band' = [band EXCEPT !.at = "READ", !.todo = ListUnmatchedFeatureEmbeddings]
  /\ overtaken' = overtaken \ {x[1] : x \in band'.todo}
  /\ UNCHANGED <<photo, emb, outcome, shards, batchOf, status, tasks, enrol, match, compared, crashes>>

\* ... then the features there are ...
BandLoadsFeatures ==
  /\ band.at = "READ"
  /\ band' = [band EXCEPT !.at = "SEARCH", !.known = {f \in Faces : photo[f] # 0}]
  /\ UNCHANGED <<photo, emb, outcome, shards, batchOf, status, tasks, enrol, match, compared, overtaken, crashes>>

Searched == {x \in band.todo : {x} \in band.found}

\* Fault: only embeddings of the same path are searched.
BandSearchesItsPath(x) ==
  /\ band.at = "SEARCH" /\ x \in band.todo \ Searched
  /\ band' = [band EXCEPT !.found = @ \cup {{x}} \cup {{x, y} :
                y \in FindNearestFeatureEmbeddings(x[1], {g \in band.known : emb[g].path = "SYNC"})}]
  /\ UNCHANGED <<photo, emb, outcome, shards, batchOf, status, tasks, enrol, match, compared, overtaken, crashes>>

\* ... and searches for each of the backlog, as the table is by then ({x} notes it was done).
BandSearches(x) ==
  /\ band.at = "SEARCH" /\ x \in band.todo \ Searched
  /\ band' = [band EXCEPT !.found =
                @ \cup {{x}} \cup {{x, y} : y \in FindNearestFeatureEmbeddings(x[1], band.known)}]
  /\ UNCHANGED <<photo, emb, outcome, shards, batchOf, status, tasks, enrol, match, compared, overtaken, crashes>>

\* recordDecisions: what was found is decided and the backlog marked, in one transaction.
BandRecords ==
  /\ band.at = "SEARCH" /\ band.todo = Searched
  /\ compared' = compared \cup band.found
  /\ MarkFeatureEmbeddingMatched({x[1] : x \in band.todo})
  /\ band' = NoBand
  /\ UNCHANGED <<photo, outcome, shards, batchOf, status, tasks, enrol, match, overtaken, crashes>>

\* An error or a crash: nothing was written, and the backlog is still one.
BandFails ==
  /\ band.at # "NONE"
  /\ band' = NoBand
  /\ UNCHANGED <<photo, emb, outcome, shards, batchOf, status, tasks, enrol, match, compared, overtaken, crashes>>

-----------------------------------------------------------------------------
(* A whole gallery: bulk-enroll.                                           *)

\* Enrolled photos without an embedding or a final outcome; a failed fetch is tried again with
\* -retry-failed.
Pending(retry) ==
  {f \in Known : photo[f] # 0 /\ ~Embedded(f)
                   /\ (outcome[f] = "NONE" \/ (retry /\ outcome[f] = "FETCH_FAILED"))}

\* A page is read and its photos fetched.
EnrolPage(page) ==
  /\ enrol.at = "NONE" /\ page # {}
  /\ \E retry \in BOOLEAN : page \subseteq Pending(retry)
  /\ enrol' = [at |-> "PAGE", found |-> {<<f, photo[f]>> : f \in page}]
  /\ UNCHANGED <<photo, emb, outcome, shards, batchOf, status, tasks, band, match, compared, overtaken, crashes>>

\* writePage: embeddings, where none came meanwhile, and outcomes in one transaction; a photo
\* whose inference failed (NONE here) is left pending.
EnrolWrites(result) ==
  /\ enrol.at = "PAGE"
  /\ LET new == {x \in enrol.found : result[x] = "EMBEDDED" /\ ~Embedded(x[1])}
     IN  /\ emb' = [f \in Faces |->
                      IF \E v \in Photos : <<f, v>> \in new
                        THEN [NoRow EXCEPT !.vec = CHOOSE v \in Photos : <<f, v>> \in new, !.path = "BULK"]
                        ELSE emb[f]]
         /\ enrol' = [at |-> "WRITTEN", found |-> new]
  /\ outcome' = [f \in Faces |->
                   IF \E x \in enrol.found : x[1] = f /\ result[x] # "NONE"
                     THEN result[CHOOSE x \in enrol.found : x[1] = f] ELSE outcome[f]]
  /\ UNCHANGED <<photo, shards, batchOf, status, tasks, band, match, compared, overtaken, crashes>>

\* The vectors inserted go to the shards, once the transaction is committed.
EnrolShards ==
  /\ enrol.at = "WRITTEN"
  /\ shards' = [f \in Faces |-> shards[f] \cup {v \in Photos : <<f, v>> \in enrol.found}]
  /\ enrol' = NoPage
  /\ UNCHANGED <<photo, emb, outcome, batchOf, status, tasks, band, match, compared, overtaken, crashes>>

EnrolDies ==
  /\ enrol.at # "NONE" /\ crashes < MaxCrashes
  /\ enrol' = NoPage /\ crashes' = crashes + 1
  /\ UNCHANGED <<photo, emb, outcome, shards, batchOf, status, tasks, band, match, compared, overtaken>>

-----------------------------------------------------------------------------
(* A whole gallery: bulk-match.                                            *)

Members(b) == {f \in Faces : batchOf[f] = b}

SelectedBatch == {b \in 1..MaxBatches : status[b] = "SELECTED"}

\* Fault: what was in a batch already may be taken again.
WaitingAgain == {f \in Rows : emb[f].path = "BULK" /\ ~emb[f].matched}

\* The gallery's embeddings that no batch has taken.
Waiting == {f \in Rows : emb[f].path = "BULK" /\ ~emb[f].matched /\ batchOf[f] = 0}

\* A batch selected and not finished is taken up again ...
MatchResumes ==
  /\ match.at = "NONE" /\ SelectedBatch # {}
  /\ match' = [match EXCEPT !.at = "SELECTED", !.batch = Min(SelectedBatch)]
  /\ UNCHANGED <<photo, emb, outcome, shards, batchOf, status, tasks, band, enrol, compared, overtaken, crashes>>

\* ... and else a new one takes some of those waiting, in one transaction.
NewBatch(taken) ==
  /\ match.at = "NONE" /\ SelectedBatch = {}
  /\ taken # {} /\ taken \subseteq Waiting
  /\ \E b \in {c \in 1..MaxBatches : \A d \in 1..MaxBatches : status[d] = "NONE" <=> d >= c} :
       /\ status' = [status EXCEPT ![b] = "SELECTED"]
       /\ batchOf' = [f \in Faces |-> IF f \in taken THEN b ELSE batchOf[f]]
       /\ match' = [match EXCEPT !.at = "SELECTED", !.batch = b]
  /\ UNCHANGED <<photo, emb, outcome, shards, tasks, band, enrol, compared, overtaken, crashes>>

\* Fault: only the traces are compared, not what the worker embedded of the enrolled.
OthersQuestioned == {Current(f) : f \in {g \in Rows \cap Questioned : emb[g].path = "SYNC"}}

\* The embeddings outside the gallery, with their vectors.
Others == {Current(f) : f \in {g \in Rows : emb[g].path = "SYNC"}}

\* The earlier batches' members and the embeddings outside the gallery are read.
MatchReads ==
  /\ match.at = "SELECTED"
  /\ match' = [match EXCEPT !.at = "READ",
                            !.earlier = {f \in Faces : batchOf[f] # 0 /\ status[batchOf[f]] = "MATCHED"},
                            !.others = Others]
  /\ overtaken' = overtaken \ Members(match.batch)
  /\ UNCHANGED <<photo, emb, outcome, shards, batchOf, status, tasks, band, enrol, compared, crashes>>

\* FillShards: what no shard holds yet is written from the table.
Filled(want) ==
  [f \in Faces |-> IF f \in want /\ shards[f] = {} THEN {emb[f].vec} ELSE shards[f]]

\* Each of the ones with each of the others.
Pairings(xs, ys) == {{x, y} : x \in xs, y \in ys}

\* The matcher compares the batch with itself, the earlier ones and the others, from the shards:
\* one row of each member, every row of the earlier ones.
MatchScores ==
  /\ match.at = "READ"
  /\ shards' = Filled(Members(match.batch) \cup match.earlier)
  /\ \E v \in [Members(match.batch) -> Photos] :
       /\ \A f \in Members(match.batch) : v[f] \in shards'[f]
       /\ LET own     == {<<f, v[f]>> : f \in Members(match.batch)}
              earlier == UNION {{<<f, w>> : w \in shards'[f]} : f \in match.earlier}
          IN  match' = [match EXCEPT !.at = "SCORED",
                          !.found = Pairings(own, own \cup earlier \cup match.others)]
  /\ UNCHANGED <<photo, emb, outcome, batchOf, status, tasks, band, enrol, compared, overtaken, crashes>>

\* loadScores: the scores, the marks and the batch's end in one transaction.
LoadScores ==
  /\ match.at = "SCORED"
  /\ compared' = compared \cup match.found
  /\ MarkFeatureEmbeddingMatched(Members(match.batch))
  /\ status' = [status EXCEPT ![match.batch] = "MATCHED"]
  /\ match' = NoMatch
  /\ UNCHANGED <<photo, outcome, shards, batchOf, tasks, band, enrol, overtaken, crashes>>

\* The batch stays SELECTED, its work directory and the shards written stay.
MatchDies ==
  /\ match.at # "NONE" /\ crashes < MaxCrashes
  /\ match' = NoMatch /\ crashes' = crashes + 1
  /\ UNCHANGED <<photo, emb, outcome, shards, batchOf, status, tasks, band, enrol, compared, overtaken>>

GalleryNext ==
  \/ \E f \in Faces : Upload(f) \/ ComputeReads(f)
  \/ \E x \in tasks : ComputeForIdentityFeature(x) \/ ComputeEnds(x)
  \/ BandReads \/ BandLoadsFeatures \/ BandRecords \/ BandFails
  \/ \E x \in band.todo : BandSearches(x)
  \/ \E page \in SUBSET Known : EnrolPage(page)
  \/ \E result \in [enrol.found -> Outcomes] : EnrolWrites(result)
  \/ EnrolShards \/ EnrolDies
  \/ \E taken \in SUBSET Known : NewBatch(taken)
  \/ MatchResumes \/ MatchReads \/ MatchScores \/ LoadScores \/ MatchDies

GallerySpec == GalleryInit /\ [][GalleryNext]_galleryVars

-----------------------------------------------------------------------------
(* Properties.                                                             *)

\* The row is matched and was not replaced under the run that marked it, nor since a shard was
\* written of it.
Settled(f) == emb[f].matched /\ f \notin overtaken /\ shards[f] \subseteq {emb[f].vec}

\* Between the two paths and the batches no pair falls through: two matched faces were compared
\* as they are, whichever came first and whichever run, resumed or not, marked them.  Only a
\* replacement under a run, or after a shard was written, escapes it.
MatchedMeansCompared ==
  \A f, g \in Faces : f # g /\ Settled(f) /\ Settled(g) => {Current(f), Current(g)} \in compared

\* "Every pair of gallery faces is thus compared exactly once across all batches" (match.go:74):
\* a batch never scores two gallery faces a batch scored before.
ScoredOnce ==
  [][\A p \in compared' \ compared : \A q \in compared :
       LET faces(r) == {x[1] : x \in r}
       IN  faces(p) = faces(q) => Cardinality(faces(p)) = 1 \/ \E f \in faces(p) : emb[f].path = "SYNC"]_galleryVars

\* "The new template goes through matching again (as UpsertFeatureEmbedding does for
\* embeddings)" (features.sql.go): what is unmatched is in reach of a matcher.
ReplacedIsMatchedAgain ==
  \A f \in Rows : ~emb[f].matched /\ batchOf[f] # 0 => status[batchOf[f]] = "SELECTED"
=============================================================================
