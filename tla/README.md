# TrackID, verified: a TLA+ project beside the code

TrackID manages forensic biometric cases: an authority's request opens cases, their traces and
enrolled persons' files become features, a matcher proposes pairs of features, examiners decide
them in analyses of up to three blind steps, decided pairs build clusters, and an analysis ends in
an issued report. This directory holds TLA+ models of the parts where that can go wrong through
timing and order, the TLC configurations that check them on small instances, and proofs for every
instance.

`tlc -config <file>.cfg <module>.tla` runs a configuration; `tlapm <module>Proofs.tla` checks
proofs. PROJECT.json lists the runs, which lines of `src/` each definition models, the hazards, and
for each property a fault of the code that it detects.

## Inventory

| Component | State it keeps | Operations | What is hard | What makes it correct |
|---|---|---|---|---|
| `examination` | drafts, recorded decisions, an analysis's stage | SaveDraft, Submit | SaveDraft locks nothing; Submit holds the case's row lock while saves, assignments and the matcher go on | a third examiner only on disputes; every step recorded whole and once; drafts are their holder's |
| `analyses` | analyses, listed pairs, reports | Open, AddPairs, IssueReport, CanWork | checks made before the lock they need | a report settles what its analysis examined; issued once |
| `distribution` | assignments | Distribute (plan), Assign | another lock than Submit's; a lookup on a second connection of the pool | nobody holds two steps; nothing handed out twice; the oldest first, loads even |
| `cluster` (decisions) | none: derived from the chain | DecidingRound, Reviewed, ReviewedLink | several rounds of one pair at once, re-decided thresholds | people's decisions are undone only by people |
| `cluster` (clusters) | clusters, members, merges in two layers | Run (reconcile, apply) | two transactions from one earlier read; numbers cited in reports | numbers resolve for ever; a finished run is exact |
| `cluster`, `embedding`, `fingerprint` (sync) | the backlog, asynq's queue and locks | HandleSyncFace, Settle | duplicates rejected, skips, retries, commits out of id order | what was found is taken in; syncs end |
| `biometricmatch`, `bulk` | SYSTEM decisions, threshold versions, marks, batches | RunBand, SetBand, Apply, enrol, match | a replaced embedding marked matched; versions racing | the latest version decides; nothing is skipped |
| `cases` | cases, evidences, traces, codification versions | create, mark, delete, codify, choose the version for recognition | numbers read before they are taken; a version chosen while the worker computes another | no gap in a year's numbers; traces stand; the face's embedding is the chosen version's |
| `reports` | draft versions, documents, numbers | Draft, Save, Refresh, Issue, RecordImported, Deliver | two tabs; numbers taken with the lock and without; snapshots | numbers unique; what is issued is what was checked, and stands |
| `requests` | requests, their places on cases, what answers them | Register, Create, MoveToCase, AttachFiles | several cases' rows locked at once; a request that moves under a call | answers are on their request's case; no circles of waits |
| `video` | videos' status, local copies, the frames taken | Add, Reprocess, Process, Open, FrameFaces, Extract | a status that promises a task; reference counts; an evidence made in several statements | a busy video is being processed; copies last as long as their users; evidences say where they came from |
| `occurrences` | occurrences, their types and places | Create, Update, SetPlace, LinkCase | natures checked without a lock | a case's nature is its occurrence's |
| `articles` | articles, revisions, mentions | Save, Get, GenerateTemplate | concurrent editors | no revision lost |
| `person`, `identity`, `operations`, `ask`, `assist`, `api`, `auth`, image packages, `frontend`, tools | mostly reads, or one transaction each | | | |

How they meet: the HTTP handlers call one operation each and enqueue a sync when decisions were
recorded; the worker computes embeddings and templates and enqueues a sync; a sync runs the matcher
(SYSTEM decisions) and then the clustering; a review's pairs are the matcher's decisions, read again
at every step. Everything shared is in PostgreSQL, under three kinds of lock: a case's row, the
advisory locks (distribution, numbering, each sync, the cluster run), and asynq's unique locks.
Where two operations take different locks they interleave, and that is what the models are about.

## Modules

| Module | Models | Composes, or is used by |
|---|---|---|
| `AnalysisRound` | what one analysis promises, without people, locks or drafts | |
| `Examination` | one analysis under its concurrent handlers | implements `AnalysisRound` |
| `Assignments` | what handing out steps promises, without calls, locks or connections | |
| `Distribution` | handing out the steps of several analyses, from a bounded pool of connections | implements `Assignments`; moves stages as `Examination` |
| `Decisions` | one pair through all its rounds; the derivation of its status | |
| `Clusters` | the two cluster layers, rebuilt by runs | reads what `Decisions` derives |
| `Sync` | the sync tasks, the queue and the lock around matching and clustering | one step per `Clusters` run |
| `Gallery` | embeddings computed and matched, one face at a time and by batches | what `Sync` matches |
| `Thresholds` | what the matcher decides as cutoffs change | decides the pairs `Gallery` finds |
| `Material` | one evidence's traces, versions and embeddings | stores embeddings for `Gallery` |
| `Videos` | videos processed, kept and turned into evidences | makes evidences for `Material` |
| `Requests` | registering, moving and numbering; what answers a request | |
| `Reports` | drafts, issuing, numbering and imports | an `Examination` at its REPORT |
| `Extremes` | lemmas about least and greatest members, and about loops | used by the proofs |
| `...Proofs` | theorems about a module for all its constants; `ClustersProofs` also about `Sync` and `Decisions`, `ThresholdsProofs` also about `Material`, `DistributionProofs` also about `Gallery` | |
| `MC...` | instances for TLC | |

In all of them a table is a variable, a handler is one action per stretch that nothing can come
into, and what it remembers from one to the next is a field of its own (`at` says where it is). A
transaction's writes are seen at its commit, so they are there; locks are guards; an error, a
time-out and a crash are one action that drops what was in flight. Constants bound whatever would
grow without end, and are named `Max...`.

### Examination

The tables are variables (`decisions`, `drafts`, `holder` for the current assignments, `listed` for
a comparison's pairs, `system` for the matcher's latest decision). What handlers remember: `saves`
(SaveDraft past its checks), `submit`, `assign` (Assign or Distribute), `adding` (AddPairs) and
`issuing` (IssueReport). There is one `submit` at a time, AddPairs writes only while there is none,
and there is one `assign` at a time. `SubmitRollback` and `IssueRollback` are every early return,
error and crash. A call stands for a decision with its conclusion level, since
the handlers only compare it. Which examiner `plan` chooses depends on loads and on other analyses,
so `DistributePlan` leaves it open (`Distribution` does not). Who is active, and in which modality,
is constant. Submit's
three reads are one step: what runs against them writes drafts or SYSTEM rows, or deletes traces,
which only the first of them looks at, and decisions are written only under the lock Submit holds.

`traces` are those of the case that were not deleted. `DeleteTrace` asks for no stage, decision or
lock, and leaves the decisions as they are; a pair without all its traces drops out of `Scope`
(unless it is listed, the matcher has decided it and one of its own traces remains). The case's lock
is held by Submit, and for an instant by AddPairs, which may also fail there (`AddPairsRollback`).

Distribute writes the step that was active when it read, and so does Assign; the abstract round
(`AnalysisRound`) knows nothing of that. `Examination` maps to it by dropping the authors of
decisions (`CallsOnRecord`).

### Distribution

`stage`, `holder`, `draft` and `decided` are the tables of several analyses; `calls[c]` is a
Distribute or an Assign with all it has read, `lock` the advisory lock's holder. `PendingWork` are
the steps without a holder, `OldestFirst` their order, `Plan` is `plan`'s loop over them as a
recursive function, and `Give` its body. A call holds one connection of `PoolSize` from
`Begin` to its end, and Assign's lookup of its examiner needs another for an instant
(`AssignLooksUp`). Analyses of one subject stand for analyses that share their pairs, which is what
`PriorDeciders` avoids. `pairDeciders`, one read for each item in the code, and the loads are read
in one step: only submits run against them, and they only make a preference out of date. A dry run is
`Rollback`. Other requests take one connection for an instant, and are left out. `Waits` names the two
guards that hold a call under way up; on the run's instance it is true of exactly the calls that are
not `ENABLED` to proceed.

`Assignments` keeps the two tables of who holds what at which stage. There a distribution is one step
(`HandOut`): several analyses' active steps, all nobody's, go to people who are fit for them and hold
nothing else of their analysis, at most the count. A manual assignment is one step too (`Reassign`);
since Assign writes to the step it read, it may come when the analysis has moved on, so it is
of a step that is active or has been. Both read under the distribution lock, which submits do not take;
that nothing they read has become untrue when they write is what the implementation shows.

### Decisions

One pair, its SYSTEM decision and its rows by analysis and role, with the pure functions of
`cluster/decision.go` as operators: `DeriveRound`, `DecidingRound` (its loop over the rounds as a
recursive function), `Reviewed` and
`LaterLaudo`. Every analysis proceeds as Examination's do, reduced to this pair: the stage a submit
leads to also depends on the other pairs and is free within what this one allows. A sync writes a
SYSTEM row only for a pair without one, bulk apply whenever the decision changes. The
order of human rows is immaterial (one per role and analysis), and of SYSTEM rows the last counts.
`traces` says whether all, some or none of the pair's traces are there; `DeleteTrace` takes one or
both, and with that the pair from the analyses that would still decide it (`InScope`), not its decisions.
Human rows from before analyses existed are not modelled.

### Clusters

`member`, `live`, `merges` and `nextId` are the tables and their sequence. A run reads the features,
then the decisions, and writes AUTOMATIC and REVIEWED in one transaction each; it may stop after any
step. Union-find is stated as connectedness, map iteration order as a free choice of numbers.
Sequence gaps from rolled-back transactions are left out. Features are
numbers, for the byte order of their ids. A deleted one (`Delete`) leaves its decisions and its
`cluster_members` rows, which have no foreign key to it: later runs still find it among the members
and at the ends of edges, and keep it as a node.

### Sync

A task goes through `TRY`, then `SKIP`, or Settle's passes `MARK`, `MATCH`, `CLUSTER`, `DECISIONS`,
`BACKLOG` and `UNLOCK`. Decisions take their ids when inserted and show when committed. The queue
is external and modelled from how it is used and what `cluster/settle.go` says of it: `key` is
the holder of the unique lock on the task type, released when its task is done or its time runs
out. A failed task is queued again, its lock gone with the connection. Matching and clustering are
one step each.

### Gallery

`photo[f]` is the image of a face and `emb[f]` its row (vector, mark, path). The worker computes
one face at a time (`ComputeReads`, `ComputeForIdentityFeature`) and RunBand matches the SYNC path
(`BandReads` to `BandRecords`, with a search of its own path and one of all). bulk-enroll takes
pages of faces (`EnrolPage`, `EnrolWrites`, `EnrolShards`); bulk-match selects or resumes a batch,
reads the questioned faces and the gallery, scores, and loads (`NewBatch`, `MatchResumes`,
`MatchReads`, `MatchScores`, `LoadScores`). Either command may die anywhere and be run again. A
photo is a number and so is its vector; the limits on neighbours are left out, so a search finds
all that is there.

### Thresholds

`rows[p][v]` is the SYSTEM row of pair p that cites version v, with the time of its statement or
transaction; the latest is the pair's decision. `SetBand` appends a version. A RunBand reads its
version, finds pairs, and records them in one transaction; apply goes through the store in chunks
of ids, each a read (`Changed`) and a write (`ON CONFLICT DO NOTHING`). `late` remembers the pairs
that a run under an older version wrote since the version was set: what the two properties except.

### Material

One evidence of a case: its file and row, its traces, each with its original codification and
versions, and the version chosen for recognition (`chosen`, 0 for the original). CreateTraces reads the
greatest number and upserts after it (two steps); DeleteEvidence counts and deletes (two steps);
DeleteCodificationVersion checks and commits (two steps). A worker's task
reads the picture and whether its codification is the one for recognition, stores that codification's
embedding, and then the face's. `crossed` holds the traces on which the choice, or another task,
crossed one.

### Videos

`status[v]` is the row and `task[i]` a task of the queue, given out again up to `MaxRetry` times.
`Reprocess` reads, resets, and enqueues, or says that it could not; a failure that the code cannot
record is `EnqueueFailsUnrecorded` and `ProcessFails`. `copy` and `refs` are the API's cache of
local files: `Get` counts a reference and downloads, `Release` gives it back, and a sweep, whose
choice by age and number is left open, removes what nobody uses. `Extract` makes an evidence in
statements of their own (the file, the row, the source, the traces), and finds what another made.
`halfway` and `late` name the frames whose Extract ended in between, or that got one more row. A
request whose time runs out writes nothing more, so only `Recover` is seen of it. How evidences
are deleted is Material's, in its two statements, a count and a delete (detail.go:178-187); it is one
step here (`DeleteEvidence`), as what may come between them, traces marked, is no part of this module's
properties.

### Requests

A case is its number. `tx[s]` is a transaction with the rows it has locked, those it still wants, the
numbers it has taken and what it read; `links` places requests on cases and `answers` are analyses
and files that answer one. `ReadsMax` and `InsertsCase` are cases.CreateWith's: a transaction that
inserts a number another holds waits for it and, when it commits, starts again. `Register` locks the
cases it joins in the order given, `MoveToCase` in the order of their numbers. `astray` holds what
was written by a call that had seen the request on the case it has left. Occurrences, reference
numbers and Update are left out.

### Reports

A document is its locked content, which is the data it was generated from (`Build`), and the number
of the save that wrote its text. `req[k]` is a request of a tab: a read and an insert of the next
version (Draft, Save, Refresh), or Issue's comparison, its numbering under the advisory lock, and
its commit. An import, one at a time, reads and writes without that lock and is refused by
the unique index. `crossed` says that another request or a change came in between.

## Runs

| Run | Bounds | What it shows |
|---|---|---|
| `exam_review` | 3 examiners, 2 pairs, 2 calls, 4 assignments, 1 change by the matcher, 1 save in flight, traces deleted | nobody holds two steps; the third examiner only on disputes |
| `exam_comparison` | the same with 3 assignments, pairs added; 2 traces, one pair made of both and one of one, each deleted at any time | implements the round; at REPORT what was examined, and whose traces are there, is settled |
| `distribution` | 3 examiners, one of whom does not examine faces, 3 analyses, 2 calls at once of 3, a pool of 2 | implements the one-step assignments; the oldest goes first; loads even out; nothing is handed out twice; what stalls |
| `decisions` | 2 analyses (reviews or facial comparisons), 2 SYSTEM rows, 4 levels, the pair's traces deleted | the deciding round; the two judgements of a dispute agree; people undo people; the note on later laudos |
| `clusters` | 3 features, 4 changes (enrolments, deletions, decisions), unboundedly many runs | numbers resolve; citations follow anchors; exact after a complete run; layers nested after a run |
| `sync` | 2 decisions, 1 embedding that is never matched, 3 tasks, 2 passes, 1 failure | what a sync found is taken in; what Settle's mark guarantees; syncs end |
| `gallery` | 2 enrolled faces, 3 uploads, 1 task, 2 batches, 1 crash | matched means compared; no batch scores two faces again |
| `thresholds` | 2 pairs in 2 chunks, 2 versions over the default, 1 apply, 1 sync, 4 writes | a finished apply bands; setting a version decides nothing again |
| `material` | 3 marks, versions and pictures, 2 traces, 2 calls or tasks at once | traces stand; the face matched is the chosen one |
| `videos` | 1 video with 1 frame, 2 requests, 2 tasks, 1 retry | busy means being processed; references count users; evidences record their source |
| `requests` | 2 callers, 2 requests, 2 cases, joins and new cases up to 2, 2 attempts | no gaps; answers follow their request; what may deadlock |
| `reports` | 2 comparisons, 2 tabs and an import, 1 change of the data, 2 saves, 4 versions, 1 imported number | no number twice; issued as checked, or newer; drafts go forward; issued stands |

Why they are enough: three examiners fill the three steps and a fourth assignment replaces one; two
pairs are needed for "one disputed, one agreed"; two rounds suffice for a later one over an earlier
one, and four levels have two under the same decision; three features are the least that
split and merge, and four changes build, join, split and re-join them; three tasks are one running,
one skipping and one it may schedule. In the others two of a kind meet: two calls, tabs, callers or
tasks at once; and a third thing is there to be crossed: a third call after two that overlapped, a
second version after the one being applied, a second batch after the one that died, a replaced photo
(two photos of one face, three uploads), a version beside its trace's original, a retry after the first
try. One video and one frame are enough because videos only meet in the cache, whose sweep another
video's request would start: it may start at any time. Distribution's two analyses of one subject and
the examiner who lacks a modality are what make `Preferred` and `Eligible` differ.
Symmetry is used for what a specification treats alike (examiners, pairs and calls; faces; callers;
analyses and tabs; sessions and requests; requests, tasks and ids of Videos), and only in runs
without liveness. Deadlock is not checked, except in `requests`, where a circle of waits
is a state that can still fail: an analysis closes, and the others stop at their bounds.

Fairness is assumed in `Sync` only: the worker keeps taking tasks and running them
(`WF_vars(Handle(t))`) and a delayed task falls due. Nothing is assumed of arrivals, failures, the
key's expiry or the delivery of an enqueue. `Quiesces` is what it gives: with nothing more arriving
and failures bounded, no sync goes on for ever. No fairness is assumed of people. Where
others could be stuck, the claim is stated of states instead: `OnlyAStarvedPoolStalls` and
`OnlyRegistrationsDeadlock` say which states no call gets out of, and `BusyIsBeingProcessed` that
somebody is there to go on.

Every property has a fault beside the definition it replaces (operators commented "Fault:"), used
only to see that the property notices it.

## What comments, documents and the schema say that the code does not keep

Each is a property that TLC refutes; the configuration named shows the counterexample, and
PROJECT.json's findings quote the sentence.

| Configuration, property | Said | What happens |
|---|---|---|
| `MCExamReport`, `ReportMeansSettled` | at REPORT every pair is settled (007_analyses.sql:21) | a review's pair proposed after the first submit is decided by the second examiner alone; a pair that loses a trace is never settled (in a comparison neither: the same with `MCExamComparison.cfg`'s constants) |
| `MCExamDrafts`, `DraftsAreTheHolders` | a reassignment discards the drafts (007_analyses.sql:115-116) | a save past its checks writes after it |
| `MCExamDeciders`, `NobodyDecidesTwice` | who decided a pair holds another step (distribution.go:221) | an assignment that read before a submit replaces the first examiner after it |
| `MCDecisionsUndo`, `OnlyPeopleUndo` | an unsettled later round does not undo a settled one (decision.go:67-69) | a round only its second examiner decided takes the SYSTEM decision for its own |
| `MCClustersLayers`, `AlwaysNested` | REVIEWED clusters are inside AUTOMATIC ones (008_clusters.sql:16-17) | not between a run's two transactions |
| `MCSyncSettle`, `SettleMissesNothing` | Settle runs until nothing it reads changed (settle.go:15) | a decision with a lower id commits late |
| `MCSyncSkip`, `SkipSchedulesOneMore` | a skipping sync schedules one more (embedding.go:375-377) | it holds the unique lock itself |
| `MCGallery`, with `ReplacedIsMatchedAgain` for its invariants | a replaced embedding is matched again (features.sql.go:806-808) | a BULK one keeps its finished batch, and no matcher takes it |
| `MCThresholdsRerun`, `RerunRepairs` | a rerun of apply writes what is missing (apply.go:72-81) | a row an older version wrote late is the latest, and the newer one is there already |
| `MCMaterialMarks`, `MarksStand` | marking does not replace traces (trace.go:66-67) | two calls take the same numbers |
| `MCReportsSnapshot`, `SnapshotIsTheDocument` | the document is checked against the snapshot (reports.go:16-20) | the data changes between the two |
| `MCReportsSections`, `StaleIsRefreshed` | refresh a stale draft (reports.go:48) | once its case has a request the sections differ and Refresh refuses |
| `MCRequestsAnswers`, `AnswersAreOnTheirCase` | a request moves with what answers it (requests.go:631-632) | an analysis or a file is written for it after the move |
| `MCRequestsUnrequested`, `UnrequestedAnswerTheFirst` | analyses without a request answer the first (requests.sql.go:46) | not one that comes by a move, nor an analysis that waited |
| `MCRequestsDeadlock`, `NobodyDeadlocks` | | two registrations of the same cases in opposite orders |
| `MCDistribution`, with `CallsRun` for its invariants | calls run one at a time (distribution.go:143) | as many calls as connections wait for one another |
| `MCVideos`, with `BusyMeansBusy` for its invariants | a busy video is being processed (video.go:55, 321) | an enqueue or a failure is lost, and Reprocess refuses for ever |
| `MCVideos`, with `EveryRowHasItsSource` | every evidence records its source (video.go:4-5) | two Extracts each give one file a row |

The properties of the runs say how much of each does hold. Their exceptions (`crossed`, `late`,
`astray`, `halfway`, `overtaken`, `abandoned`, and the pairs that are not `Whole`) are the crossings
that the code does not guard. So they do not show those harms absent, which are there; what they show is
that nothing else does the harm, and the hazards in PROJECT.json say of each which part that leaves.
Where part of a claim holds even then it is stated without the exception: no two issued reports ever
share a number though an import takes them without the lock (`NumberIsFree`), and a snapshot is never
older than its document though the data may change after the check (`IssuedAsChecked`).

## Proofs

The theorems hold for any constants under each module's `ConstantsOK` alone (markers are no members
of the sets they mark, bounds are numbers, bands are ordered).

| Module | Theorems | What the inductive invariant adds |
|---|---|---|
| `ExaminationProofs` | `TypeCorrect`, `HoldersDistinct`, `ThirdOnlyOnDispute`, `ComparisonSettles`, `IssuedForGood`, `Refinement` | what each handler in flight carries across its gap |
| `DistributionProofs` (Distribution) | `TypeCorrect`, `OneAtATime`, `ListedIsStillPending`, `OldestHandedOutAlways`, `LoadsEvenOutAlways`, `HandedOutOnceAlways`, `OnlyAStarvedPoolStallsAlways`, `ImplementsAssignmentsAlways`, `NobodyHoldsTwoAlways` | what a call holds, read and drew from it, and that it is still so; what plan's loop has done after each item |
| `DistributionProofs` (Gallery) | `GalleryTypeCorrect`, `MatchedMeansComparedAlways`, `ScoredOnceAlways` | for each pair of faces, whether the band or the batch of either has it, still has to, or need not |
| `ClustersProofs` (Clusters) | `TypeCorrect`, `MembersLiveAlways`, `CitationsResolveAlways`, `FreshIsExactAlways`, `NestedAfterRunAlways`, `CitationFollowsAnchorAlways` | each layer is exactly the components of what a run read |
| `ClustersProofs` (Sync) | `SyncTypeCorrect`, `TakesInAlways`, `NoNewerAlways` | who runs has the lock; what a pass has taken in |
| `ClustersProofs` (Decisions) | `DecisionsTypeCorrect`, `DecidingIsLatestSettledAlways`, `DisputesAgreeAlways`, `LaterLaudoIsTrueAlways`, `PeopleUndoAlways` | which roles have decided at which stage; what the loop over the rounds comes to |
| `ReportsProofs` | `TypeCorrect`, `NumberIsFreeAlways`, `IssuedAsCheckedAlways`, `IssuedStandsAlways`, `DraftGoesForwardAlways` | what each request in flight read, and still holds of it |
| `RequestsProofs` | `TypeCorrect`, `NumberedWithoutGapsAlways`, `AnswersFollowTheRequestAlways`, `OnlyRegistrationsDeadlockAlways` | what each transaction wants, holds and saw; no two hold the same |
| `VideosProofs` | `TypeCorrect`, `BusyAlways`, `CopiesAlways`, `SourceAlways` | what a request at each point has; counts against holders |
| `ThresholdsProofs` (Thresholds) | `TypeCorrect`, `FinishedAlways`, `DecisionsStandAlways` | the current version's rows are the latest, but for the late pairs |
| `ThresholdsProofs` (Material) | `MaterialTypeCorrect`, `TracesStandAlways`, `FaceIsOfTheChosenAlways` | an uncrossed task is alone on its trace and knows the choice |

`Examination`. None of its invariants is inductive, because of the handlers in flight. `IInv` adds what each of
them carries across its gap: a submit past its lock still sees the stage it read, as only submits
move it (`CaseLockInv`); a handover in flight is for a step whose new holder holds no other
(`HolderInv`, for which the distribution lock is needed and the case's is not); which steps may have
decisions at which stage, and that a submit's calls are a set its step may record (`DecisionsInv`);
in a comparison, that pairs only join, and leave only when a trace goes, so the second examiner's
pairs contain those of the first's whose traces are all there (`ComparisonInv`); and that only a handler that passed at REPORT issues (`ReportInv`).
`RoundStep` maps each action to a step of the round or a stutter, so what `AnalysisRound` shows by its
shape (steps recorded whole, once, in order; no recorded call changes) is true of the handlers.

`Clusters`. `IInv` is `TypeOK`, `MembersLive`, `CitationsResolve`, `NestedAfterRun` and: a merged number
is gone for good (`MergedGone`); a run past its first transaction has left AUTOMATIC exact for what
it read (`Written`), which is all there is while nothing arrives (`ReadAll`), and it is not settled
before its end (`NotSettled`); a settled run that is still fresh has left both layers exact
(`LayersExact`). That components partition the features, for any graph, follows from their definition
by closed sets, without induction over paths. A deletion only makes nothing fresh: members and
the ends of edges stay nodes. `Extremes` supplies the least members that anchors and survivors are.

`Requests`. `IInv` says of each transaction what it wants and holds (`Own`), which numbers it took and
may take next (`Numbers`), and what it saw that still stands (`Placed`); and of any two that they
never number, lock or register the same (`Apart`). In a circle of waits without a registration of
several cases each would hold a row and want a greater one, which the next one holds: of a finite
set of wanted rows none would be the greatest.

`Reports`. `IInv` has the rows and requests in flight (`RowInv`, `RequestInv`, `ImportInv`), that whoever
has a number holds the lock (`HasLock`), and that what a request is to add or issue is not behind what is
there, unless something crossed it (`GoesForward`, `IsChecked`). On top of it `PastInv` says what holds
whatever crossed: no two issued reports share a number, which the unique index is needed for, and what a
draft or a request has read is never ahead of the data.

`Videos`. `IInv` is `TypeOK`, `CallInv` (what a request has at each point), `CopyInv` (counts against
holders), `IdInv` (no two frames share a file, every row is of a file there is), and two of the
properties themselves. A request that opens or leaves changes `Holders` by one, which
FiniteSetTheorems counts.

`Thresholds`. `IInv` is `TypeOK` with: no row is later than the clock or cites a version not set
(`Dated`, `Known`); the row of a pair under the current version bands it and is its latest, but for late
pairs (`CurrentInv`), and what is about to be written under it will be (`NewestInv`); what an apply
has passed is banded (`ProgressInv`). `DecisionsStandAlways` also needs that what a sync found has no row of
another version (`FoundInv`).

`Distribution`. `IInv` says that a call between its lock and its commit is the lock's holder
(`Held`), that what it listed is pending as long as it holds it, since a submit moves only an
analysis whose step has a holder (`Listed`), and that what it is to write is a plan of that list
(`Drawn`). What a plan is, `Planned`, is an invariant of plan's loop: which items are given
(`Oldest`), what the loads have become (`Counted`), and that nobody given something has two more than
who could as well have had it (`Even`). `Give` keeps it from one item to the next. That calls under way
are never more than the pool has connections (`Connected`) makes the one stall what it is: who
holds the lock can only wait for a connection, and the rest only for the lock.

For `Assignments`, `HandInv` adds that no step has a holder before it is active (`NotAhead`), that who
holds a step of a listed analysis is still among those excluded (`Excludes`), and that what Assign checked
still is so (`Checked`): holders change only under the lock, and stages only ever add to the steps
reached. `HandedStep` then maps `DistributeWrites` to a hand-out or to nothing, `AssignWrites` to a
reassignment, a submit to its holder finishing, and all the rest to nothing. That nobody holds two
steps follows from the abstract steps alone.

Loops (`Plan`, `DecidingRound`) are recursive functions, and what they compute is proved for any
number of turns with `Extremes`: a function that makes the turns exists (`LoopRuns`), and what holds
of no turn and passes from one to the next holds of all (`SetInduction`, stated of a set of numbers,
as the provers take no predicate as a parameter).

`Sync`. `SyncInv` is type correctness, that exactly the task with the lock is between `MARK` and
`UNLOCK` (`OneRuns`), and that after a pass the clusters have what was there when the lock was taken,
and the decision the mark was read from (`TakenIn`). `NoNewerAlways` then is about one step.

`Decisions`. `Worked` says which roles have decided about the pair at each stage, the third only over a
dispute, and a comparison whenever it lists it. `DecidingRound` is the latest settled of any rounds
(`DecidingRoundIsLatest`, by `LoopRuns` and `SetInduction`). What `PeopleUndoAlways` says of the whole
chain follows from what a step does to one round: a round that people settled keeps its outcome
(`SettledStands`), so another outcome of the pair is a later round's, which people settled or its
second examiner decided alone.

`Material`. `TaskInv` has that a task nothing crossed is the only one on its trace, and that what it read
of the choice still is so; with it `FaceInv` is inductive: the face agrees with the chosen version's
embedding, or a task that stored that embedding has the face's still to write. `TracesStandAlways`
needs of the rows only that ids are of what was drawn (`DrawnInv`).

`Gallery`. `MatchedMeansCompared` is about what is settled; `PairsInv` adds what is in a run, by whose
the two faces are. Two on the SYNC path: what the band searched for, it found every other of, that is
settled or in its backlog (`SyncSync`). One of each: a batch took in the SYNC face with its others,
or the band knows the gallery's face and finds it (`SyncBulk`, `Took`). Two of the gallery: the
later one's batch has the earlier one's rows (`BulkBulk`). Most steps are to nobody's disadvantage
(`Carries`); six lemmas are about those that search, read, score and record. `BandInv`, `MatchInv`
and `RowsInv` say what each run in flight has read; `ScoredOnceAlways` needs of the scores that those
between two faces of the gallery are of finished batches (`ScoresInv`).

The component modules that share a proof module have their own names for what every specification
has (`SyncSpec`, `DecisionsInit`, `materialVars`), as one module extends them all.

Type correctness is a theorem for all modules; the runs of `Examination`, `Distribution`, `Clusters`,
`Reports`, `Requests`, `Videos` and `Thresholds` do not check `TypeOK` again.

TLC checked the inductive invariants on the runs' instances before they were proved. Only
model-checked is what the prover does not do: liveness under fairness (`Quiesces`).

## Plan

1. `Occurrences`: natures checked without a lock by Update, LinkCase and a registration; numbers per
   year as cases'.
2. `Articles`: revisions based on the current one, and mentions that follow `Clusters`' merges.
3. The worker's connections: each sync holds one for its lock, another for the clusters' lock, and
   needs more for its queries.

## Not modelled

- `occurrences` and `articles`: planned. A registration's occurrence is left out of `Requests` with
  them.
- `video/lab.go`: a trial of detectors that keeps nothing of a case.
- `reports`: deliveries (single inserts), the leads a facial review's report lists, and rendering.
- `biometricmatch/templates.go`: RunTemplates is RunBand's shape over fingerprint templates.
- The lock of a sync is a connection's: `Sync` has it go with its task. That the connection alone drops while the
  work goes on with others (cluster/lock.go:40) is not modelled.
- `ask`, `assist`: read-only tools around a language model. `auth`: accounts, constant here. `person`,
  `operations`: reads. `graph`, `geocode`, `storage`, `internal`: names, lookups, clients.
- Image processing, face comparison and vector search are numeric code without state; the frontend,
  the command-line wiring, the sidecar, scripts and documents keep nothing the server relies on.

PROJECT.json names each with its reason, and the hazards they carry.
