------------------------------- MODULE Videos -------------------------------
(***************************************************************************)
(* The videos of a case: processed by the worker, kept as local copies by  *)
(* the API, and looked at by requests that may take a frame as an evidence *)
(* of the case.                                                            *)
(*                                                                         *)
(* A frame is one picture of one video: its bytes, so that two times that  *)
(* show it are the same frame.  Of faces only whether a request has some   *)
(* to mark, and whether an evidence has some marked.                       *)
(***************************************************************************)
EXTENDS Naturals, FiniteSets

CONSTANTS
  Videos, Frames,
  VideoOf,  \* VideoOf[f]: the video a frame is of
  Calls,    \* requests the API serves at once
  Tasks,    \* bound: the tasks there may be at once
  MaxRetry, \* the times the queue gives a task out again
  Ids,      \* of the rows of evidences; one is used again when nothing refers to it
  No        \* no task, row, video, frame or id

Task == [video : Videos, at : {"QUEUED", "RUNNING", "ENDED"}, tries : 0..MaxRetry]
Row  == [file : Ids, sourced : BOOLEAN, marked : BOOLEAN]

ASSUME ConstantsOK ==
  /\ VideoOf \in [Frames -> Videos]
  /\ MaxRetry \in Nat
  /\ No \notin Videos \cup Frames \cup Ids \cup Task \cup Row

VARIABLES
  status,    \* status[v]: of its case_videos row, NONE before there is one
  task,      \* task[i]: a task of the queue
  abandoned, \* videos whose enqueue, or failure, was lost, until they are settled again
  copy,      \* copy[v]: its entry in localVideos
  refs,      \* the references that entry counts
  call,      \* call[k]: a request in flight
  file,      \* file[f]: the id of the frame's case_files row
  row,       \* row[r]: a case_evidences row
  halfway,   \* frames whose Extract ended between making the file and recording the source
  late       \* frames given another row after the source was recorded

queue  == <<status, task, abandoned>>
cache  == <<copy, refs>>
taken  == <<file, row, halfway, late>>
vars   == <<queue, cache, call, taken>>

Busy    == {"PENDING", "PROCESSING"}
Settled == {"DONE", "FAILED"}

Queueing == {"ADDED", "RESET"}
Taking   == {"NEW", "EXISTING", "FILED", "MARKING", "MARKED"}
Looking  == {"WAITING", "READY"} \cup Taking

NoCall == [at |-> "NONE", video |-> No, frame |-> No, faces |-> FALSE, file |-> No, row |-> No, creator |-> FALSE]

\* The requests that hold a reference to the copy of v.
Holders(v) == {k \in Calls : call[k].at \in Looking /\ call[k].video = v}

\* The requests that made the file of that id and have its source still to record.
Creators(id) == {k \in Calls : call[k].creator /\ call[k].file = id}

RowsOf(id) == {r \in Ids : row[r] # No /\ row[r].file = id}
Made(f)    == file[f] # No

TypeOK ==
  /\ status \in [Videos -> {"NONE"} \cup Busy \cup Settled]
  /\ task \in [Tasks -> Task \cup {No}]
  /\ abandoned \subseteq Videos
  /\ copy \in [Videos -> {"NONE", "LOADING", "READY"}] /\ refs \in [Videos -> Nat]
  /\ call \in [Calls -> [at : {"NONE", "READ"} \cup Queueing \cup Looking, video : Videos \cup {No},
                         frame : Frames \cup {No}, faces : BOOLEAN, file : Ids \cup {No},
                         row : Ids \cup {No}, creator : BOOLEAN]]
  /\ file \in [Frames -> Ids \cup {No}]
  /\ row \in [Ids -> Row \cup {No}]
  /\ halfway \subseteq Frames /\ late \subseteq Frames

Init ==
  /\ status = [v \in Videos |-> "NONE"] /\ task = [i \in Tasks |-> No] /\ abandoned = {}
  /\ copy = [v \in Videos |-> "NONE"] /\ refs = [v \in Videos |-> 0]
  /\ call = [k \in Calls |-> NoCall]
  /\ file = [f \in Frames |-> No] /\ row = [r \in Ids |-> No] /\ halfway = {} /\ late = {}

-----------------------------------------------------------------------------
(* Sending a video to be processed.                                        *)

Step(k, at) == call' = [call EXCEPT ![k].at = at]
End(k)      == call' = [call EXCEPT ![k] = NoCall]

\* A status written: what was abandoned is settled by an outcome.
Record(v, s) ==
  /\ status' = [status EXCEPT ![v] = s]
  /\ abandoned' = IF s \in Settled THEN abandoned \ {v} ELSE abandoned

\* An enqueue or a failure of v that is lost, with nothing recorded.
Lost(v) ==
  /\ UNCHANGED status
  /\ abandoned' = IF status[v] \in Busy THEN abandoned \cup {v} ELSE abandoned

\* Add stores the file and the video's row, unless it is there already (the same bytes).
InsertCaseVideo(k, v) ==
  /\ call[k].at = "NONE"
  /\ status' = [status EXCEPT ![v] = IF @ = "NONE" THEN "PENDING" ELSE @]
  /\ call' = [call EXCEPT ![k].at = "ADDED", ![k].video = v]
  /\ UNCHANGED <<task, abandoned, cache, taken>>

\* Reprocess reads the status, and refuses a video that is being processed ...
Reprocess(k, v) ==
  /\ call[k].at = "NONE" /\ status[v] \in Settled
  /\ call' = [call EXCEPT ![k].at = "READ", ![k].video = v]
  /\ UNCHANGED <<queue, cache, taken>>

\* ... writes that it is pending ...
ResetCaseVideo(k) ==
  /\ call[k].at = "READ"
  /\ Record(call[k].video, "PENDING")
  /\ Step(k, "RESET")
  /\ UNCHANGED <<task, cache, taken>>

Queue(i, v) == task[i] = No /\ task' = [task EXCEPT ![i] = [video |-> v, at |-> "QUEUED", tries |-> 0]]

\* ... and enqueues its processing, as Add does.
Enqueue(k, i) ==
  /\ call[k].at \in Queueing
  /\ Queue(i, call[k].video)
  /\ End(k)
  /\ UNCHANGED <<status, abandoned, cache, taken>>

\* Fault: Reprocess leaves the failure to the examiner.
EnqueueFailsUnrecorded(k) ==
  /\ call[k].at \in Queueing
  /\ IF call[k].at = "RESET" THEN UNCHANGED <<status, abandoned>> ELSE Lost(call[k].video)
  /\ \/ UNCHANGED task
     \/ \E i \in Tasks : Queue(i, call[k].video)
  /\ End(k)
  /\ UNCHANGED <<cache, taken>>

\* The enqueue fails for the API, whether or not the queue has the task: Reprocess records it, Add
\* does not.
EnqueueFails(k) ==
  /\ call[k].at \in Queueing
  /\ IF call[k].at = "RESET" THEN Record(call[k].video, "FAILED") ELSE Lost(call[k].video)
  /\ \/ UNCHANGED task
     \/ \E i \in Tasks : Queue(i, call[k].video)
  /\ End(k)
  /\ UNCHANGED <<cache, taken>>

\* The request is cancelled, or its statement fails.
QueueingFails(k) ==
  /\ call[k].at \in {"READ"} \cup Queueing
  /\ IF call[k].at = "READ" THEN UNCHANGED <<status, abandoned>> ELSE Lost(call[k].video)
  /\ End(k)
  /\ UNCHANGED <<task, cache, taken>>

-----------------------------------------------------------------------------
(* The worker.                                                             *)

At(i, at)  == task[i] # No /\ task[i].at = at
Goes(i)    == task' = [task EXCEPT ![i] = No]
Moves(i, at) == task' = [task EXCEPT ![i].at = at]

StartCaseVideo(i) ==
  /\ At(i, "QUEUED")
  /\ Record(task[i].video, "PROCESSING") /\ Moves(i, "RUNNING")
  /\ UNCHANGED <<cache, call, taken>>

FinishCaseVideo(i) ==
  /\ At(i, "RUNNING")
  /\ Record(task[i].video, "DONE") /\ Moves(i, "ENDED")
  /\ UNCHANGED <<cache, call, taken>>

FailCaseVideo(i) ==
  /\ At(i, "RUNNING")
  /\ Record(task[i].video, "FAILED") /\ Moves(i, "ENDED")
  /\ UNCHANGED <<cache, call, taken>>

\* A statement of Process fails -- its first two, the last, or the one that records a failure --
\* and the task is not tried again (SkipRetry).
ProcessFails(i) ==
  /\ At(i, "QUEUED") \/ At(i, "RUNNING")
  /\ Lost(task[i].video) /\ Goes(i)
  /\ UNCHANGED <<cache, call, taken>>

\* The task's time is over, or its worker died: it is given out again while it may be.
Recover(i) ==
  /\ At(i, "RUNNING") \/ At(i, "ENDED")
  /\ IF task[i].tries < MaxRetry
       THEN /\ task' = [task EXCEPT ![i].at = "QUEUED", ![i].tries = @ + 1]
            /\ UNCHANGED <<status, abandoned>>
       ELSE Goes(i) /\ Lost(task[i].video)
  /\ UNCHANGED <<cache, call, taken>>

Done(i) ==
  /\ At(i, "ENDED")
  /\ Goes(i)
  /\ UNCHANGED <<status, abandoned, cache, call, taken>>

-----------------------------------------------------------------------------
(* The API's local copies.                                                 *)

\* Fault: a copy in use is removed like any other.
UnusedOrNot == {u \in Videos : copy[u] = "READY"}

\* The copies a sweep may remove.  Which of them it does, by age and by how many there are, depends
\* on the videos of every case, and is left open.
Unused == {u \in Videos : copy[u] = "READY" /\ refs[u] = 0}

\* get sweeps, takes a reference, and starts the download of a video that has no entry.
Get(v, gone) ==
  /\ gone \subseteq Unused
  /\ copy' = [u \in Videos |-> IF u = v /\ (copy[u] = "NONE" \/ u \in gone) THEN "LOADING"
                               ELSE IF u \in gone THEN "NONE" ELSE copy[u]]
  /\ refs' = [refs EXCEPT ![v] = IF copy[v] = "NONE" \/ v \in gone THEN 1 ELSE @ + 1]

Downloaded(v) ==
  /\ copy[v] = "LOADING"
  /\ copy' = [copy EXCEPT ![v] = "READY"]
  /\ UNCHANGED <<queue, refs, call, taken>>

\* The entry goes, with the references of those that wait for it, who get the error.
DownloadFails(v) ==
  /\ copy[v] = "LOADING"
  /\ copy' = [copy EXCEPT ![v] = "NONE"] /\ refs' = [refs EXCEPT ![v] = 0]
  /\ call' = [k \in Calls |-> IF k \in Holders(v) THEN NoCall ELSE call[k]]
  /\ UNCHANGED <<queue, taken>>

Release(k) == refs' = [refs EXCEPT ![call[k].video] = @ - 1] /\ UNCHANGED copy

\* A request for another case's video sweeps too.
SweepLocked(v) ==
  /\ v \in Unused
  /\ copy' = [copy EXCEPT ![v] = "NONE"]
  /\ UNCHANGED <<queue, refs, call, taken>>

\* Open, to play a video.
Open(k, v) ==
  /\ call[k].at = "NONE" /\ status[v] # "NONE"
  /\ \E gone \in SUBSET Videos : Get(v, gone)
  /\ call' = [call EXCEPT ![k].at = "WAITING", ![k].video = v]
  /\ UNCHANGED <<queue, taken>>

\* Extract, and FrameFaces, of a frame of a processed video.
Extract(k, f, faces) ==
  /\ call[k].at = "NONE" /\ status[VideoOf[f]] = "DONE"
  /\ \E gone \in SUBSET Videos : Get(VideoOf[f], gone)
  /\ call' = [call EXCEPT ![k].at = "WAITING", ![k].video = VideoOf[f], ![k].frame = f, ![k].faces = faces]
  /\ UNCHANGED <<queue, taken>>

Ready(k) ==
  /\ call[k].at = "WAITING" /\ copy[call[k].video] = "READY"
  /\ Step(k, "READY")
  /\ UNCHANGED <<queue, cache, taken>>

-----------------------------------------------------------------------------
(* Taking a frame.                                                         *)

\* Whatever the end of an Extract, it releases its copy; one that made the file and did not come
\* to the source leaves it halfway.
EndExtract(k, ok) ==
  /\ Release(k) /\ End(k)
  /\ halfway' = IF ~ok /\ call[k].creator /\ file[call[k].frame] = call[k].file
                  THEN halfway \cup {call[k].frame} ELSE halfway

\* The end of a player's or a viewer's request, a cancelled wait, and every early return.
Leave(k) ==
  /\ call[k].at \in Looking
  /\ EndExtract(k, FALSE)
  /\ UNCHANGED <<queue, file, row, late>>

\* GetCaseFileByHash: was the frame taken before?
GetCaseFileByHash(k) ==
  LET f == call[k].frame
  IN  /\ call[k].at = "READY" /\ f # No
      /\ call' = [call EXCEPT ![k].at = IF Made(f) THEN "EXISTING" ELSE "NEW", ![k].file = file[f]]
      /\ UNCHANGED <<queue, cache, taken>>

\* An id nothing refers to.
Fresh(id) == (\A f \in Frames : file[f] # id) /\ \A k \in Calls : call[k].file # id

\* AddEvidence makes the file; where there is one by now, a unique key refuses it (Leave).
AddEvidence(k, id) ==
  LET f == call[k].frame
  IN  /\ call[k].at = "NEW" /\ ~Made(f) /\ Fresh(id)
      /\ file' = [file EXCEPT ![f] = id]
      /\ call' = [call EXCEPT ![k].at = "FILED", ![k].file = id, ![k].creator = TRUE]
      /\ UNCHANGED <<queue, cache, row, halfway, late>>

\* The file is still there.
Stands(k) == file[call[k].frame] = call[k].file

\* CreateTraces finds the file's row, or that there is none.
GetCaseEvidenceByCaseFile(k) ==
  /\ call[k].at \in {"EXISTING", "FILED"} /\ call[k].faces /\ Stands(k)
  /\ \E r \in IF RowsOf(call[k].file) = {} THEN {No} ELSE RowsOf(call[k].file) :
       call' = [call EXCEPT ![k].at = "MARKING", ![k].row = r]
  /\ UNCHANGED <<queue, cache, taken>>

NewRow(r, id, marked) ==
  /\ row[r] = No /\ \A k \in Calls : call[k].row # r
  /\ row' = [row EXCEPT ![r] = [file |-> id, sourced |-> FALSE, marked |-> marked]]

\* It commits the traces, on a row of its own if it had found none.
CreateTraces(k) ==
  LET id == call[k].file
  IN  /\ call[k].at = "MARKING" /\ Stands(k)
      /\ IF call[k].row = No
           THEN /\ \E r \in Ids : NewRow(r, id, TRUE)
                /\ late' = IF \E r \in RowsOf(id) : row[r].sourced THEN late \cup {call[k].frame} ELSE late
           ELSE /\ row' = [row EXCEPT ![call[k].row].marked = TRUE]
                /\ UNCHANGED late
      /\ IF call[k].creator
           THEN Step(k, "MARKED") /\ UNCHANGED <<cache, halfway>>
           ELSE EndExtract(k, TRUE)
      /\ UNCHANGED <<queue, file>>

\* With no face to mark, a row for the file all the same.
CreateCaseEvidenceForFile(k) ==
  /\ call[k].at = "FILED" /\ ~call[k].faces /\ Stands(k)
  /\ \E r \in Ids : NewRow(r, call[k].file, FALSE)
  /\ Step(k, "MARKED")
  /\ UNCHANGED <<queue, cache, file, halfway, late>>

\* Fault: the source goes on one of the file's rows.
SetEvidenceVideoSourceOnce(k) ==
  /\ call[k].at = "MARKED" /\ RowsOf(call[k].file) # {}
  /\ \E r \in RowsOf(call[k].file) : row' = [row EXCEPT ![r].sourced = TRUE]
  /\ EndExtract(k, TRUE)
  /\ UNCHANGED <<queue, file, late>>

\* Every row of the file records the video and the time.
SetEvidenceVideoSource(k) ==
  /\ call[k].at = "MARKED" /\ RowsOf(call[k].file) # {}
  /\ row' = [r \in Ids |-> IF r \in RowsOf(call[k].file) THEN [row[r] EXCEPT !.sourced = TRUE] ELSE row[r]]
  /\ EndExtract(k, TRUE)
  /\ UNCHANGED <<queue, file, late>>

DeleteTraces(r) ==
  /\ row[r] # No /\ row[r].marked
  /\ row' = [row EXCEPT ![r].marked = FALSE]
  /\ UNCHANGED <<queue, cache, call, file, halfway, late>>

\* An evidence with no traces is deleted, and its rows with it.
DeleteEvidence(f) ==
  /\ Made(f) /\ \A r \in RowsOf(file[f]) : ~row[r].marked
  /\ file' = [file EXCEPT ![f] = No]
  /\ row' = [r \in Ids |-> IF r \in RowsOf(file[f]) THEN No ELSE row[r]]
  /\ halfway' = halfway \ {f} /\ late' = late \ {f}
  /\ UNCHANGED <<queue, cache, call>>

\* The API restarts: its requests end where they are, and its copies are forgotten.
Restart ==
  /\ call' = [k \in Calls |-> NoCall]
  /\ copy' = [v \in Videos |-> "NONE"] /\ refs' = [v \in Videos |-> 0]
  /\ abandoned' = abandoned \cup {v \in Videos : status[v] \in Busy /\
                                    \E k \in Calls : call[k].at \in Queueing /\ call[k].video = v}
  /\ halfway' = halfway \cup {f \in Frames : Made(f) /\ Creators(file[f]) # {}}
  /\ UNCHANGED <<status, task, file, row, late>>

-----------------------------------------------------------------------------
Worker(i) ==
  \/ StartCaseVideo(i) \/ FinishCaseVideo(i) \/ FailCaseVideo(i)
  \/ ProcessFails(i) \/ Recover(i) \/ Done(i)

Queues(k) == EnqueueFails(k) \/ \E i \in Tasks : Enqueue(k, i)

Next ==
  \/ \E i \in Tasks : Worker(i)
  \/ \E k \in Calls :
       \/ \E v \in Videos : InsertCaseVideo(k, v) \/ Reprocess(k, v) \/ Open(k, v)
       \/ ResetCaseVideo(k) \/ Queues(k) \/ QueueingFails(k)
       \/ \E f \in Frames, faces \in BOOLEAN : Extract(k, f, faces)
       \/ Ready(k) \/ Leave(k) \/ GetCaseFileByHash(k)
       \/ \E id \in Ids : AddEvidence(k, id)
       \/ GetCaseEvidenceByCaseFile(k) \/ CreateTraces(k) \/ CreateCaseEvidenceForFile(k)
       \/ SetEvidenceVideoSource(k)
  \/ \E v \in Videos : Downloaded(v) \/ DownloadFails(v) \/ SweepLocked(v)
  \/ \E r \in Ids : DeleteTraces(r)
  \/ \E f \in Frames : DeleteEvidence(f)
  \/ Restart

Spec == Init /\ [][Next]_vars

-----------------------------------------------------------------------------
(* Properties.                                                             *)

\* "the video is already being processed" (video.go:55), which Reprocess says of a video that is
\* PENDING or PROCESSING: it is, or is about to be -- unless an enqueue or a failure was lost.
BusyIsBeingProcessed ==
  \A v \in Videos : status[v] \in Busy =>
    \/ v \in abandoned
    \/ \E i \in Tasks : task[i] # No /\ task[i].video = v /\ task[i].at # "ENDED"
    \/ \E k \in Calls : call[k].at \in Queueing /\ call[k].video = v

\* "never one in use" (frames.go:122), and every use is counted once: the copy a request works on
\* is there, and no reference is left behind to keep one for ever.
CopiesAreCounted ==
  \A v \in Videos :
    /\ copy[v] # "NONE" => refs[v] = Cardinality(Holders(v))
    /\ \A k \in Holders(v) : call[k].at # "WAITING" => copy[v] = "READY"
    /\ Holders(v) # {} => copy[v] # "NONE"

\* "each pick becomes an evidence ... that records the video, the time and the frame number"
\* (video.go:5): so does every row of the frame's file once its Extract is over, unless that
\* ended halfway or another Extract added a row after the source was recorded.
SourceIsRecorded ==
  \A f \in Frames : Made(f) /\ Creators(file[f]) = {} /\ f \notin halfway =>
    /\ RowsOf(file[f]) # {}
    /\ f \in late \/ \A r \in RowsOf(file[f]) : row[r].sourced

\* Without the exception of a lost enqueue or failure (video.go:55).
BusyMeansBusy ==
  \A v \in Videos : status[v] \in Busy =>
    \/ \E i \in Tasks : task[i] # No /\ task[i].video = v /\ task[i].at # "ENDED"
    \/ \E k \in Calls : call[k].at \in Queueing /\ call[k].video = v

\* Without the exception of a row added late (video.go:5).
EveryRowHasItsSource ==
  \A f \in Frames : Made(f) /\ Creators(file[f]) = {} /\ f \notin halfway =>
    \A r \in RowsOf(file[f]) : row[r].sourced
=============================================================================
