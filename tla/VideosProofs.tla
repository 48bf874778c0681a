----------------------------- MODULE VideosProofs -----------------------------
(***************************************************************************)
(* Theorems about Videos, for any videos, frames, requests and tasks.      *)
(*                                                                         *)
(* The inductive invariant adds what a request knows at each of its steps  *)
(* (Calling), that a copy counts exactly those who hold it (CopyInv), and  *)
(* that an id in a request is of the frame it is about or of no file any   *)
(* more (IdInv).                                                           *)
(***************************************************************************)
EXTENDS Videos, FiniteSetTheorems, TLAPS

Statuses == {"NONE"} \cup Busy \cup Settled
Call == [at : {"NONE", "READ"} \cup Queueing \cup Looking, video : Videos \cup {No},
         frame : Frames \cup {No}, faces : BOOLEAN, file : Ids \cup {No},
         row : Ids \cup {No}, creator : BOOLEAN]

\* What a request is about, at each of its steps.
Calling(c) ==
  /\ c.at # "NONE" => c.video \in Videos
  /\ c.at \in Taking => c.frame \in Frames
  /\ c.at \in Taking \ {"NEW"} => c.file \in Ids
  /\ c.at \notin Taking => c.file = No
  /\ c.creator => c.at \in {"FILED", "MARKING", "MARKED"}
  /\ c.at \in {"FILED", "MARKED"} => c.creator

CallInv == \A k \in Calls : Calling(call[k])

CopyInv ==
  \A v \in Videos :
    /\ IsFiniteSet(Holders(v)) /\ refs[v] = Cardinality(Holders(v))
    /\ \A k \in Holders(v) : call[k].at # "WAITING" => copy[v] = "READY"
    /\ Holders(v) # {} => copy[v] # "NONE"

IdInv ==
  /\ \A f, g \in Frames : Made(f) /\ file[f] = file[g] => f = g
  /\ \A k \in Calls, f \in Frames : Made(f) /\ call[k].file = file[f] => call[k].frame = f
  /\ \A r \in Ids : row[r] # No => \E f \in Frames : file[f] = row[r].file
  /\ \A k \in Calls : call[k].at = "MARKING" /\ call[k].row # No /\ Stands(k) =>
       call[k].row \in RowsOf(call[k].file)

IInv == TypeOK /\ CallInv /\ CopyInv /\ IdInv /\ BusyIsBeingProcessed /\ SourceIsRecorded

-----------------------------------------------------------------------------
(* Initially.                                                              *)

LEMMA IInvInit == Init => IInv
<1> SUFFICES ASSUME Init PROVE IInv
  OBVIOUS
<1> USE DEF Init
<1>1. TypeOK
  BY ConstantsOK DEF TypeOK, NoCall, Task, Row
<1>2. \A v \in Videos : Holders(v) = {}
  BY DEF Holders, NoCall, Looking, Taking
<1>3. CallInv /\ IdInv
  BY DEF CallInv, Calling, NoCall, Taking, IdInv, Made, Stands
<1>4. CopyInv
  BY <1>2, FS_EmptySet DEF CopyInv
<1>5. BusyIsBeingProcessed /\ SourceIsRecorded
  BY DEF BusyIsBeingProcessed, Busy, SourceIsRecorded, Made
<1> QED BY <1>1, <1>3, <1>4, <1>5 DEF IInv

-----------------------------------------------------------------------------
(* The calls.                                                              *)

\* The types of the calls, and what each is about, are kept by every step.
LEMMA CallStep ==
  ASSUME IInv, [Next]_vars
  PROVE  call' \in [Calls -> Call] /\ CallInv'
<1>1. call \in [Calls -> Call] /\ CallInv
  BY DEF IInv, TypeOK, Call
<1>2. file \in [Frames -> Ids \cup {No}] /\ VideoOf \in [Frames -> Videos]
  BY ConstantsOK DEF IInv, TypeOK
<1>3. NoCall \in Call /\ Calling(NoCall)
  BY DEF NoCall, Call, Calling, Taking
<1>4. ASSUME call' = call
      PROVE  call' \in [Calls -> Call] /\ CallInv'
  BY <1>1, <1>4 DEF CallInv
<1>5. ASSUME NEW k \in Calls, NEW c \in Call, Calling(c), call' = [call EXCEPT ![k] = c]
      PROVE  call' \in [Calls -> Call] /\ CallInv'
  BY <1>1, <1>5 DEF CallInv
<1>6. ASSUME NEW k \in Calls, End(k)
      PROVE  call' \in [Calls -> Call] /\ CallInv'
  BY <1>3, <1>5, <1>6 DEF End
<1>7. ASSUME \A k \in Calls : call'[k] \in {NoCall, call[k]}, call' = [k \in Calls |-> call'[k]]
      PROVE  call' \in [Calls -> Call] /\ CallInv'
  <2>1. \A k \in Calls : call'[k] \in Call /\ Calling(call'[k])
    BY <1>1, <1>3, <1>7 DEF CallInv
  <2> QED BY <2>1, <1>7 DEF CallInv
<1> USE DEF Queueing, Looking, Taking
<1>11. ASSUME NEW k \in Calls, NEW v \in Videos, InsertCaseVideo(k, v) \/ Reprocess(k, v) \/ Open(k, v)
       PROVE  call' \in [Calls -> Call] /\ CallInv'
  <2>1. call[k].at = "NONE"
    BY <1>11 DEF InsertCaseVideo, Reprocess, Open
  <2>2. PICK at \in {"ADDED", "READ", "WAITING"} : call' = [call EXCEPT ![k] = [@ EXCEPT !.at = at, !.video = v]]
    BY <1>11, <1>1 DEF InsertCaseVideo, Reprocess, Open, Call
  <2>3. [call[k] EXCEPT !.at = at, !.video = v] \in Call /\ Calling([call[k] EXCEPT !.at = at, !.video = v])
    BY <1>1, <2>1 DEF CallInv, Calling, Call
  <2> QED BY <1>5, <2>2, <2>3
<1>12. ASSUME NEW k \in Calls, NEW f \in Frames, NEW faces \in BOOLEAN, Extract(k, f, faces)
       PROVE  call' \in [Calls -> Call] /\ CallInv'
  <2> DEFINE c == [call[k] EXCEPT !.at = "WAITING", !.video = VideoOf[f], !.frame = f, !.faces = faces]
  <2>1. call' = [call EXCEPT ![k] = c]
    BY <1>12, <1>1 DEF Extract, Call
  <2>2. VideoOf[f] \in Videos /\ ~call[k].creator /\ call[k].file = No /\ call[k] \in Call
    BY <1>1, <1>2, <1>12 DEF Extract, CallInv, Calling
  <2>3. c \in Call
    BY <2>2 DEF Call
  <2>4. /\ c.at = "WAITING" /\ c.video = VideoOf[f] /\ c.frame = f
        /\ c.creator = call[k].creator /\ c.file = call[k].file
    BY <2>2 DEF Call
  <2>5. Calling(c)
    <3> HIDE DEF c
    <3> QED BY <2>2, <2>4 DEF Calling
  <2> QED BY <1>5, <2>1, <2>3, <2>5
<1>13. ASSUME NEW k \in Calls, ResetCaseVideo(k) \/ Ready(k)
       PROVE  call' \in [Calls -> Call] /\ CallInv'
  <2>1. PICK at \in {"RESET", "READY"} : call' = [call EXCEPT ![k] = [@ EXCEPT !.at = at]]
    BY <1>13, <1>1 DEF ResetCaseVideo, Ready, Step, Call
  <2>2. call[k].at \in {"READ", "WAITING"}
    BY <1>13 DEF ResetCaseVideo, Ready
  <2>3. [call[k] EXCEPT !.at = at] \in Call /\ Calling([call[k] EXCEPT !.at = at])
    BY <1>1, <2>2 DEF CallInv, Calling, Call
  <2> QED BY <1>5, <2>1, <2>3
<1>14. ASSUME NEW k \in Calls, Queues(k) \/ QueueingFails(k) \/ Leave(k) \/ SetEvidenceVideoSource(k)
       PROVE  call' \in [Calls -> Call] /\ CallInv'
  <2>1. End(k)
    BY <1>14 DEF Queues, Enqueue, EnqueueFails, QueueingFails, Leave, SetEvidenceVideoSource, EndExtract
  <2> QED BY <1>6, <2>1
<1>15. ASSUME NEW k \in Calls, GetCaseFileByHash(k)
       PROVE  call' \in [Calls -> Call] /\ CallInv'
  <2> DEFINE f == call[k].frame
             c == [call[k] EXCEPT !.at = IF Made(f) THEN "EXISTING" ELSE "NEW", !.file = file[f]]
  <2>1. call' = [call EXCEPT ![k] = c]
    BY <1>15, <1>1 DEF GetCaseFileByHash, Call
  <2>2. f \in Frames /\ file[f] \in Ids \cup {No} /\ call[k].at = "READY" /\ ~call[k].creator
    BY <1>1, <1>2, <1>15 DEF GetCaseFileByHash, CallInv, Calling, Call
  <2>3. c \in Call /\ Calling(c)
    BY <1>1, <2>2 DEF CallInv, Calling, Call, Made
  <2> QED BY <1>5, <2>1, <2>3
<1>16. ASSUME NEW k \in Calls, NEW id \in Ids, AddEvidence(k, id)
       PROVE  call' \in [Calls -> Call] /\ CallInv'
  <2> DEFINE c == [call[k] EXCEPT !.at = "FILED", !.file = id, !.creator = TRUE]
  <2>1. call' = [call EXCEPT ![k] = c]
    BY <1>16, <1>1 DEF AddEvidence, Call
  <2>2. c \in Call /\ Calling(c)
    BY <1>1, <1>16 DEF AddEvidence, CallInv, Calling, Call
  <2> QED BY <1>5, <2>1, <2>2
<1>17. ASSUME NEW k \in Calls, GetCaseEvidenceByCaseFile(k)
       PROVE  call' \in [Calls -> Call] /\ CallInv'
  <2>1. PICK r \in Ids \cup {No} : call' = [call EXCEPT ![k] = [@ EXCEPT !.at = "MARKING", !.row = r]]
    BY <1>17, <1>1 DEF GetCaseEvidenceByCaseFile, RowsOf, Call
  <2> DEFINE c == [call[k] EXCEPT !.at = "MARKING", !.row = r]
  <2>2. c \in Call /\ Calling(c)
    BY <1>1, <1>17 DEF GetCaseEvidenceByCaseFile, CallInv, Calling, Call
  <2> QED BY <1>5, <2>1, <2>2
<1>18. ASSUME NEW k \in Calls, CreateTraces(k) \/ CreateCaseEvidenceForFile(k)
       PROVE  call' \in [Calls -> Call] /\ CallInv'
  <2>1. CASE End(k)
    BY <1>6, <2>1
  <2>2. CASE ~End(k)
    <3> DEFINE c == [call[k] EXCEPT !.at = "MARKED"]
    <3>1. call' = [call EXCEPT ![k] = c] /\ call[k].creator /\ call[k].at \in {"MARKING", "FILED"}
      BY <1>18, <1>1, <2>2 DEF CreateTraces, CreateCaseEvidenceForFile, Step, EndExtract, CallInv, Calling, Call
    <3>2. c \in Call /\ Calling(c)
      BY <1>1, <3>1 DEF CallInv, Calling, Call
    <3> QED BY <1>5, <3>1, <3>2
  <2> QED BY <2>1, <2>2
<1>19. ASSUME Restart \/ \E v \in Videos : DownloadFails(v)
       PROVE  call' \in [Calls -> Call] /\ CallInv'
  BY <1>7, <1>19 DEF Restart, DownloadFails
<1>20. ASSUME \/ \E i \in Tasks : Worker(i)
              \/ \E v \in Videos : Downloaded(v) \/ SweepLocked(v)
              \/ \E r \in Ids : DeleteTraces(r)
              \/ \E f \in Frames : DeleteEvidence(f)
              \/ UNCHANGED vars
       PROVE  call' \in [Calls -> Call] /\ CallInv'
  BY <1>4, <1>20 DEF Worker, StartCaseVideo, FinishCaseVideo, FailCaseVideo, ProcessFails, Recover, Done,
     Downloaded, SweepLocked, DeleteTraces, DeleteEvidence, vars
<1> QED BY <1>11, <1>12, <1>13, <1>14, <1>15, <1>16, <1>17, <1>18, <1>19, <1>20 DEF Next

-----------------------------------------------------------------------------
(* The worker and its tasks.                                               *)

QueueTyped ==
  /\ status \in [Videos -> Statuses] /\ task \in [Tasks -> Task \cup {No}] /\ abandoned \subseteq Videos

\* A video that was handled still is when its tasks and its queueing requests stand.
LEMMA StillHandled ==
  ASSUME IInv, UNCHANGED status, abandoned \subseteq abandoned',
         \A i \in Tasks : task[i] # No /\ task[i].at # "ENDED" => task'[i] = task[i],
         \A k \in Calls : call[k].at \in Queueing =>
           call'[k] = call[k] \/ (status[call[k].video] \in Busy => call[k].video \in abandoned')
  PROVE  BusyIsBeingProcessed'
BY DEF IInv, BusyIsBeingProcessed

\* So it is when one video's status is recorded, or lost, whatever becomes of its task or request.
LEMMA HandledButOne ==
  ASSUME IInv, NEW v \in Videos,
         \A u \in Videos \ {v} : /\ status'[u] = status[u]
                                 /\ u \in abandoned => u \in abandoned',
         \A i \in Tasks : task[i] # No /\ task[i].video # v => task'[i] = task[i],
         \A k \in Calls : call[k].at \in Queueing /\ call[k].video # v => call'[k] = call[k],
         \/ status'[v] \notin Busy
         \/ v \in abandoned'
         \/ \E i \in Tasks : task'[i] # No /\ task'[i].video = v /\ task'[i].at # "ENDED"
         \/ \E k \in Calls : call'[k].at \in Queueing /\ call'[k].video = v
  PROVE  BusyIsBeingProcessed'
BY DEF IInv, BusyIsBeingProcessed

LEMMA QueueStep ==
  ASSUME IInv, [Next]_vars
  PROVE  QueueTyped' /\ BusyIsBeingProcessed'
<1>1. QueueTyped /\ call \in [Calls -> Call] /\ CallInv
  BY DEF IInv, TypeOK, QueueTyped, Statuses, Call
<1>2. call' \in [Calls -> Call] /\ CallInv'
  BY CallStep
<1>3. No \notin Videos /\ No \notin Task /\ MaxRetry \in Nat
  BY ConstantsOK
<1> USE DEF Busy, Settled, Statuses
\* A status recorded, or lost.
<1>4. ASSUME NEW v \in Videos, NEW s \in Busy \cup Settled, Record(v, s)
      PROVE  /\ status' \in [Videos -> Statuses] /\ abandoned' \subseteq Videos /\ status'[v] = s
             /\ \A u \in Videos \ {v} : status'[u] = status[u] /\ (u \in abandoned => u \in abandoned')
  BY <1>1, <1>4 DEF Record, QueueTyped
<1>5. ASSUME NEW v \in Videos, Lost(v)
      PROVE  /\ status' \in [Videos -> Statuses] /\ abandoned' \subseteq Videos
             /\ status'[v] \notin Busy \/ v \in abandoned'
             /\ \A u \in Videos \ {v} : status'[u] = status[u] /\ (u \in abandoned => u \in abandoned')
  BY <1>1, <1>5 DEF Lost, QueueTyped
\* A task queued, or moved on, or gone.
<1>6. ASSUME NEW v \in Videos, NEW i \in Tasks, Queue(i, v)
      PROVE  /\ task' \in [Tasks -> Task \cup {No}]
             /\ task'[i] # No /\ task'[i].video = v /\ task'[i].at # "ENDED"
             /\ \A j \in Tasks : task[j] # No => task'[j] = task[j]
  <2>1. [video |-> v, at |-> "QUEUED", tries |-> 0] \in Task
    BY <1>3 DEF Task
  <2> QED BY <1>1, <1>3, <1>6, <2>1 DEF Queue, QueueTyped
<1>7. ASSUME NEW i \in Tasks, task[i] # No, Goes(i)
      PROVE  /\ task' \in [Tasks -> Task \cup {No}]
             /\ \A j \in Tasks : task[j] # No /\ task[j].video # task[i].video => task'[j] = task[j]
  BY <1>1, <1>7 DEF Goes, QueueTyped
<1>8. ASSUME NEW i \in Tasks, task[i] # No, NEW at \in {"QUEUED", "RUNNING", "ENDED"}, NEW n \in 0..MaxRetry,
             task' = [task EXCEPT ![i].at = at, ![i].tries = n]
      PROVE  /\ task' \in [Tasks -> Task \cup {No}]
             /\ task'[i] # No /\ task'[i].video = task[i].video /\ task'[i].at = at
             /\ \A j \in Tasks : j # i => task'[j] = task[j]
  <2>1. task[i] \in Task
    BY <1>1, <1>8 DEF QueueTyped
  <2>2. [task[i] EXCEPT !.at = at, !.tries = n] \in Task
    BY <2>1, <1>8 DEF Task
  <2>3. task' = [task EXCEPT ![i] = [task[i] EXCEPT !.at = at, !.tries = n]]
    BY <1>1, <1>8, <2>1 DEF QueueTyped, Task
  <2> QED BY <1>1, <1>3, <2>1, <2>2, <2>3 DEF QueueTyped, Task
<1>9. ASSUME NEW k \in Calls, End(k)
      PROVE  \A j \in Calls : j # k => call'[j] = call[j]
  BY <1>1, <1>9 DEF End
<1>10. \A k \in Calls : call[k].at # "NONE" => call[k].video \in Videos
  BY <1>1 DEF CallInv, Calling
<1>11. \A i \in Tasks : task[i] # No => task[i] \in Task /\ task[i].video \in Videos
  BY <1>1 DEF QueueTyped, Task
<1>12. ASSUME NEW k \in Calls, NEW v \in Videos, InsertCaseVideo(k, v)
       PROVE  QueueTyped' /\ BusyIsBeingProcessed'
  <2>1. QueueTyped'
    BY <1>1, <1>12 DEF InsertCaseVideo, QueueTyped
  <2>2. /\ call'[k].at = "ADDED" /\ call'[k].video = v
        /\ \A j \in Calls : j # k => call'[j] = call[j]
    BY <1>1, <1>12 DEF InsertCaseVideo, Call
  <2>3. call[k].at \notin Queueing /\ call'[k].at \in Queueing
    BY <1>12, <2>2 DEF InsertCaseVideo, Queueing
  <2>4. \A u \in Videos \ {v} : status'[u] = status[u] /\ (u \in abandoned => u \in abandoned')
    BY <1>1, <1>12 DEF InsertCaseVideo, QueueTyped
  <2>5. \A i \in Tasks : task[i] # No /\ task[i].video # v => task'[i] = task[i]
    BY <1>12 DEF InsertCaseVideo
  <2>6. BusyIsBeingProcessed'
    BY <2>2, <2>3, <2>4, <2>5, HandledButOne
  <2> QED BY <2>1, <2>6
<1>13. ASSUME NEW k \in Calls, ResetCaseVideo(k)
       PROVE  QueueTyped' /\ BusyIsBeingProcessed'
  <2> DEFINE v == call[k].video
  <2>1. v \in Videos /\ call[k].at = "READ" /\ Record(v, "PENDING") /\ task' = task
    BY <1>10, <1>13 DEF ResetCaseVideo
  <2>2. /\ call'[k].at = "RESET" /\ call'[k].video = v
        /\ \A j \in Calls : j # k => call'[j] = call[j]
    BY <1>1, <1>13 DEF ResetCaseVideo, Step, Call
  <2>3. call'[k].at \in Queueing /\ call[k].at \notin Queueing
    BY <2>1, <2>2 DEF Queueing
  <2>4. /\ QueueTyped'
        /\ \A u \in Videos \ {v} : status'[u] = status[u] /\ (u \in abandoned => u \in abandoned')
    <3> HIDE DEF v
    <3> QED BY <1>1, <1>4, <2>1 DEF QueueTyped
  <2>5. BusyIsBeingProcessed'
    <3> HIDE DEF v
    <3> QED BY <2>1, <2>2, <2>3, <2>4, HandledButOne
  <2> QED BY <2>4, <2>5
<1>14. ASSUME NEW k \in Calls, NEW i \in Tasks, Enqueue(k, i)
       PROVE  QueueTyped' /\ BusyIsBeingProcessed'
  <2> DEFINE v == call[k].video
  <2>1. v \in Videos /\ Queue(i, v) /\ UNCHANGED <<status, abandoned>>
    BY <1>10, <1>14 DEF Enqueue, Queueing
  <2>2. \A j \in Calls : j # k => call'[j] = call[j]
    BY <1>9, <1>14 DEF Enqueue
  <2>3. /\ QueueTyped' /\ task'[i] # No /\ task'[i].video = v /\ task'[i].at # "ENDED"
        /\ \A j \in Tasks : task[j] # No => task'[j] = task[j]
    <3> HIDE DEF v
    <3> QED BY <1>1, <1>6, <2>1 DEF QueueTyped
  <2>4. BusyIsBeingProcessed'
    BY <2>1, <2>2, <2>3, HandledButOne
  <2> QED BY <2>3, <2>4
<1>15. ASSUME NEW k \in Calls, EnqueueFails(k) \/ QueueingFails(k)
       PROVE  QueueTyped' /\ BusyIsBeingProcessed'
  <2> DEFINE v == call[k].video
  <2>1. v \in Videos
    BY <1>10, <1>15 DEF EnqueueFails, QueueingFails, Queueing
  <2>2. \A j \in Calls : j # k => call'[j] = call[j]
    BY <1>9, <1>15 DEF EnqueueFails, QueueingFails
  <2>3. /\ task' \in [Tasks -> Task \cup {No}]
        /\ \A j \in Tasks : task[j] # No => task'[j] = task[j]
    <3>1. task' = task \/ \E i \in Tasks : Queue(i, v)
      BY <1>15 DEF EnqueueFails, QueueingFails
    <3> HIDE DEF v
    <3> QED BY <1>1, <1>6, <2>1, <3>1 DEF QueueTyped
  <2>4. CASE call[k].at = "READ"
    <3>1. UNCHANGED <<status, task, abandoned>> /\ call[k].at \notin Queueing
      BY <1>15, <2>4 DEF EnqueueFails, QueueingFails, Queueing
    <3>2. BusyIsBeingProcessed'
      BY <2>2, <3>1, StillHandled
    <3> QED BY <1>1, <3>1, <3>2 DEF QueueTyped
  <2>5. CASE call[k].at # "READ"
    <3>1. Lost(v) \/ Record(v, "FAILED")
      BY <1>15, <2>5 DEF EnqueueFails, QueueingFails
    <3>2. /\ status' \in [Videos -> Statuses] /\ abandoned' \subseteq Videos
          /\ status'[v] \notin Busy \/ v \in abandoned'
          /\ \A u \in Videos \ {v} : status'[u] = status[u] /\ (u \in abandoned => u \in abandoned')
      <4> HIDE DEF v
      <4>1. CASE Lost(v)
        BY <1>5, <2>1, <4>1
      <4>2. CASE Record(v, "FAILED")
        BY <1>4, <2>1, <4>2
      <4> QED BY <3>1, <4>1, <4>2
    <3>3. BusyIsBeingProcessed'
      BY <2>1, <2>2, <2>3, <3>2, HandledButOne
    <3> QED BY <2>3, <3>2, <3>3 DEF QueueTyped
  <2> QED BY <2>4, <2>5
<1>16. ASSUME NEW i \in Tasks, Worker(i)
       PROVE  QueueTyped' /\ BusyIsBeingProcessed'
  <2> DEFINE v == task[i].video
  <2>1. task[i] # No /\ call' = call
    BY <1>16 DEF Worker, StartCaseVideo, FinishCaseVideo, FailCaseVideo, ProcessFails, Recover, Done, At
  <2>2. v \in Videos /\ task[i] \in Task /\ task[i].tries \in 0..MaxRetry /\ task[i].at \in {"QUEUED", "RUNNING", "ENDED"}
    BY <1>11, <2>1 DEF Task
  <2>3. CASE StartCaseVideo(i) \/ FinishCaseVideo(i) \/ FailCaseVideo(i)
    <3>1. PICK s \in {"PROCESSING", "DONE", "FAILED"}, at \in {"RUNNING", "ENDED"} :
            /\ Record(v, s) /\ task' = [task EXCEPT ![i].at = at]
            /\ at = "ENDED" => s \notin Busy
      BY <2>3 DEF StartCaseVideo, FinishCaseVideo, FailCaseVideo, Moves
    <3>2. task' = [task EXCEPT ![i].at = at, ![i].tries = task[i].tries]
      BY <1>1, <2>2, <3>1 DEF QueueTyped, Task
    <3>3. /\ task' \in [Tasks -> Task \cup {No}] /\ task'[i] # No /\ task'[i].video = v /\ task'[i].at = at
          /\ \A j \in Tasks : j # i => task'[j] = task[j]
      BY <1>8, <2>1, <2>2, <3>2
    <3>4. /\ status'[v] = s
          /\ status' \in [Videos -> Statuses] /\ abandoned' \subseteq Videos
          /\ \A u \in Videos \ {v} : status'[u] = status[u] /\ (u \in abandoned => u \in abandoned')
      <4> HIDE DEF v
      <4> QED BY <1>4, <2>2, <3>1
    <3>5. BusyIsBeingProcessed'
      BY <2>1, <2>2, <3>1, <3>3, <3>4, HandledButOne
    <3> QED BY <3>3, <3>4, <3>5 DEF QueueTyped
  <2>4. CASE Lost(v) /\ Goes(i)
    <3>1. /\ status' \in [Videos -> Statuses] /\ abandoned' \subseteq Videos
          /\ status'[v] \notin Busy \/ v \in abandoned'
          /\ \A u \in Videos \ {v} : status'[u] = status[u] /\ (u \in abandoned => u \in abandoned')
      <4> HIDE DEF v
      <4> QED BY <1>5, <2>2, <2>4
    <3>2. /\ task' \in [Tasks -> Task \cup {No}]
          /\ \A j \in Tasks : task[j] # No /\ task[j].video # v => task'[j] = task[j]
      BY <1>7, <2>1, <2>4
    <3>3. BusyIsBeingProcessed'
      BY <2>1, <2>2, <3>1, <3>2, HandledButOne
    <3> QED BY <3>1, <3>2, <3>3 DEF QueueTyped
  <2>5. CASE Recover(i) /\ ~(Lost(v) /\ Goes(i))
    <3>1. /\ task[i].tries < MaxRetry /\ UNCHANGED <<status, abandoned>>
          /\ task' = [task EXCEPT ![i].at = "QUEUED", ![i].tries = task[i].tries + 1]
      BY <1>1, <2>2, <2>5 DEF Recover, QueueTyped, Task
    <3>2. task[i].tries + 1 \in 0..MaxRetry
      BY <1>3, <2>2, <3>1
    <3>3. /\ task' \in [Tasks -> Task \cup {No}]
          /\ task'[i] # No /\ task'[i].video = v /\ task'[i].at # "ENDED"
          /\ \A j \in Tasks : j # i => task'[j] = task[j]
      BY <1>8, <2>1, <3>1, <3>2
    <3>4. BusyIsBeingProcessed'
      BY <2>1, <2>2, <3>1, <3>3, HandledButOne
    <3> QED BY <1>1, <3>1, <3>3, <3>4 DEF QueueTyped
  <2>6. CASE Done(i)
    <3>1. Goes(i) /\ UNCHANGED <<status, abandoned>> /\ task[i].at = "ENDED"
      BY <2>6 DEF Done, At
    <3>2. task' \in [Tasks -> Task \cup {No}]
      BY <1>7, <2>1, <3>1
    <3>3. \A j \in Tasks : task[j] # No /\ task[j].at # "ENDED" => task'[j] = task[j]
      BY <1>1, <3>1 DEF Goes, QueueTyped
    <3>4. BusyIsBeingProcessed'
      BY <2>1, <3>1, <3>3, StillHandled
    <3> QED BY <1>1, <3>1, <3>2, <3>4 DEF QueueTyped
  <2> QED BY <1>16, <2>3, <2>4, <2>5, <2>6 DEF Worker, ProcessFails, Recover
<1>17. ASSUME UNCHANGED queue, \A k \in Calls : call[k].at \in Queueing => call'[k] = call[k]
       PROVE  QueueTyped' /\ BusyIsBeingProcessed'
  <2>1. BusyIsBeingProcessed'
    BY <1>17, StillHandled DEF queue
  <2> QED BY <1>1, <1>17, <2>1 DEF queue, QueueTyped
<1>18. ASSUME Restart
       PROVE  QueueTyped' /\ BusyIsBeingProcessed'
  <2>1. \A k \in Calls : call[k].at \in Queueing => (status[call[k].video] \in Busy => call[k].video \in abandoned')
    <3> SUFFICES ASSUME NEW k \in Calls, call[k].at \in Queueing, status[call[k].video] \in Busy
                 PROVE  call[k].video \in abandoned'
      OBVIOUS
    <3>1. call[k].video \in Videos
      BY <1>10 DEF Queueing
    <3> QED BY <1>18, <3>1 DEF Restart
  <2>2. BusyIsBeingProcessed'
    BY <1>18, <2>1, StillHandled DEF Restart
  <2> QED BY <1>1, <1>18, <2>2 DEF Restart, QueueTyped
<1>19. ASSUME NEW k \in Calls, UNCHANGED queue, call[k].at \notin Queueing,
              \A j \in Calls : j # k => call'[j] = call[j]
       PROVE  QueueTyped' /\ BusyIsBeingProcessed'
  BY <1>17, <1>19
<1>20. ASSUME NEW k \in Calls, NEW v \in Videos, Reprocess(k, v) \/ Open(k, v)
       PROVE  QueueTyped' /\ BusyIsBeingProcessed'
  <2>1. call[k].at = "NONE" /\ UNCHANGED queue /\ \A j \in Calls : j # k => call'[j] = call[j]
    BY <1>1, <1>20 DEF Reprocess, Open
  <2> QED BY <1>19, <2>1 DEF Queueing
<1>21. ASSUME NEW k \in Calls, NEW f \in Frames, NEW faces \in BOOLEAN, Extract(k, f, faces)
       PROVE  QueueTyped' /\ BusyIsBeingProcessed'
  <2>1. call[k].at = "NONE" /\ UNCHANGED queue /\ \A j \in Calls : j # k => call'[j] = call[j]
    BY <1>1, <1>21 DEF Extract
  <2> QED BY <1>19, <2>1 DEF Queueing
<1>22. ASSUME NEW k \in Calls,
              \/ Ready(k) \/ Leave(k) \/ GetCaseFileByHash(k) \/ GetCaseEvidenceByCaseFile(k)
              \/ \E id \in Ids : AddEvidence(k, id)
              \/ CreateTraces(k) \/ CreateCaseEvidenceForFile(k) \/ SetEvidenceVideoSource(k)
       PROVE  QueueTyped' /\ BusyIsBeingProcessed'
  <2>1. call[k].at \in Looking /\ UNCHANGED queue
    BY <1>22 DEF Ready, Leave, GetCaseFileByHash, GetCaseEvidenceByCaseFile, AddEvidence, CreateTraces,
       CreateCaseEvidenceForFile, SetEvidenceVideoSource, Looking, Taking
  <2>2. \A j \in Calls : j # k => call'[j] = call[j]
    BY <1>1, <1>22 DEF Ready, Leave, GetCaseFileByHash, GetCaseEvidenceByCaseFile, AddEvidence, CreateTraces,
       CreateCaseEvidenceForFile, SetEvidenceVideoSource, Step, End, EndExtract
  <2> QED BY <1>19, <2>1, <2>2 DEF Queueing, Looking, Taking
<1>23. ASSUME \/ \E v \in Videos : Downloaded(v) \/ DownloadFails(v) \/ SweepLocked(v)
              \/ \E r \in Ids : DeleteTraces(r)
              \/ \E f \in Frames : DeleteEvidence(f)
              \/ UNCHANGED vars
       PROVE  QueueTyped' /\ BusyIsBeingProcessed'
  <2>1. UNCHANGED queue /\ \A k \in Calls : call[k].at \in Queueing => call'[k] = call[k]
    BY <1>23 DEF Downloaded, DownloadFails, SweepLocked, DeleteTraces, DeleteEvidence, vars, Holders,
       Queueing, Looking, Taking
  <2> QED BY <1>17, <2>1
<1> QED BY <1>12, <1>13, <1>14, <1>15, <1>16, <1>18, <1>20, <1>21, <1>22, <1>23 DEF Next, Queues

-----------------------------------------------------------------------------
(* The local copies.                                                       *)

CopyTyped == copy \in [Videos -> {"NONE", "LOADING", "READY"}] /\ refs \in [Videos -> Nat]

\* What CopyInv says of one video, with the copy, the count and the calls as they are to be.
Held(v, cs) == {k \in Calls : cs[k].at \in Looking /\ cs[k].video = v}

Counted(v, c, n, cs) ==
  /\ IsFiniteSet(Held(v, cs)) /\ n = Cardinality(Held(v, cs))
  /\ \A k \in Held(v, cs) : cs[k].at # "WAITING" => c = "READY"
  /\ Held(v, cs) # {} => c # "NONE"

\* A request that takes a copy, keeps it, or leaves it.
LEMMA OneHolds ==
  ASSUME IInv, NEW k \in Calls, NEW v \in Videos, NEW cs,
         \A j \in Calls : j # k => cs[j] = call[j],
         call[k].at \in Looking => call[k].video = v,
         cs[k].at \in Looking => cs[k].video = v
  PROVE  /\ \A u \in Videos \ {v} : Counted(u, copy[u], refs[u], cs)
         /\ IsFiniteSet(Held(v, cs)) /\ refs[v] \in Nat
         /\ call[k].at \in Looking /\ cs[k].at \notin Looking =>
              refs[v] >= 1 /\ Cardinality(Held(v, cs)) = refs[v] - 1
         /\ call[k].at \notin Looking /\ cs[k].at \in Looking => Cardinality(Held(v, cs)) = refs[v] + 1
         /\ call[k].at \in Looking /\ cs[k].at \in Looking => Cardinality(Held(v, cs)) = refs[v]
<1> DEFINE n == Held(v, cs)
<1>1. \A u \in Videos : Counted(u, copy[u], refs[u], call)
  BY DEF IInv, CopyInv, Counted, Holders, Held
<1>2. ASSUME NEW u \in Videos \ {v}
      PROVE  Counted(u, copy[u], refs[u], cs)
  <2>1. Held(u, cs) = Held(u, call)
    BY DEF Held
  <2>2. \A j \in Held(u, cs) : cs[j] = call[j]
    BY DEF Held
  <2> QED BY <1>1, <2>1, <2>2 DEF Counted
<1>3. IsFiniteSet(Holders(v)) /\ refs[v] = Cardinality(Holders(v)) /\ refs[v] \in Nat
  BY DEF IInv, CopyInv, TypeOK
<1>4. CASE call[k].at \in Looking /\ cs[k].at \notin Looking
  <2>1. n = Holders(v) \ {k} /\ k \in Holders(v)
    BY <1>4 DEF Holders, Held
  <2>2. IsFiniteSet(n) /\ Cardinality(n) = refs[v] - 1
    BY <1>3, <2>1, FS_RemoveElement
  <2>3. refs[v] # 0
    BY <1>3, <2>1, FS_EmptySet
  <2> QED BY <1>2, <1>3, <1>4, <2>2, <2>3
<1>5. CASE call[k].at \notin Looking /\ cs[k].at \in Looking
  <2>1. n = Holders(v) \cup {k} /\ k \notin Holders(v)
    BY <1>5 DEF Holders, Held
  <2>2. IsFiniteSet(n) /\ Cardinality(n) = refs[v] + 1
    BY <1>3, <2>1, FS_AddElement
  <2> QED BY <1>2, <1>3, <1>5, <2>2
<1>6. CASE call[k].at \in Looking /\ cs[k].at \in Looking
  <2>1. n = Holders(v)
    BY <1>6 DEF Holders, Held
  <2> QED BY <1>2, <1>3, <1>6, <2>1
<1>7. CASE call[k].at \notin Looking /\ cs[k].at \notin Looking
  <2>1. n = Holders(v)
    BY <1>7 DEF Holders, Held
  <2> QED BY <1>2, <1>3, <1>7, <2>1
<1> QED BY <1>4, <1>5, <1>6, <1>7

LEMMA CopyStep ==
  ASSUME IInv, [Next]_vars
  PROVE  CopyTyped' /\ CopyInv'
<1>1. CopyTyped /\ call \in [Calls -> Call] /\ CallInv /\ CopyInv
  BY DEF IInv, TypeOK, CopyTyped, Call
<1>2. call' \in [Calls -> Call] /\ CallInv'
  BY CallStep
<1>3. ASSUME \A v \in Videos : Counted(v, copy'[v], refs'[v], call')
      PROVE  CopyInv'
  BY <1>3 DEF CopyInv, Counted, Holders, Held
<1>4. \A k \in Calls : call[k].at # "NONE" => call[k].video \in Videos
  BY <1>1 DEF CallInv, Calling
<1>5. ASSUME UNCHANGED cache,
             \A k \in Calls : \/ call'[k] = call[k]
                              \/ call[k].at \notin Looking /\ call'[k].at \notin Looking
      PROVE  CopyTyped' /\ CopyInv'
  <2>1. \A v \in Videos : Holders(v)' = Holders(v)
    BY <1>5 DEF Holders
  <2>2. \A v \in Videos : \A k \in Holders(v) : call'[k] = call[k]
    BY <1>5 DEF Holders
  <2>3. copy' = copy /\ refs' = refs
    BY <1>5 DEF cache
  <2> QED BY <1>1, <2>1, <2>2, <2>3 DEF CopyInv, CopyTyped
\* A request goes on with its copy.
<1>6. ASSUME NEW k \in Calls, UNCHANGED cache, call[k].at \in Looking, call'[k].at \in Looking,
             call'[k].video = call[k].video, copy[call[k].video] = "READY",
             \A j \in Calls : j # k => call'[j] = call[j]
      PROVE  CopyTyped' /\ CopyInv'
  <2>1. \A v \in Videos : Holders(v)' = Holders(v)
    BY <1>6 DEF Holders
  <2>2. \A v \in Videos : \A j \in Holders(v) : j # k => call'[j] = call[j]
    BY <1>6 DEF Holders
  <2>3. copy' = copy /\ refs' = refs
    BY <1>6 DEF cache
  <2>4. \A v \in Videos : k \in Holders(v) => copy[v] = "READY"
    BY <1>6 DEF Holders
  <2> QED BY <1>1, <2>1, <2>2, <2>3, <2>4 DEF CopyInv, CopyTyped
\* A request ends and releases it.
<1>7. ASSUME NEW k \in Calls, call[k].at \in Looking, Release(k), End(k)
      PROVE  CopyTyped' /\ CopyInv'
  <2> DEFINE v == call[k].video
  <2>1. v \in Videos
    BY <1>4, <1>7 DEF Looking, Taking
  <2>2. /\ \A j \in Calls : j # k => call'[j] = call[j]
        /\ call'[k].at = "NONE" /\ "NONE" \notin Looking
    BY <1>1, <1>7 DEF End, NoCall, Looking, Taking
  <2>3. /\ refs' = [refs EXCEPT ![v] = refs[v] - 1] /\ copy' = copy
        /\ call[k].at \in Looking /\ call[k].video = v
    BY <1>7, <2>1, <1>1 DEF Release, CopyTyped
  <2> HIDE DEF v
  <2>4. /\ \A u \in Videos \ {v} : Counted(u, copy[u], refs[u], call')
        /\ IsFiniteSet(Held(v, call')) /\ refs[v] \in Nat
        /\ refs[v] >= 1 /\ Cardinality(Held(v, call')) = refs[v] - 1
    <3>1. PICK cs : cs = call'
      OBVIOUS
    <3>2. /\ \A u \in Videos \ {v} : Counted(u, copy[u], refs[u], cs)
          /\ IsFiniteSet(Held(v, cs)) /\ refs[v] \in Nat
          /\ refs[v] >= 1 /\ Cardinality(Held(v, cs)) = refs[v] - 1
      BY <2>1, <2>2, <2>3, <3>1, OneHolds
    <3> QED BY <3>1, <3>2
  <2>5. \A j \in Held(v, call') : j \in Holders(v) /\ call'[j] = call[j]
    BY <2>2 DEF Holders, Held
  <2>6. Counted(v, copy[v], refs[v] - 1, call')
    BY <1>1, <2>1, <2>4, <2>5 DEF Counted, CopyInv
  <2>7. refs' \in [Videos -> Nat] /\ refs'[v] = refs[v] - 1 /\ \A u \in Videos \ {v} : refs'[u] = refs[u]
    BY <1>1, <2>1, <2>3, <2>4 DEF CopyTyped
  <2>8. \A u \in Videos : Counted(u, copy'[u], refs'[u], call')
    BY <2>3, <2>4, <2>6, <2>7
  <2> QED BY <1>1, <1>3, <2>3, <2>7, <2>8 DEF CopyTyped
\* A request gets a copy, after a sweep.
<1>8. ASSUME NEW k \in Calls, NEW v \in Videos, NEW gone \in SUBSET Videos, Get(v, gone),
             call[k].at \notin Looking, call'[k].at = "WAITING", call'[k].video = v,
             \A j \in Calls : j # k => call'[j] = call[j]
      PROVE  CopyTyped' /\ CopyInv'
  <2>1. \A u \in gone : u \in Videos /\ copy[u] = "READY" /\ refs[u] = 0 /\ Holders(u) = {}
    <3> SUFFICES ASSUME NEW u \in gone PROVE u \in Videos /\ copy[u] = "READY" /\ refs[u] = 0 /\ Holders(u) = {}
      OBVIOUS
    <3>1. u \in Videos /\ copy[u] = "READY" /\ refs[u] = 0
      BY <1>8 DEF Get, Unused
    <3> QED BY <1>1, <3>1, FS_EmptySet DEF CopyInv
  <2>2. copy[v] = "NONE" => refs[v] = 0
    BY <1>1, FS_EmptySet DEF CopyInv
  <2>3. refs[v] \in Nat /\ (copy[v] = "NONE" \/ v \in gone => refs[v] = 0)
    BY <1>1, <2>1, <2>2 DEF CopyTyped
  <2>4. refs' = [refs EXCEPT ![v] = refs[v] + 1]
    <3>1. CASE copy[v] = "NONE" \/ v \in gone
      <4>1. refs' = [refs EXCEPT ![v] = 1]
        BY <1>8, <3>1 DEF Get
      <4>2. refs[v] + 1 = 1
        BY <2>3, <3>1
      <4> QED BY <4>1, <4>2
    <3>2. CASE ~(copy[v] = "NONE" \/ v \in gone)
      BY <1>8, <3>2 DEF Get
    <3> QED BY <3>1, <3>2
  <2>5. /\ refs' \in [Videos -> Nat] /\ refs'[v] = refs[v] + 1 /\ \A u \in Videos \ {v} : refs'[u] = refs[u]
        /\ copy' \in [Videos -> {"NONE", "LOADING", "READY"}]
    <3>1. copy' \in [Videos -> {"NONE", "LOADING", "READY"}]
      BY <1>1, <1>8 DEF Get, CopyTyped
    <3>2. refs[v] + 1 \in Nat
      BY <2>3
    <3>3. refs \in [Videos -> Nat]
      BY <1>1 DEF CopyTyped
    <3> QED BY <2>4, <3>1, <3>2, <3>3
  <2>6. "WAITING" \in Looking
    BY DEF Looking
  <2>7. /\ \A u \in Videos \ {v} : Counted(u, copy[u], refs[u], call')
        /\ IsFiniteSet(Held(v, call')) /\ Cardinality(Held(v, call')) = refs[v] + 1
    <3>1. PICK cs : cs = call'
      OBVIOUS
    <3>2. /\ \A u \in Videos \ {v} : Counted(u, copy[u], refs[u], cs)
          /\ IsFiniteSet(Held(v, cs)) /\ Cardinality(Held(v, cs)) = refs[v] + 1
      BY <1>8, <2>6, <3>1, OneHolds
    <3> QED BY <3>1, <3>2
  <2>8. ASSUME NEW u \in Videos \ {v}
        PROVE  Counted(u, copy'[u], refs'[u], call')
    <3>1. refs'[u] = refs[u] /\ Counted(u, copy[u], refs[u], call')
      BY <2>5, <2>7
    <3>2. CASE u \notin gone
      <4>1. copy'[u] = copy[u]
        BY <1>8, <3>2 DEF Get
      <4> QED BY <3>1, <4>1
    <3>3. CASE u \in gone
      <4>1. Held(u, call') = {}
        BY <1>8, <2>1, <3>3 DEF Holders, Held
      <4> QED BY <3>1, <4>1 DEF Counted
    <3> QED BY <3>2, <3>3
  <2>9. Counted(v, copy'[v], refs'[v], call')
    <3>1. copy'[v] # "NONE"
      BY <1>1, <1>8 DEF Get, CopyTyped
    <3>2. ASSUME NEW j \in Held(v, call'), call'[j].at # "WAITING"
          PROVE  copy'[v] = "READY"
      <4>1. j # k /\ j \in Holders(v) /\ call[j].at # "WAITING"
        BY <1>8, <3>2 DEF Holders, Held
      <4>2. copy[v] = "READY" /\ v \notin gone
        BY <1>1, <2>1, <4>1 DEF CopyInv
      <4> QED BY <1>8, <4>2 DEF Get
    <3> QED BY <2>5, <2>7, <3>1, <3>2 DEF Counted
  <2> QED BY <1>3, <2>5, <2>8, <2>9 DEF CopyTyped
<1>11. ASSUME NEW k \in Calls,
              \/ \E v \in Videos : InsertCaseVideo(k, v) \/ Reprocess(k, v)
              \/ ResetCaseVideo(k) \/ Queues(k) \/ QueueingFails(k)
       PROVE  CopyTyped' /\ CopyInv'
  <2>1. UNCHANGED cache /\ call[k].at \notin Looking /\ \A j \in Calls : j # k => call'[j] = call[j]
    BY <1>1, <1>11 DEF InsertCaseVideo, Reprocess, ResetCaseVideo, Queues, Enqueue, EnqueueFails, QueueingFails,
       Step, End, Looking, Taking, Queueing
  <2>2. call'[k].at \notin Looking
    BY <1>1, <1>11 DEF InsertCaseVideo, Reprocess, ResetCaseVideo, Queues, Enqueue, EnqueueFails, QueueingFails,
       Step, End, NoCall, Looking, Taking, Call
  <2> QED BY <1>5, <2>1, <2>2
<1>12. ASSUME NEW k \in Calls, NEW v \in Videos, Open(k, v)
       PROVE  CopyTyped' /\ CopyInv'
  <2>1. PICK gone \in SUBSET Videos : Get(v, gone)
    BY <1>12 DEF Open
  <2>2. /\ call[k].at \notin Looking /\ call'[k].at = "WAITING" /\ call'[k].video = v
        /\ \A j \in Calls : j # k => call'[j] = call[j]
    BY <1>1, <1>12 DEF Open, Call, Looking, Taking
  <2> QED BY <1>8, <2>1, <2>2
<1>13. ASSUME NEW k \in Calls, NEW f \in Frames, NEW faces \in BOOLEAN, Extract(k, f, faces)
       PROVE  CopyTyped' /\ CopyInv'
  <2>1. PICK gone \in SUBSET Videos : Get(VideoOf[f], gone)
    BY <1>13 DEF Extract
  <2>2. VideoOf[f] \in Videos
    BY ConstantsOK
  <2>3. /\ call[k].at \notin Looking /\ call'[k].at = "WAITING" /\ call'[k].video = VideoOf[f]
        /\ \A j \in Calls : j # k => call'[j] = call[j]
    BY <1>1, <1>13 DEF Extract, Call, Looking, Taking
  <2> QED BY <1>8, <2>1, <2>2, <2>3
<1>14. ASSUME NEW k \in Calls, call[k].at \in Looking \ {"WAITING"}
       PROVE  copy[call[k].video] = "READY"
  <2>1. k \in Holders(call[k].video) /\ call[k].video \in Videos
    BY <1>4, <1>14 DEF Holders, Looking, Taking
  <2> QED BY <1>1, <1>14, <2>1 DEF CopyInv
<1>15. ASSUME NEW k \in Calls, Ready(k)
       PROVE  CopyTyped' /\ CopyInv'
  <2>1. /\ call[k].at = "WAITING" /\ copy[call[k].video] = "READY" /\ UNCHANGED cache
        /\ call'[k].at = "READY" /\ call'[k].video = call[k].video
        /\ \A j \in Calls : j # k => call'[j] = call[j]
    BY <1>1, <1>15 DEF Ready, Step, Call
  <2>2. call[k].at \in Looking /\ call'[k].at \in Looking
    BY <2>1 DEF Looking
  <2> QED BY <1>6, <2>1, <2>2
<1>16. ASSUME NEW k \in Calls,
              \/ GetCaseFileByHash(k) \/ GetCaseEvidenceByCaseFile(k) \/ CreateCaseEvidenceForFile(k)
              \/ \E id \in Ids : AddEvidence(k, id)
              \/ CreateTraces(k) /\ call[k].creator
       PROVE  CopyTyped' /\ CopyInv'
  <2>1. /\ call[k].at \in Looking \ {"WAITING"} /\ UNCHANGED cache
        /\ \A j \in Calls : j # k => call'[j] = call[j]
    BY <1>1, <1>16 DEF GetCaseFileByHash, GetCaseEvidenceByCaseFile, CreateCaseEvidenceForFile, AddEvidence,
       CreateTraces, Step, Looking, Taking
  <2>2. call[k] \in Call /\ call \in [Calls -> Call]
    BY <1>1
  <2>3. call'[k].at \in Looking /\ call'[k].video = call[k].video
    <3>1. CASE GetCaseFileByHash(k)
      <4>1. PICK at \in {"NEW", "EXISTING"} : call' = [call EXCEPT ![k] = [@ EXCEPT !.at = at, !.file = file[call[k].frame]]]
        BY <2>2, <3>1 DEF GetCaseFileByHash, Call
      <4> QED BY <2>2, <4>1 DEF Looking, Taking, Call
    <3>2. CASE GetCaseEvidenceByCaseFile(k)
      <4>1. PICK r : call' = [call EXCEPT ![k] = [@ EXCEPT !.at = "MARKING", !.row = r]]
        BY <2>2, <3>2 DEF GetCaseEvidenceByCaseFile, Call
      <4> QED BY <2>2, <4>1 DEF Looking, Taking, Call
    <3>3. CASE CreateCaseEvidenceForFile(k)
      BY <2>2, <3>3 DEF CreateCaseEvidenceForFile, Step, Looking, Taking, Call
    <3>4. CASE \E id \in Ids : AddEvidence(k, id)
      <4>1. PICK id \in Ids : call' = [call EXCEPT ![k] = [@ EXCEPT !.at = "FILED", !.file = id, !.creator = TRUE]]
        BY <2>2, <3>4 DEF AddEvidence, Call
      <4> QED BY <2>2, <4>1 DEF Looking, Taking, Call
    <3>5. CASE CreateTraces(k) /\ call[k].creator
      BY <2>2, <3>5 DEF CreateTraces, Step, Looking, Taking, Call
    <3> QED BY <1>16, <3>1, <3>2, <3>3, <3>4, <3>5
  <2> QED BY <1>6, <1>14, <2>1, <2>3
<1>17. ASSUME NEW k \in Calls, Leave(k) \/ SetEvidenceVideoSource(k) \/ (CreateTraces(k) /\ ~call[k].creator)
       PROVE  CopyTyped' /\ CopyInv'
  <2>1. call[k].at \in Looking /\ Release(k) /\ End(k)
    BY <1>17 DEF Leave, SetEvidenceVideoSource, CreateTraces, EndExtract, Looking, Taking
  <2> QED BY <1>7, <2>1
<1>18. ASSUME NEW v \in Videos, Downloaded(v) \/ SweepLocked(v)
       PROVE  CopyTyped' /\ CopyInv'
  <2>1. PICK c \in {"NONE", "READY"} : copy' = [copy EXCEPT ![v] = c]
    BY <1>18 DEF Downloaded, SweepLocked
  <2>2. call' = call /\ refs' = refs
    BY <1>18 DEF Downloaded, SweepLocked
  <2>3. c = "NONE" => Holders(v) = {}
    <3>1. ASSUME SweepLocked(v) PROVE Holders(v) = {}
      <4>1. refs[v] = 0
        BY <3>1 DEF SweepLocked, Unused
      <4> QED BY <1>1, <4>1, FS_EmptySet DEF CopyInv
    <3>2. ASSUME Downloaded(v) PROVE c = "READY"
      BY <1>1, <2>1, <3>2 DEF Downloaded, CopyTyped
    <3> QED BY <1>18, <3>1, <3>2
  <2>4. \A u \in Videos : Holders(u)' = Holders(u)
    BY <2>2 DEF Holders
  <2>5. copy'[v] = c /\ (\A u \in Videos \ {v} : copy'[u] = copy[u]) /\ CopyTyped'
    BY <1>1, <2>1, <2>2 DEF CopyTyped
  <2> QED BY <1>1, <2>2, <2>3, <2>4, <2>5 DEF CopyInv
<1>19. ASSUME NEW v \in Videos, DownloadFails(v)
       PROVE  CopyTyped' /\ CopyInv'
  <2>1. Holders(v)' = {}
    BY <1>19 DEF DownloadFails, Holders, NoCall, Looking, Taking
  <2>2. \A u \in Videos \ {v} : Holders(u)' = Holders(u) /\ \A k \in Holders(u) : call'[k] = call[k]
    BY <1>19 DEF DownloadFails, Holders, NoCall, Looking, Taking
  <2>3. copy'[v] = "NONE" /\ refs'[v] = 0 /\ (\A u \in Videos \ {v} : copy'[u] = copy[u] /\ refs'[u] = refs[u]) /\ CopyTyped'
    BY <1>1, <1>19 DEF DownloadFails, CopyTyped
  <2> QED BY <1>1, <2>1, <2>2, <2>3, FS_EmptySet DEF CopyInv
<1>20. ASSUME Restart
       PROVE  CopyTyped' /\ CopyInv'
  <2>1. \A v \in Videos : Holders(v)' = {} /\ refs'[v] = 0 /\ copy'[v] = "NONE"
    BY <1>20 DEF Restart, Holders, NoCall, Looking, Taking
  <2>2. CopyTyped'
    BY <1>20 DEF Restart, CopyTyped
  <2> QED BY <2>1, <2>2, FS_EmptySet DEF CopyInv
<1>21. ASSUME \/ \E i \in Tasks : Worker(i)
              \/ \E r \in Ids : DeleteTraces(r)
              \/ \E f \in Frames : DeleteEvidence(f)
              \/ UNCHANGED vars
       PROVE  CopyTyped' /\ CopyInv'
  <2>1. UNCHANGED cache /\ call' = call
    BY <1>21 DEF Worker, StartCaseVideo, FinishCaseVideo, FailCaseVideo, ProcessFails, Recover, Done,
       DeleteTraces, DeleteEvidence, vars
  <2> QED BY <1>5, <2>1
<1> QED BY <1>11, <1>12, <1>13, <1>15, <1>16, <1>17, <1>18, <1>19, <1>20, <1>21 DEF Next

-----------------------------------------------------------------------------
(* The frames taken.                                                       *)

TakenTyped ==
  /\ file \in [Frames -> Ids \cup {No}] /\ row \in [Ids -> Row \cup {No}]
  /\ halfway \subseteq Frames /\ late \subseteq Frames

\* What SourceIsRecorded says of one frame.
Recorded(f) ==
  Made(f) /\ Creators(file[f]) = {} /\ f \notin halfway =>
    /\ RowsOf(file[f]) # {}
    /\ f \in late \/ \A r \in RowsOf(file[f]) : row[r].sourced

\* A frame stays recorded while its rows and their sources stand, and its creators do or leave it
\* halfway.
LEMMA RecordedStands ==
  ASSUME IInv, NEW f \in Frames, file'[f] = file[f],
         f \in halfway => f \in halfway', f \in late => f \in late',
         \A r \in RowsOf(file[f]) :
           row'[r] # No /\ row'[r].file = file[f] /\ row'[r].sourced = row[r].sourced,
         \A r \in Ids : row'[r] # No /\ row'[r].file = file[f] => r \in RowsOf(file[f]),
         f \in halfway' \/ \A k \in Creators(file[f]) : call'[k].creator /\ call'[k].file = file[f]
  PROVE  Recorded(f)'
<1>1. Recorded(f)
  BY DEF IInv, SourceIsRecorded, Recorded
<1>2. Made(f)' = Made(f)
  BY DEF Made
<1>3. RowsOf(file[f])' = RowsOf(file[f])
  BY DEF RowsOf
<1>4. f \notin halfway' /\ Creators(file[f])' = {} => f \notin halfway /\ Creators(file[f]) = {}
  BY DEF Creators
<1>5. \A r \in RowsOf(file[f]) : row'[r].sourced = row[r].sourced
  OBVIOUS
<1> QED BY <1>1, <1>2, <1>3, <1>4, <1>5 DEF Recorded

\* A step of the requests alone, none of them a creator's.
LEMMA OthersTake ==
  ASSUME IInv, UNCHANGED taken,
         \A k \in Calls :
           \/ call'[k] = call[k]
           \/ /\ ~call[k].creator /\ call'[k].at # "MARKING"
              /\ \A f \in Frames : Made(f) /\ call'[k].file = file[f] => call'[k].frame = f
  PROVE  TakenTyped' /\ IdInv' /\ SourceIsRecorded'
<1>1. TakenTyped /\ IdInv
  BY DEF IInv, TypeOK, TakenTyped
<1>2. file' = file /\ row' = row /\ halfway' = halfway /\ late' = late
  BY DEF taken
<1>3. TakenTyped'
  BY <1>1, <1>2 DEF TakenTyped
<1>4. IdInv'
  BY <1>1, <1>2 DEF IdInv, Made, Stands, RowsOf
<1>5. ASSUME NEW f \in Frames PROVE Recorded(f)'
  <2>1. \A k \in Creators(file[f]) : call'[k] = call[k]
    BY DEF Creators
  <2>2. \A k \in Creators(file[f]) : call'[k].creator /\ call'[k].file = file[f]
    BY <2>1 DEF Creators
  <2> QED BY <1>2, <2>2, RecordedStands DEF RowsOf
<1> QED BY <1>3, <1>4, <1>5 DEF SourceIsRecorded, Recorded

LEMMA TakenStep ==
  ASSUME IInv, [Next]_vars
  PROVE  TakenTyped' /\ IdInv' /\ SourceIsRecorded'
<1>1. /\ TakenTyped /\ IdInv /\ CallInv
      /\ call \in [Calls -> Call]
  BY DEF IInv, TypeOK, TakenTyped, Call
<1>2. No \notin Ids /\ No \notin Row /\ No \notin Frames
  BY ConstantsOK
<1>3. ASSUME \A f \in Frames : Recorded(f)' PROVE SourceIsRecorded'
  BY <1>3 DEF SourceIsRecorded, Recorded
\* What the invariant says of a creator and of a row.
<1>4. ASSUME NEW k \in Calls, call[k].at \in Taking \ {"NEW"}
      PROVE  call[k].frame \in Frames /\ call[k].file \in Ids /\ call[k].file # No
  BY <1>1, <1>2, <1>4 DEF CallInv, Calling
<1>5. \A r \in Ids : row[r] # No => row[r] \in Row /\ row[r].file \in Ids /\ row[r].file # No
  BY <1>1, <1>2 DEF TakenTyped, Row
<1>6. \A f, g \in Frames : Made(f) /\ f # g => file[f] # file[g]
  BY <1>1 DEF IdInv
<1>7. \A k \in Calls, f \in Frames : Made(f) /\ k \in Creators(file[f]) => call[k].frame = f
  BY <1>1 DEF IdInv, Creators
<1>11. ASSUME \/ \E i \in Tasks : Worker(i)
              \/ \E v \in Videos : Downloaded(v) \/ SweepLocked(v)
              \/ UNCHANGED vars
       PROVE  TakenTyped' /\ IdInv' /\ SourceIsRecorded'
  <2>1. UNCHANGED taken /\ call' = call
    BY <1>11 DEF Worker, StartCaseVideo, FinishCaseVideo, FailCaseVideo, ProcessFails, Recover, Done,
       Downloaded, SweepLocked, vars
  <2> QED BY <2>1, OthersTake
\* A request that is about no file.
<1>12. ASSUME NEW k \in Calls, UNCHANGED taken, \A j \in Calls : j # k => call'[j] = call[j],
              ~call[k].creator, call'[k].at # "MARKING", call'[k].file = No
       PROVE  TakenTyped' /\ IdInv' /\ SourceIsRecorded'
  <2>1. \A f \in Frames : Made(f) => call'[k].file # file[f]
    BY <1>12 DEF Made
  <2> QED BY <1>12, <2>1, OthersTake
<1>13. ASSUME NEW k \in Calls, call[k].at \notin Taking
       PROVE  call[k].file = No /\ ~call[k].creator
  BY <1>1, <1>13 DEF CallInv, Calling, Taking
<1>14. ASSUME NEW k \in Calls,
              \/ \E v \in Videos : InsertCaseVideo(k, v) \/ Reprocess(k, v) \/ Open(k, v)
              \/ ResetCaseVideo(k) \/ Ready(k)
              \/ Queues(k) \/ QueueingFails(k)
              \/ \E f \in Frames, faces \in BOOLEAN : Extract(k, f, faces)
       PROVE  TakenTyped' /\ IdInv' /\ SourceIsRecorded'
  <2>1. /\ UNCHANGED taken /\ call[k].at \notin Taking
        /\ \A j \in Calls : j # k => call'[j] = call[j]
    BY <1>1, <1>14 DEF InsertCaseVideo, Reprocess, Open, ResetCaseVideo, Ready, Queues, Enqueue, EnqueueFails,
       QueueingFails, Extract, Step, End, Queueing, Taking
  <2>2. call[k].file = No /\ ~call[k].creator
    BY <1>13, <2>1
  <2>3. call'[k].at # "MARKING" /\ call'[k].file = No
    <3>1. CASE \E v \in Videos : InsertCaseVideo(k, v) \/ Reprocess(k, v) \/ Open(k, v)
      BY <1>1, <2>2, <3>1 DEF InsertCaseVideo, Reprocess, Open, Call
    <3>2. CASE ResetCaseVideo(k) \/ Ready(k)
      BY <1>1, <2>2, <3>2 DEF ResetCaseVideo, Ready, Step, Call
    <3>3. CASE Queues(k) \/ QueueingFails(k)
      BY <1>1, <3>3 DEF Queues, Enqueue, EnqueueFails, QueueingFails, End, NoCall
    <3>4. CASE \E f \in Frames, faces \in BOOLEAN : Extract(k, f, faces)
      BY <1>1, <2>2, <3>4 DEF Extract, Call
    <3> QED BY <1>14, <3>1, <3>2, <3>3, <3>4
  <2> QED BY <1>12, <2>1, <2>2, <2>3
<1>15. ASSUME NEW k \in Calls, GetCaseFileByHash(k)
       PROVE  TakenTyped' /\ IdInv' /\ SourceIsRecorded'
  <2> DEFINE f == call[k].frame
  <2>1. f \in Frames /\ call[k].at \notin Taking /\ UNCHANGED taken
    BY <1>1, <1>15 DEF GetCaseFileByHash, Call, Taking
  <2>2. PICK at \in {"EXISTING", "NEW"} : call' = [call EXCEPT ![k] = [@ EXCEPT !.at = at, !.file = file[f]]]
    BY <1>1, <1>15 DEF GetCaseFileByHash, Call
  <2>3. call'[k].at # "MARKING" /\ call'[k].frame = f /\ call'[k].file = file[f] /\ \A j \in Calls : j # k => call'[j] = call[j]
    BY <1>1, <2>2 DEF Call
  <2> HIDE DEF f
  <2>4. \A g \in Frames : Made(g) /\ file[f] = file[g] => f = g
    BY <1>6, <2>1
  <2> QED BY <1>13, <2>1, <2>3, <2>4, OthersTake
<1>16. ASSUME NEW v \in Videos, DownloadFails(v)
       PROVE  TakenTyped' /\ IdInv' /\ SourceIsRecorded'
  <2>1. UNCHANGED taken /\ \A k \in Calls : k \notin Holders(v) => call'[k] = call[k]
    BY <1>16 DEF DownloadFails
  <2>2. ASSUME NEW k \in Holders(v)
        PROVE  k \in Calls /\ ~call[k].creator /\ call'[k].at # "MARKING" /\ call'[k].file = No
    <3>1. k \in Calls /\ call[k].at = "WAITING"
      BY <1>16 DEF IInv, CopyInv, DownloadFails, Holders
    <3>2. call'[k] = NoCall
      BY <1>16, <3>1 DEF DownloadFails
    <3> QED BY <1>13, <3>1, <3>2 DEF NoCall, Taking
  <2>3. \A k \in Holders(v) : \A f \in Frames : Made(f) => call'[k].file # file[f]
    BY <2>2 DEF Made
  <2> QED BY <2>1, <2>2, <2>3, OthersTake
\* CreateTraces finds a row.
<1>17. ASSUME NEW k \in Calls, GetCaseEvidenceByCaseFile(k)
       PROVE  TakenTyped' /\ IdInv' /\ SourceIsRecorded'
  <2>1. UNCHANGED taken /\ call[k].at \in {"EXISTING", "FILED"}
    BY <1>17 DEF GetCaseEvidenceByCaseFile
  <2>2. PICK r : /\ call' = [call EXCEPT ![k] = [@ EXCEPT !.at = "MARKING", !.row = r]]
                 /\ r # No => r \in RowsOf(call[k].file)
    BY <1>1, <1>17 DEF GetCaseEvidenceByCaseFile, Call
  <2>3. /\ call'[k].file = call[k].file /\ call'[k].frame = call[k].frame
        /\ call'[k].creator = call[k].creator /\ call'[k].row = r
        /\ \A j \in Calls : j # k => call'[j] = call[j]
    BY <1>1, <2>2 DEF Call
  <2>4. file' = file /\ row' = row /\ halfway' = halfway /\ late' = late
    BY <2>1 DEF taken
  <2>5. TakenTyped'
    BY <1>1, <2>4 DEF TakenTyped
  <2>6. IdInv'
    <3>1. \A j \in Calls, f \in Frames : Made(f) /\ call'[j].file = file[f] => call'[j].frame = f
      BY <1>1, <2>3 DEF IdInv
    <3>2. \A j \in Calls : call'[j].at = "MARKING" /\ call'[j].row # No /\ file[call'[j].frame] = call'[j].file =>
            call'[j].row \in RowsOf(call'[j].file)
      BY <1>1, <2>2, <2>3 DEF IdInv, Stands
    <3> QED BY <1>1, <2>4, <3>1, <3>2 DEF IdInv, Made, Stands, RowsOf
  <2>7. ASSUME NEW f \in Frames PROVE Recorded(f)'
    <3>1. \A j \in Creators(file[f]) : call'[j].creator /\ call'[j].file = file[f]
      BY <2>3 DEF Creators
    <3> QED BY <2>4, <3>1, RecordedStands DEF RowsOf
  <2> QED BY <1>3, <2>5, <2>6, <2>7
\* Calls that only end keep the ids apart.
<1>18. ASSUME file' = file, row' = row, \A k \in Calls : call'[k] = call[k] \/ call'[k] = NoCall
       PROVE  IdInv'
  <2>1. NoCall.file = No /\ NoCall.at # "MARKING"
    BY DEF NoCall
  <2>2. \A k \in Calls, f \in Frames : Made(f) /\ call'[k].file = file[f] => call'[k].frame = f
    BY <1>1, <1>18, <2>1 DEF IdInv, Made
  <2>3. \A k \in Calls : call'[k].at = "MARKING" => call'[k] = call[k]
    BY <1>18, <2>1
  <2> QED BY <1>1, <1>18, <2>2, <2>3 DEF IdInv, Made, Stands, RowsOf
<1>19. ASSUME NEW k \in Calls, Leave(k)
       PROVE  TakenTyped' /\ IdInv' /\ SourceIsRecorded'
  <2>1. /\ file' = file /\ row' = row /\ late' = late
        /\ halfway' = IF call[k].creator /\ file[call[k].frame] = call[k].file
                        THEN halfway \cup {call[k].frame} ELSE halfway
        /\ call'[k] = NoCall /\ \A j \in Calls : j # k => call'[j] = call[j]
    BY <1>1, <1>19 DEF Leave, EndExtract, End
  <2>2. call[k].creator => call[k].frame \in Frames
    BY <1>1 DEF CallInv, Calling, Taking
  <2>3. TakenTyped'
    BY <1>1, <2>1, <2>2 DEF TakenTyped
  <2>4. IdInv'
    BY <1>18, <2>1
  <2>5. ASSUME NEW f \in Frames PROVE Recorded(f)'
    <3>1. CASE ~Made(f)
      BY <2>1, <3>1 DEF Recorded, Made
    <3>2. CASE Made(f)
      <4>1. k \in Creators(file[f]) => f \in halfway'
        BY <1>7, <2>1, <3>2 DEF Creators
      <4>2. \A j \in Creators(file[f]) : j # k => call'[j].creator /\ call'[j].file = file[f]
        BY <2>1 DEF Creators
      <4> QED BY <2>1, <4>1, <4>2, RecordedStands DEF RowsOf
    <3> QED BY <3>1, <3>2
  <2> QED BY <1>3, <2>3, <2>4, <2>5
<1>20. ASSUME Restart
       PROVE  TakenTyped' /\ IdInv' /\ SourceIsRecorded'
  <2>1. /\ file' = file /\ row' = row /\ late' = late
        /\ halfway' = halfway \cup {f \in Frames : Made(f) /\ Creators(file[f]) # {}}
        /\ \A k \in Calls : call'[k] = NoCall
    BY <1>20 DEF Restart
  <2>2. TakenTyped'
    BY <1>1, <2>1 DEF TakenTyped
  <2>3. IdInv'
    BY <1>18, <2>1
  <2>4. ASSUME NEW f \in Frames PROVE Recorded(f)'
    <3>1. CASE ~Made(f)
      BY <2>1, <3>1 DEF Recorded, Made
    <3>2. CASE Made(f)
      <4>1. f \in halfway' \/ Creators(file[f]) = {}
        BY <2>1, <3>2
      <4> QED BY <2>1, <4>1, RecordedStands DEF RowsOf
    <3> QED BY <3>1, <3>2
  <2> QED BY <1>3, <2>2, <2>3, <2>4
<1>21. ASSUME NEW k \in Calls, NEW id \in Ids, AddEvidence(k, id)
       PROVE  TakenTyped' /\ IdInv' /\ SourceIsRecorded'
  <2> DEFINE f == call[k].frame
  <2>1. call[k].at = "NEW" /\ f \in Frames /\ ~Made(f) /\ Fresh(id) /\ ~call[k].creator
    BY <1>1, <1>21 DEF AddEvidence, CallInv, Calling, Taking
  <2>2. /\ file' = [file EXCEPT ![f] = id] /\ row' = row /\ halfway' = halfway /\ late' = late
        /\ call' = [call EXCEPT ![k] = [@ EXCEPT !.at = "FILED", !.file = id, !.creator = TRUE]]
    BY <1>1, <1>21 DEF AddEvidence, Call
  <2>3. /\ call'[k].at = "FILED" /\ call'[k].file = id /\ call'[k].creator /\ call'[k].frame = f
        /\ \A j \in Calls : j # k => call'[j] = call[j]
    BY <1>1, <2>2 DEF Call
  <2> HIDE DEF f
  <2>4. file'[f] = id /\ \A g \in Frames : g # f => file'[g] = file[g]
    BY <1>1, <2>1, <2>2 DEF TakenTyped
  <2>5. (\A g \in Frames : file[g] # id) /\ (\A j \in Calls : call[j].file # id) /\ file[f] = No /\ id # No
    BY <1>2, <2>1 DEF Fresh, Made
  <2>6. TakenTyped'
    BY <1>1, <2>2 DEF TakenTyped
  <2>7. IdInv'
    <3>1. \A g, h \in Frames : file'[g] # No /\ file'[g] = file'[h] => g = h
      BY <1>6, <2>4, <2>5 DEF Made
    <3>2. \A j \in Calls, g \in Frames : file'[g] # No /\ call'[j].file = file'[g] => call'[j].frame = g
      BY <1>1, <2>3, <2>4, <2>5 DEF IdInv, Made
    <3>3. \A r \in Ids : row[r] # No => \E g \in Frames : file'[g] = row[r].file
      BY <1>1, <1>5, <2>4, <2>5 DEF IdInv
    <3>4. \A j \in Calls : call'[j].at = "MARKING" /\ call'[j].row # No /\ file'[call'[j].frame] = call'[j].file =>
            call'[j].row \in RowsOf(call'[j].file)
      <4> SUFFICES ASSUME NEW j \in Calls, call'[j].at = "MARKING", call'[j].row # No,
                          file'[call'[j].frame] = call'[j].file
                   PROVE  call'[j].row \in RowsOf(call'[j].file)
        OBVIOUS
      <4>1. j # k /\ call'[j] = call[j]
        BY <2>3
      <4>2. call[j].frame \in Frames
        BY <1>4, <4>1 DEF Taking
      <4>3. call[j].frame # f
        BY <2>4, <2>5, <4>1
      <4> QED BY <1>1, <2>4, <4>1, <4>2, <4>3 DEF IdInv, Stands
    <3> QED BY <2>2, <3>1, <3>2, <3>3, <3>4 DEF IdInv, Made, Stands, RowsOf
  <2>8. ASSUME NEW g \in Frames PROVE Recorded(g)'
    <3>1. CASE g = f
      BY <2>3, <2>4, <3>1 DEF Recorded, Creators
    <3>2. CASE g # f
      <4>1. k \notin Creators(file[g])
        BY <2>1 DEF Creators
      <4>2. \A j \in Creators(file[g]) : call'[j].creator /\ call'[j].file = file[g]
        BY <2>3, <4>1 DEF Creators
      <4> QED BY <2>2, <2>4, <3>2, <4>2, RecordedStands DEF RowsOf
    <3> QED BY <3>1, <3>2
  <2> QED BY <1>3, <2>6, <2>7, <2>8
\* The rows alone, and calls that keep to their file and frame, or end.
<1>22. ASSUME row' \in [Ids -> Row \cup {No}], file' = file,
              \A k \in Calls : \/ call'[k] = call[k] \/ call'[k] = NoCall
                               \/ /\ call'[k].at = "MARKED" /\ call'[k].file = call[k].file
                                  /\ call'[k].frame = call[k].frame,
              \A r \in Ids : row[r] # No => row'[r] # No /\ row'[r].file = row[r].file,
              \A r \in Ids : row[r] = No /\ row'[r] # No => \E f \in Frames : file[f] = row'[r].file
       PROVE  IdInv'
  <2>1. NoCall.file = No /\ NoCall.at # "MARKING"
    BY DEF NoCall
  <2>2. \A k \in Calls, f \in Frames : Made(f) /\ call'[k].file = file[f] => call'[k].frame = f
    BY <1>1, <1>22, <2>1 DEF IdInv, Made
  <2>3. \A k \in Calls : call'[k].at = "MARKING" => call'[k] = call[k]
    BY <1>22, <2>1
  <2>4. \A k \in Calls : call[k].at = "MARKING" /\ call[k].row # No /\ file[call[k].frame] = call[k].file =>
          /\ call[k].row \in Ids /\ row'[call[k].row] # No
          /\ row'[call[k].row].file = call[k].file
    BY <1>1, <1>22 DEF IdInv, Stands, RowsOf
  <2>5. \A r \in Ids : row'[r] # No => \E f \in Frames : file[f] = row'[r].file
    BY <1>1, <1>22 DEF IdInv
  <2>6. \A f, g \in Frames : Made(f) /\ file[f] = file[g] => f = g
    BY <1>1 DEF IdInv
  <2> QED BY <1>22, <2>2, <2>3, <2>4, <2>5, <2>6 DEF IdInv, Made, Stands, RowsOf
\* A row is added to the file of a request's frame.
<1>23. ASSUME NEW k \in Calls, NEW r \in Ids, NEW marked \in BOOLEAN,
              call[k].at \in Taking \ {"NEW"}, Stands(k), NewRow(r, call[k].file, marked)
       PROVE  /\ row' \in [Ids -> Row \cup {No}] /\ row[r] = No
              /\ row'[r] # No /\ row'[r].file = call[k].file /\ ~row'[r].sourced
              /\ \A q \in Ids : q # r => row'[q] = row[q]
  <2>1. [file |-> call[k].file, sourced |-> FALSE, marked |-> marked] \in Row
    BY <1>4, <1>23 DEF Row
  <2> QED BY <1>1, <1>2, <1>23, <2>1 DEF NewRow, TakenTyped
<1>24. ASSUME NEW k \in Calls, CreateTraces(k)
       PROVE  TakenTyped' /\ IdInv' /\ SourceIsRecorded'
  <2>0. PICK f \in Frames, id \in Ids : f = call[k].frame /\ id = call[k].file
    BY <1>4, <1>24 DEF CreateTraces, Taking
  <2>1. /\ call[k].at = "MARKING" /\ Stands(k) /\ id # No /\ file[f] = id /\ Made(f)
        /\ file' = file
    BY <1>4, <1>24, <2>0 DEF CreateTraces, Taking, Stands, Made
  <2>2. /\ halfway' = halfway
        /\ call'[k] = NoCall \/ (call'[k].at = "MARKED" /\ call'[k].file = id /\ call'[k].frame = f)
        /\ call[k].creator => call'[k].creator /\ call'[k].file = id
        /\ \A j \in Calls : j # k => call'[j] = call[j]
    <3>1. CASE call[k].creator
      <4>1. halfway' = halfway /\ call' = [call EXCEPT ![k] = [@ EXCEPT !.at = "MARKED"]]
        BY <1>1, <1>24, <3>1 DEF CreateTraces, Step, Call
      <4> QED BY <1>1, <2>0, <3>1, <4>1 DEF Call
    <3>2. CASE ~call[k].creator
      <4>1. halfway' = halfway /\ call' = [call EXCEPT ![k] = NoCall]
        BY <1>24, <3>2 DEF CreateTraces, EndExtract, End
      <4> QED BY <1>1, <3>2, <4>1
    <3> QED BY <3>1, <3>2
  <2>3. \A g \in Frames : \A j \in Creators(file[g]) : call'[j].creator /\ call'[j].file = file[g]
    BY <2>0, <2>2 DEF Creators
  <2>4. /\ row' \in [Ids -> Row \cup {No}] /\ late' \subseteq Frames
        /\ \A r \in Ids : row[r] # No => /\ row'[r] # No /\ row'[r].file = row[r].file
                                       /\ row'[r].sourced = row[r].sourced
        /\ \A r \in Ids : row[r] = No /\ row'[r] # No => row'[r].file = id
        /\ \A g \in Frames : g \in late => g \in late'
        /\ (\A r \in Ids : row[r] = No => row'[r] = No) \/ f \in late' \/ \A r \in RowsOf(id) : ~row[r].sourced
    <3>1. CASE call[k].row = No
      <4>1. PICK r \in Ids : NewRow(r, id, TRUE)
        BY <1>24, <2>0, <3>1 DEF CreateTraces
      <4>2. /\ row' \in [Ids -> Row \cup {No}] /\ row[r] = No
            /\ row'[r] # No /\ row'[r].file = id
            /\ \A q \in Ids : q # r => row'[q] = row[q]
        BY <1>23, <2>0, <2>1, <4>1 DEF Taking
      <4>3. late' = IF \E q \in RowsOf(id) : row[q].sourced THEN late \cup {f} ELSE late
        BY <1>24, <2>0, <3>1 DEF CreateTraces
      <4>4. late' \subseteq Frames /\ \A g \in Frames : g \in late => g \in late'
        BY <1>1, <4>3 DEF TakenTyped
      <4>5. f \in late' \/ \A q \in RowsOf(id) : ~row[q].sourced
        BY <4>3
      <4> QED BY <4>2, <4>4, <4>5
    <3>2. CASE call[k].row # No
      <4> DEFINE r == call[k].row
      <4>1. r \in RowsOf(id) /\ row' = [row EXCEPT ![r].marked = TRUE] /\ late' = late
        BY <1>1, <1>24, <2>0, <2>1, <3>2 DEF CreateTraces, IdInv
      <4>2. r \in Ids /\ row[r] # No /\ row[r] \in Row
        BY <1>5, <4>1 DEF RowsOf
      <4> HIDE DEF r
      <4>3. PICK q : q = [row[r] EXCEPT !.marked = TRUE]
        OBVIOUS
      <4>6. q \in Row /\ q.file = row[r].file /\ q.sourced = row[r].sourced
        BY <4>2, <4>3 DEF Row
      <4>4. row' = [row EXCEPT ![r] = q]
        BY <1>1, <4>1, <4>2, <4>3 DEF TakenTyped, Row
      <4>5. /\ row' \in [Ids -> Row \cup {No}] /\ row'[r] = q /\ q # No
            /\ \A p \in Ids : p # r => row'[p] = row[p]
        BY <1>1, <1>2, <4>2, <4>4, <4>6 DEF TakenTyped
      <4> QED BY <1>1, <4>1, <4>2, <4>5, <4>6 DEF TakenTyped
    <3> QED BY <3>1, <3>2
  <2>5. TakenTyped'
    BY <1>1, <2>1, <2>2, <2>4 DEF TakenTyped
  <2>6. IdInv'
    BY <1>22, <2>0, <2>1, <2>2, <2>4
  <2>7. ASSUME NEW g \in Frames, g # f PROVE Recorded(g)'
    <3>1. CASE ~Made(g)
      BY <2>1, <3>1 DEF Recorded, Made
    <3>2. CASE Made(g)
      <4>1. file[g] # id
        BY <1>6, <2>1, <2>7, <3>2
      <4>2. \A r \in Ids : row'[r] # No /\ row'[r].file = file[g] => r \in RowsOf(file[g])
        BY <2>4, <4>1 DEF RowsOf
      <4>3. \A r \in RowsOf(file[g]) : row'[r] # No /\ row'[r].file = file[g] /\ row'[r].sourced = row[r].sourced
        BY <2>4 DEF RowsOf
      <4> QED BY <2>1, <2>2, <2>3, <2>4, <4>2, <4>3, RecordedStands
    <3> QED BY <3>1, <3>2
  <2>8. Recorded(f)'
    <3>1. CASE \A r \in Ids : row[r] = No => row'[r] = No
      <4>1. \A r \in Ids : row'[r] # No /\ row'[r].file = file[f] => r \in RowsOf(file[f])
        BY <2>4, <3>1 DEF RowsOf
      <4>2. \A r \in RowsOf(file[f]) : row'[r] # No /\ row'[r].file = file[f] /\ row'[r].sourced = row[r].sourced
        BY <2>4 DEF RowsOf
      <4> QED BY <2>1, <2>2, <2>3, <2>4, <4>1, <4>2, RecordedStands
    <3>2. CASE f \in late' \/ \A r \in RowsOf(id) : ~row[r].sourced
      <4>1. Recorded(f)
        BY <2>1 DEF IInv, SourceIsRecorded, Recorded
      <4>2. (\A j \in Calls : ~(call'[j].creator /\ call'[j].file = id)) => Creators(id) = {}
        BY <2>1, <2>3 DEF Creators
      <4>3. \A r \in RowsOf(id) : r \in Ids /\ row'[r] # No /\ row'[r].file = id
        BY <2>4 DEF RowsOf
      <4>4. ASSUME Creators(id) = {}, f \notin halfway
            PROVE  f \in late' /\ \E r \in Ids : row'[r] # No /\ row'[r].file = id
        BY <2>1, <2>4, <3>2, <4>1, <4>3, <4>4 DEF Recorded
      <4>5. file'[f] = id
        BY <2>1
      <4> QED BY <2>2, <4>2, <4>4, <4>5 DEF Recorded, Creators, RowsOf
    <3> QED BY <2>4, <3>1, <3>2
  <2> QED BY <1>3, <2>5, <2>6, <2>7, <2>8
<1>25. ASSUME NEW k \in Calls, CreateCaseEvidenceForFile(k)
       PROVE  TakenTyped' /\ IdInv' /\ SourceIsRecorded'
  <2> DEFINE f  == call[k].frame
             id == call[k].file
  <2>1. /\ call[k].at = "FILED" /\ Stands(k) /\ call[k].creator
        /\ f \in Frames /\ id \in Ids /\ id # No /\ file[f] = id /\ Made(f)
        /\ file' = file /\ halfway' = halfway /\ late' = late
    BY <1>1, <1>4, <1>25 DEF CreateCaseEvidenceForFile, CallInv, Calling, Taking, Stands, Made
  <2>2. PICK r \in Ids : NewRow(r, id, FALSE)
    BY <1>25 DEF CreateCaseEvidenceForFile
  <2>3. /\ row' \in [Ids -> Row \cup {No}] /\ row[r] = No
        /\ row'[r] # No /\ row'[r].file = id
        /\ \A q \in Ids : q # r => row'[q] = row[q]
    BY <1>23, <2>1, <2>2 DEF Taking
  <2>4. call' = [call EXCEPT ![k] = [@ EXCEPT !.at = "MARKED"]]
    BY <1>1, <1>25 DEF CreateCaseEvidenceForFile, Step, Call
  <2>5. /\ call'[k].at = "MARKED" /\ call'[k].file = id /\ call'[k].frame = f /\ call'[k].creator
        /\ \A j \in Calls : j # k => call'[j] = call[j]
    BY <1>1, <2>1, <2>4 DEF Call
  <2>6. TakenTyped'
    BY <1>1, <2>1, <2>3 DEF TakenTyped
  <2>7. IdInv'
    BY <1>22, <2>1, <2>3, <2>5
  <2>8. ASSUME NEW g \in Frames PROVE Recorded(g)'
    <3>1. CASE ~Made(g)
      BY <2>1, <3>1 DEF Recorded, Made
    <3>2. CASE g = f
      BY <2>1, <2>5, <3>2 DEF Recorded, Creators
    <3>3. CASE Made(g) /\ g # f
      <4>1. file[g] # id
        BY <1>6, <2>1, <3>3
      <4>2. \A q \in Ids : row'[q] # No /\ row'[q].file = file[g] => q \in RowsOf(file[g])
        BY <2>3, <4>1 DEF RowsOf
      <4>3. \A q \in RowsOf(file[g]) : row'[q] # No /\ row'[q].file = file[g] /\ row'[q].sourced = row[q].sourced
        BY <2>3 DEF RowsOf
      <4>4. \A j \in Creators(file[g]) : call'[j].creator /\ call'[j].file = file[g]
        BY <2>5, <4>1 DEF Creators
      <4> QED BY <2>1, <4>2, <4>3, <4>4, RecordedStands
    <3> QED BY <3>1, <3>2, <3>3
  <2> QED BY <1>3, <2>6, <2>7, <2>8
<1>26. ASSUME NEW k \in Calls, SetEvidenceVideoSource(k)
       PROVE  TakenTyped' /\ IdInv' /\ SourceIsRecorded'
  <2>1. call[k].at = "MARKED" /\ call[k].creator /\ RowsOf(call[k].file) # {}
    BY <1>1, <1>26 DEF SetEvidenceVideoSource, CallInv, Calling
  <2>2. PICK f \in Frames, id \in Ids : f = call[k].frame /\ id = call[k].file /\ file[f] = id /\ id # No
    <3>1. PICK r \in RowsOf(call[k].file), g \in Frames : file[g] = row[r].file
      BY <1>1, <2>1 DEF IdInv, RowsOf
    <3>2. file[g] = call[k].file /\ call[k].file # No /\ call[k].file \in Ids
      BY <1>5, <3>1 DEF RowsOf
    <3>3. call[k].frame = g
      BY <1>1, <3>2 DEF IdInv, Made
    <3> QED BY <3>2, <3>3
  <2>3. /\ file' = file /\ late' = late /\ halfway' = halfway
        /\ row' = [r \in Ids |-> IF r \in RowsOf(id) THEN [row[r] EXCEPT !.sourced = TRUE] ELSE row[r]]
        /\ call'[k] = NoCall /\ \A j \in Calls : j # k => call'[j] = call[j]
    BY <1>1, <1>26, <2>2 DEF SetEvidenceVideoSource, EndExtract, End
  <2>4. ASSUME NEW r \in RowsOf(id)
        PROVE  /\ r \in Ids /\ row'[r] \in Row /\ row'[r] # No
               /\ row'[r].file = row[r].file /\ row'[r].sourced
    <3>1. r \in Ids /\ row[r] \in Row
      BY <1>5, <2>4 DEF RowsOf
    <3>2. PICK q : q = [row[r] EXCEPT !.sourced = TRUE]
      OBVIOUS
    <3>3. q \in Row /\ q.file = row[r].file /\ q.sourced
      BY <3>1, <3>2 DEF Row
    <3> QED BY <1>2, <2>3, <2>4, <3>1, <3>2, <3>3
  <2>5. \A r \in Ids : r \notin RowsOf(id) => row'[r] = row[r]
    BY <2>3
  <2>6. row' \in [Ids -> Row \cup {No}]
    <3>1. \A r \in Ids : row'[r] \in Row \cup {No}
      BY <1>1, <2>4, <2>5 DEF TakenTyped
    <3> QED BY <2>3, <3>1
  <2>7. TakenTyped'
    BY <1>1, <2>3, <2>6 DEF TakenTyped
  <2>8. \A r \in Ids : row[r] # No => row'[r] # No /\ row'[r].file = row[r].file
    BY <2>4, <2>5
  <2>9. \A r \in Ids : row'[r] # No => row[r] # No
    BY <2>5 DEF RowsOf
  <2>10. IdInv'
    BY <1>22, <2>3, <2>6, <2>8, <2>9
  <2>11. ASSUME NEW g \in Frames PROVE Recorded(g)'
    <3>1. CASE ~Made(g)
      BY <2>3, <3>1 DEF Recorded, Made
    <3>2. CASE g = f
      <4>1. RowsOf(id) # {}
        BY <2>1, <2>2
      <4>2. \A r \in Ids : row'[r] # No /\ row'[r].file = id => r \in RowsOf(id)
        BY <2>8, <2>9 DEF RowsOf
      <4>3. \A r \in RowsOf(id) : r \in Ids /\ row'[r] # No /\ row'[r].file = id /\ row'[r].sourced
        BY <2>4 DEF RowsOf
      <4>4. file'[g] = id
        BY <2>2, <2>3, <3>2
      <4> QED BY <4>1, <4>2, <4>3, <4>4 DEF Recorded, RowsOf
    <3>3. CASE Made(g) /\ g # f
      <4>1. file[g] # id
        BY <1>6, <2>2, <3>3
      <4>2. \A r \in RowsOf(file[g]) : row'[r] = row[r] /\ row[r] # No /\ row[r].file = file[g]
        BY <2>5, <4>1 DEF RowsOf
      <4>3. \A r \in Ids : row'[r] # No /\ row'[r].file = file[g] => r \in RowsOf(file[g])
        BY <2>8, <2>9 DEF RowsOf
      <4>4. \A j \in Creators(file[g]) : call'[j].creator /\ call'[j].file = file[g]
        BY <2>2, <2>3, <4>1 DEF Creators
      <4> QED BY <2>3, <4>2, <4>3, <4>4, RecordedStands
    <3> QED BY <3>1, <3>2, <3>3
  <2> QED BY <1>3, <2>7, <2>10, <2>11
<1>27. ASSUME NEW r \in Ids, DeleteTraces(r)
       PROVE  TakenTyped' /\ IdInv' /\ SourceIsRecorded'
  <2>1. row[r] \in Row /\ row' = [row EXCEPT ![r].marked = FALSE]
        /\ file' = file /\ late' = late /\ halfway' = halfway /\ call' = call
    BY <1>5, <1>27 DEF DeleteTraces
  <2>2. PICK q : q = [row[r] EXCEPT !.marked = FALSE]
    OBVIOUS
  <2>3. q \in Row /\ q.file = row[r].file /\ q.sourced = row[r].sourced
    BY <2>1, <2>2 DEF Row
  <2>4. row' = [row EXCEPT ![r] = q]
    BY <1>1, <2>1, <2>2 DEF TakenTyped
  <2>5. /\ row' \in [Ids -> Row \cup {No}]
        /\ \A p \in Ids : row'[p] # No <=> row[p] # No
        /\ \A p \in Ids : row[p] # No => row'[p].file = row[p].file /\ row'[p].sourced = row[p].sourced
    BY <1>1, <1>2, <1>27, <2>3, <2>4 DEF TakenTyped, DeleteTraces
  <2>6. TakenTyped'
    BY <1>1, <2>1, <2>5 DEF TakenTyped
  <2>7. IdInv'
    BY <1>22, <2>1, <2>5
  <2>8. ASSUME NEW g \in Frames PROVE Recorded(g)'
    <3>1. \A p \in RowsOf(file[g]) : row'[p] # No /\ row'[p].file = file[g] /\ row'[p].sourced = row[p].sourced
      BY <2>5 DEF RowsOf
    <3>2. \A p \in Ids : row'[p] # No /\ row'[p].file = file[g] => p \in RowsOf(file[g])
      BY <2>5 DEF RowsOf
    <3>3. \A j \in Creators(file[g]) : call'[j].creator /\ call'[j].file = file[g]
      BY <2>1 DEF Creators
    <3> QED BY <2>1, <3>1, <3>2, <3>3, RecordedStands
  <2> QED BY <1>3, <2>6, <2>7, <2>8
<1>28. ASSUME NEW f \in Frames, DeleteEvidence(f)
       PROVE  TakenTyped' /\ IdInv' /\ SourceIsRecorded'
  <2>1. /\ Made(f) /\ file' = [file EXCEPT ![f] = No] /\ call' = call
        /\ row' = [r \in Ids |-> IF r \in RowsOf(file[f]) THEN No ELSE row[r]]
        /\ halfway' = halfway \ {f} /\ late' = late \ {f}
    BY <1>28 DEF DeleteEvidence
  <2>2. file'[f] = No /\ \A g \in Frames : g # f => file'[g] = file[g]
    BY <1>1, <2>1 DEF TakenTyped
  <2>3. \A r \in Ids : row'[r] # No => row'[r] = row[r] /\ row[r].file # file[f]
    BY <2>1 DEF RowsOf
  <2>4. \A r \in Ids : row[r] # No /\ row[r].file # file[f] => row'[r] = row[r]
    BY <2>1 DEF RowsOf
  <2>5. TakenTyped'
    BY <1>1, <2>1 DEF TakenTyped
  <2>6. IdInv'
    <3>1. \A g, h \in Frames : file'[g] # No /\ file'[g] = file'[h] => g = h
      BY <1>6, <2>2 DEF Made
    <3>2. \A j \in Calls, g \in Frames : file'[g] # No /\ call[j].file = file'[g] => call[j].frame = g
      BY <1>1, <2>2 DEF IdInv, Made
    <3>3. \A r \in Ids : row'[r] # No => \E g \in Frames : file'[g] = row'[r].file
      BY <1>1, <2>2, <2>3 DEF IdInv
    <3>4. ASSUME NEW j \in Calls, call[j].at = "MARKING", call[j].row # No, file'[call[j].frame] = call[j].file
          PROVE  row'[call[j].row] # No /\ row'[call[j].row].file = call[j].file /\ call[j].row \in Ids
      <4>1. call[j].frame \in Frames /\ call[j].file # No
        BY <1>4, <3>4 DEF Taking
      <4>2. call[j].frame # f /\ file[call[j].frame] = call[j].file
        BY <2>2, <3>4, <4>1
      <4>3. call[j].row \in RowsOf(call[j].file) /\ call[j].file # file[f]
        BY <1>1, <1>6, <2>1, <3>4, <4>1, <4>2 DEF IdInv, Stands
      <4> QED BY <2>4, <4>3 DEF RowsOf
    <3> QED BY <2>1, <3>1, <3>2, <3>3, <3>4 DEF IdInv, Made, Stands, RowsOf
  <2>7. ASSUME NEW g \in Frames PROVE Recorded(g)'
    <3>1. CASE ~Made(g) \/ g = f
      BY <2>2, <3>1 DEF Recorded, Made
    <3>2. CASE Made(g) /\ g # f
      <4>1. file[g] # file[f] /\ file'[g] = file[g]
        BY <1>6, <2>2, <3>2
      <4>2. \A r \in RowsOf(file[g]) : row'[r] = row[r] /\ row[r] # No /\ row[r].file = file[g]
        BY <2>4, <4>1 DEF RowsOf
      <4>3. \A r \in Ids : row'[r] # No /\ row'[r].file = file[g] => r \in RowsOf(file[g])
        BY <2>3 DEF RowsOf
      <4>4. \A j \in Creators(file[g]) : call'[j].creator /\ call'[j].file = file[g]
        BY <2>1 DEF Creators
      <4> QED BY <2>1, <3>2, <4>1, <4>2, <4>3, <4>4, RecordedStands
    <3> QED BY <3>1, <3>2
  <2> QED BY <1>3, <2>5, <2>6, <2>7
<1> QED BY <1>11, <1>14, <1>15, <1>16, <1>17, <1>19, <1>20, <1>21, <1>24, <1>25, <1>26, <1>27, <1>28 DEF Next

-----------------------------------------------------------------------------
(* The theorems.                                                           *)

LEMMA IInvStep == IInv /\ [Next]_vars => IInv'
<1> SUFFICES ASSUME IInv, [Next]_vars PROVE IInv'
  OBVIOUS
<1>1. call' \in [Calls -> Call] /\ CallInv'
  BY CallStep
<1>2. QueueTyped' /\ BusyIsBeingProcessed'
  BY QueueStep
<1>3. CopyTyped' /\ CopyInv'
  BY CopyStep
<1>4. TakenTyped' /\ IdInv' /\ SourceIsRecorded'
  BY TakenStep
<1>5. TypeOK'
  BY <1>1, <1>2, <1>3, <1>4 DEF TypeOK, Call, QueueTyped, Statuses, CopyTyped, TakenTyped
<1> QED BY <1>1, <1>2, <1>3, <1>4, <1>5 DEF IInv

LEMMA Invariant == Spec => []IInv
<1> QED BY IInvInit, IInvStep, PTL DEF Spec

\* Every variable keeps its type, references never go below zero among them.
THEOREM TypeCorrect == Spec => []TypeOK
<1>1. IInv => TypeOK
  BY DEF IInv
<1> QED BY <1>1, Invariant, PTL

\* A video that Reprocess refuses as busy (video.go:55) has a task or a request to settle it, or lost
\* an enqueue or a failure, for any number of requests, tasks and tries.
THEOREM BusyAlways == Spec => []BusyIsBeingProcessed
<1>1. IInv => BusyIsBeingProcessed
  BY DEF IInv
<1> QED BY <1>1, Invariant, PTL

\* A copy is there while requests use it (frames.go:122) and counts them, for any number of them.
THEOREM CopiesAlways == Spec => []CopiesAreCounted
<1>1. IInv => CopiesAreCounted
  BY DEF IInv, CopyInv, CopiesAreCounted
<1> QED BY <1>1, Invariant, PTL

\* Every row of a frame's file records its source (video.go:5) once its Extract is over, with the
\* exceptions the property names, for any frames and any requests for them.
THEOREM SourceAlways == Spec => []SourceIsRecorded
<1>1. IInv => SourceIsRecorded
  BY DEF IInv
<1> QED BY <1>1, Invariant, PTL
=============================================================================
