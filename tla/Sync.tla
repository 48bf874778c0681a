--------------------------------- MODULE Sync ---------------------------------
(***************************************************************************)
(* Keeping the clusters up with what arrives: the sync tasks of one        *)
(* modality (embedding.HandleSyncFace; fingerprint.HandleSync is the same) *)
(* between the examiners' submits, the embeddings the worker computes, the *)
(* task queue and the lock that lets one sync run at a time.               *)
(*                                                                         *)
(* A pass matches the backlog and runs the clustering (Matching, Clusters) *)
(* in one step each: what arrives between their reads and writes is as if  *)
(* it arrived after them.  The queue is asynq: its unique lock on a task   *)
(* type (key) makes it reject a duplicate while one is queued or running,  *)
(* until the lock's time runs out (cluster/settle.go).                     *)
(***************************************************************************)
EXTENDS Naturals, FiniteSetsExt

CONSTANTS
  MaxDecisions, \* bound on human decisions, whose ids are 1..MaxDecisions
  Embeddings,   \* face embeddings, or fingerprint templates, that arrive
  Stuck,        \* those of them that never leave the unmatched backlog
  Tasks,        \* bound on tasks queued or running at once
  NoTask,       \* no task
  MaxPasses,    \* cluster.MaxSettlePasses
  MaxFails      \* bound on tasks that fail and are retried

Decisions == 1..MaxDecisions

ASSUME SyncConstantsOK ==
  /\ MaxDecisions \in Nat /\ MaxFails \in Nat
  /\ MaxPasses \in Nat \ {0}
  /\ Stuck \subseteq Embeddings /\ Embeddings \cap Decisions = {}
  /\ NoTask \notin Tasks

VARIABLES
  inserted,  \* how many decisions took their id, in order
  committed, \* decisions whose transaction committed, in any order
  unmatched, \* the backlog: embeddings not matched yet
  arrived,   \* embeddings computed
  announce,  \* arrivals whose sync is yet to be enqueued
  pc,        \* where each task is
  key,       \* the task that holds asynq's unique lock
  lock,      \* the task that holds LockFaceSync
  before,    \* that task's newest decision before the pass
  same,      \* no newer one was there after it
  pass,      \* which pass it is at
  clustered, \* decisions the clusters were built from
  atLock,    \* decisions committed when the lock was taken
  fails      \* how many tasks failed

arrivals == <<inserted, committed, arrived>>
settling == <<before, same, pass, clustered, atLock>>
syncVars     == <<arrivals, unmatched, announce, pc, key, lock, settling, fails>>

SyncPoints == {"NONE", "QUEUED", "DELAYED", "TRY", "SKIP", "MARK", "MATCH", "CLUSTER",
               "DECISIONS", "BACKLOG", "UNLOCK", "FINISH"}

SyncTypeOK ==
  /\ inserted \in 0..MaxDecisions
  /\ committed \subseteq 1..inserted
  /\ unmatched \subseteq arrived /\ arrived \subseteq Embeddings
  /\ announce \subseteq committed \cup arrived
  /\ pc \in [Tasks -> SyncPoints]
  /\ key \in Tasks \cup {NoTask} /\ lock \in Tasks \cup {NoTask}
  /\ before \in 0..MaxDecisions /\ same \in BOOLEAN /\ pass \in 1..MaxPasses
  /\ clustered \subseteq committed /\ atLock \subseteq committed
  /\ fails \in 0..MaxFails

LatestHumanDecisionID == Max(committed \cup {0})

-----------------------------------------------------------------------------
SyncInit ==
  /\ inserted = 0 /\ committed = {} /\ unmatched = {} /\ arrived = {} /\ announce = {}
  /\ pc = [t \in Tasks |-> "NONE"] /\ key = NoTask /\ lock = NoTask
  /\ before = 0 /\ same = FALSE /\ pass = 1 /\ clustered = {} /\ atLock = {}
  /\ fails = 0

\* Submits of different cases run at once: ids are taken at the insert, in order, and the
\* transactions commit in any.
Insert ==
  /\ inserted < MaxDecisions
  /\ inserted' = inserted + 1
  /\ UNCHANGED <<committed, arrived, unmatched, announce, pc, key, lock, settling, fails>>

Commit(d) ==
  /\ d \in 1..inserted /\ d \notin committed
  /\ committed' = committed \cup {d}
  /\ announce' = announce \cup {d}
  /\ UNCHANGED <<inserted, arrived, unmatched, pc, key, lock, settling, fails>>

\* The worker stores a face's embedding, unmatched.
Embed(e) ==
  /\ e \notin arrived
  /\ arrived' = arrived \cup {e} /\ unmatched' = unmatched \cup {e}
  /\ announce' = announce \cup {e}
  /\ UNCHANGED <<inserted, committed, pc, key, lock, settling, fails>>

\* Enqueue with asynq.Unique: rejected while another task of the type holds the key.
Enqueue(at, others) ==
  \/ key # NoTask /\ pc' = others /\ UNCHANGED key
  \/ /\ key = NoTask
     /\ \E t \in Tasks :
          /\ pc[t] = "NONE"
          /\ pc' = [others EXCEPT ![t] = at]
          /\ key' = t

\* Whoever made it arrive enqueues a sync; a duplicate is dropped without a word.
Announce(x) ==
  /\ x \in announce
  /\ Enqueue("QUEUED", pc)
  /\ announce' = announce \ {x}
  /\ UNCHANGED <<arrivals, unmatched, lock, settling, fails>>

\* The queue cannot be reached, or the process dies first.
AnnounceLost(x) ==
  /\ x \in announce
  /\ announce' = announce \ {x}
  /\ UNCHANGED <<arrivals, unmatched, pc, key, lock, settling, fails>>

-----------------------------------------------------------------------------
(* The queue.                                                              *)

\* A delayed task falls due.
Due(t) ==
  /\ pc[t] = "DELAYED"
  /\ pc' = [pc EXCEPT ![t] = "QUEUED"]
  /\ UNCHANGED <<arrivals, unmatched, announce, key, lock, settling, fails>>

\* A worker takes a queued task.
Start(t) ==
  /\ pc[t] = "QUEUED"
  /\ pc' = [pc EXCEPT ![t] = "TRY"]
  /\ UNCHANGED <<arrivals, unmatched, announce, key, lock, settling, fails>>

\* The handler has returned: the task is done, and its key released if it still is its own.
Finish(t) ==
  /\ pc[t] = "FINISH"
  /\ pc' = [pc EXCEPT ![t] = "NONE"]
  /\ key' = IF key = t THEN NoTask ELSE key
  /\ UNCHANGED <<arrivals, unmatched, announce, lock, settling, fails>>

\* The key's time runs out: the debounce after the enqueue, or after the task falls due.
Expire ==
  /\ key # NoTask /\ pc[key] # "DELAYED"
  /\ key' = NoTask
  /\ UNCHANGED <<arrivals, unmatched, announce, pc, lock, settling, fails>>

\* The handler fails, or its worker dies: the lock goes with its connection, and the task is
\* queued again.
Fail(t) ==
  /\ fails < MaxFails
  /\ pc[t] \in SyncPoints \ {"NONE", "QUEUED", "DELAYED", "FINISH"}
  /\ pc' = [pc EXCEPT ![t] = "QUEUED"]
  /\ lock' = IF lock = t THEN NoTask ELSE lock
  /\ fails' = fails + 1
  /\ UNCHANGED <<arrivals, unmatched, announce, key, settling>>

-----------------------------------------------------------------------------
(* HandleSyncFace: TryExclusive, then Settle's passes.                     *)

\* Fault: the lock is taken to be free.
TryLockHeld(t) ==
  /\ pc[t] = "TRY"
  /\ lock' = t /\ pass' = 1 /\ atLock' = committed
  /\ pc' = [pc EXCEPT ![t] = "MARK"]
  /\ UNCHANGED <<arrivals, unmatched, announce, key, before, same, clustered, fails>>

TryLock(t) ==
  /\ pc[t] = "TRY"
  /\ IF lock = NoTask
       THEN /\ lock' = t /\ pass' = 1 /\ atLock' = committed
            /\ pc' = [pc EXCEPT ![t] = "MARK"]
       ELSE /\ pc' = [pc EXCEPT ![t] = "SKIP"]
            /\ UNCHANGED <<lock, pass, atLock>>
  /\ UNCHANGED <<arrivals, unmatched, announce, key, before, same, clustered, fails>>

\* Another sync is running: one more is enqueued, to start a debounce later.
Skip(t) ==
  /\ pc[t] = "SKIP"
  /\ Enqueue("DELAYED", [pc EXCEPT ![t] = "FINISH"])
  /\ UNCHANGED <<arrivals, unmatched, announce, lock, settling, fails>>

Mark(t) ==
  /\ pc[t] = "MARK"
  /\ before' = LatestHumanDecisionID
  /\ pc' = [pc EXCEPT ![t] = "MATCH"]
  /\ UNCHANGED <<arrivals, unmatched, announce, key, lock, same, pass, clustered, atLock, fails>>

\* RunBand: the backlog is matched.
Match(t) ==
  /\ pc[t] = "MATCH"
  /\ unmatched' = unmatched \cap Stuck
  /\ pc' = [pc EXCEPT ![t] = "CLUSTER"]
  /\ UNCHANGED <<arrivals, announce, key, lock, settling, fails>>

\* cluster.Run: the clusters are built from the decisions there are.
Cluster(t) ==
  /\ pc[t] = "CLUSTER"
  /\ clustered' = committed
  /\ pc' = [pc EXCEPT ![t] = "DECISIONS"]
  /\ UNCHANGED <<arrivals, unmatched, announce, key, lock, before, same, pass, atLock, fails>>

\* Fault: the newest decision is compared with the clusters' reading of it, not the pass's start.
CheckDecisionsLate(t) ==
  /\ pc[t] = "DECISIONS"
  /\ same' = TRUE
  /\ pc' = [pc EXCEPT ![t] = "BACKLOG"]
  /\ UNCHANGED <<arrivals, unmatched, announce, key, lock, before, pass, clustered, atLock, fails>>

CheckDecisions(t) ==
  /\ pc[t] = "DECISIONS"
  /\ same' = (LatestHumanDecisionID = before)
  /\ pc' = [pc EXCEPT ![t] = "BACKLOG"]
  /\ UNCHANGED <<arrivals, unmatched, announce, key, lock, before, pass, clustered, atLock, fails>>

\* Fault: passes go on as long as anything is left.
CheckBacklogUnbounded(t) ==
  /\ pc[t] = "BACKLOG"
  /\ IF same /\ unmatched = {}
       THEN pc' = [pc EXCEPT ![t] = "UNLOCK"] /\ UNCHANGED pass
       ELSE pc' = [pc EXCEPT ![t] = "MARK"] /\ UNCHANGED pass
  /\ UNCHANGED <<arrivals, unmatched, announce, key, lock, before, same, clustered, atLock, fails>>

\* Fault: one pass more than the bound.
CheckBacklogOneMore(t) ==
  /\ pc[t] = "BACKLOG"
  /\ IF (same /\ unmatched = {}) \/ pass > MaxPasses
       THEN pc' = [pc EXCEPT ![t] = "UNLOCK"] /\ UNCHANGED pass
       ELSE pc' = [pc EXCEPT ![t] = "MARK"] /\ pass' = pass + 1
  /\ UNCHANGED <<arrivals, unmatched, announce, key, lock, before, same, clustered, atLock, fails>>

CheckBacklog(t) ==
  /\ pc[t] = "BACKLOG"
  /\ IF (same /\ unmatched = {}) \/ pass = MaxPasses
       THEN pc' = [pc EXCEPT ![t] = "UNLOCK"] /\ UNCHANGED pass
       ELSE pc' = [pc EXCEPT ![t] = "MARK"] /\ pass' = pass + 1
  /\ UNCHANGED <<arrivals, unmatched, announce, key, lock, before, same, clustered, atLock, fails>>

Unlock(t) ==
  /\ pc[t] = "UNLOCK"
  /\ lock' = NoTask
  /\ pc' = [pc EXCEPT ![t] = "FINISH"]
  /\ UNCHANGED <<arrivals, unmatched, announce, key, settling, fails>>

Handle(t) ==
  \/ Start(t) \/ TryLock(t) \/ Skip(t)
  \/ Mark(t) \/ Match(t) \/ Cluster(t) \/ CheckDecisions(t) \/ CheckBacklog(t) \/ Unlock(t)
  \/ Finish(t)

SyncNext ==
  \/ Insert
  \/ \E d \in Decisions : Commit(d)
  \/ \E e \in Embeddings : Embed(e)
  \/ \E x \in announce : Announce(x) \/ AnnounceLost(x)
  \/ \E t \in Tasks : Due(t) \/ Fail(t) \/ Handle(t)
  \/ Expire

\* The worker keeps taking tasks and running their handlers, and time passes.
Fairness == \A t \in Tasks : WF_syncVars(Handle(t)) /\ WF_syncVars(Due(t))

SyncSpec == SyncInit /\ [][SyncNext]_syncVars /\ Fairness

-----------------------------------------------------------------------------
(* Properties.                                                             *)

\* A sync that found the lock free leaves the clusters built from every decision there was when
\* it took it, however many passes it needed and whatever other tasks skipped meanwhile.
TakesInWhatItFound ==
  \A t \in Tasks : pc[t] = "UNLOCK" => atLock \subseteq clustered

\* Settle's last look: when it finds no newer decision than before the pass, whatever is
\* committed is in the clusters, except a decision that committed after one with a later id.
NoNewerMeansClustered ==
  [][\A t \in Tasks :
       pc[t] = "DECISIONS" /\ pc'[t] = "BACKLOG" /\ same'
         => \A d \in committed \ clustered : d < before]_syncVars

\* "Settle runs pass until nothing it reads changed while it ran" (settle.go:15): when it finds
\* no newer decision, whatever is committed is in the clusters.
SettleMissesNothing ==
  [][\A t \in Tasks :
       pc[t] = "DECISIONS" /\ pc'[t] = "BACKLOG" /\ same' => committed \subseteq clustered]_syncVars

\* "A sync that finds another running leaves the work to it and schedules one more, a debounce
\* later" (embedding.go:375-377).
SkipSchedulesOneMore ==
  [][\A t \in Tasks :
       pc[t] = "SKIP" /\ pc'[t] = "FINISH"
         => \E u \in Tasks \ {t} : pc'[u] \in {"QUEUED", "DELAYED"}]_syncVars

\* Once nothing more arrives the syncs die down, even with a feature that cannot be matched, and
\* the lock is left free: no sync runs, or reschedules itself, for ever.
Quiesces ==
  [](announce = {} /\ inserted = MaxDecisions /\ committed = Decisions /\ arrived = Embeddings
       => <>(lock = NoTask /\ \A t \in Tasks : pc[t] = "NONE"))
=============================================================================
