------------------------------- MODULE Material -------------------------------
(***************************************************************************)
(* The faces marked on one evidence image of a case: its traces, the       *)
(* codifications of each (the original and the versions an examiner        *)
(* renders), the version chosen for recognition, and the worker's tasks    *)
(* that turn a codification's image into its embedding and, when it is the *)
(* one for recognition, into the face's, the one that is matched.          *)
(*                                                                         *)
(* Everything drawn is numbered as it comes: a mark n makes trace n, whose *)
(* original is codification n and whose picture is n; a rendered version n *)
(* is codification n; an adjusted image is a picture.  An embedding is the *)
(* number of its picture.                                                  *)
(***************************************************************************)
EXTENDS Naturals, FiniteSetsExt

CONSTANTS
  MaxDrawn, \* bound on marks, versions and adjusted images
  Callers,  \* CreateTraces in flight at once
  MaxMarks, \* detections in one call
  MaxTraces, \* bound on the traces there are at once
  MaxBusy,  \* bound on the CreateTraces and the worker's tasks in flight together
  No        \* no row

Drawn == 1..MaxDrawn

ASSUME MaterialConstantsOK ==
  /\ MaxDrawn \in Nat /\ MaxMarks \in Nat \ {0} /\ MaxTraces \in Nat /\ MaxBusy \in Nat
  /\ No \notin [seq : Nat, mark : Nat, chosen : Nat] \cup [of : Nat, seq : Nat, image : Nat]

VARIABLES
  file,     \* the evidence's case_files row is there
  evidence, \* so is its case_evidences row
  trace,    \* trace[t]: case_traces; chosen 0: none is
  cod,      \* cod[c]: case_codifications; image 0: none of its own
  codEmb,   \* codEmb[c]: codification_embeddings, 0 for no row
  face,     \* face[t]: the feature_embeddings row of the trace's feature, 0 for no row
  drawn,    \* how many things were drawn
  call,     \* call[k]: a CreateTraces between its read and its commit
  removing, \* a DeleteEvidence between its count and its delete
  dropping, \* the version of a DeleteCodificationVersion between its check and its commit
  tasks,    \* compute tasks in flight
  crossed   \* traces a task wrote to that the choice, or another task, crossed

marking  == <<file, evidence, call, removing>>
encoding == <<codEmb, face, tasks, crossed, dropping>>
materialVars     == <<marking, encoding, trace, cod, drawn>>

NoCall == [at |-> "NONE", last |-> 0, first |-> FALSE]

Traces    == {t \in Drawn : trace[t] # No}
Cods      == {c \in Drawn : cod[c] # No}
CodsOf(t) == {c \in Cods : cod[c].of = t}
ChosenOf(t) == IF trace[t].chosen = 0 THEN t ELSE trace[t].chosen

\* GetCodificationSource: the codification's own image, else the box of the trace.
Picture(c) == IF cod[c].image # 0 THEN cod[c].image ELSE trace[cod[c].of].mark
ForRecognition(c) == c = ChosenOf(cod[c].of)

TaskOn(t) == {x \in tasks : cod[x.cod].of = t}
HasRoom   == Cardinality(tasks) + Cardinality({k \in Callers : call[k].at = "READ"}) < MaxBusy
Cross(t)  == (tasks \ TaskOn(t)) \cup {[x EXCEPT !.crossed = TRUE] : x \in TaskOn(t)}

MaterialTypeOK ==
  /\ file \in BOOLEAN /\ evidence \in BOOLEAN /\ (evidence => file)
  /\ trace \in [Drawn -> [seq : 1..MaxDrawn, mark : Drawn, chosen : {0} \cup Drawn] \cup {No}]
  /\ cod \in [Drawn -> [of : Drawn, seq : 1..MaxDrawn, image : {0} \cup Drawn] \cup {No}]
  /\ \A c \in Cods : cod[c].of \in Traces
  /\ \A t \in Traces : evidence /\ t \in CodsOf(t) /\ ChosenOf(t) \in CodsOf(t)
  /\ codEmb \in [Drawn -> 0..MaxDrawn] /\ face \in [Drawn -> 0..MaxDrawn] /\ drawn \in 0..MaxDrawn
  /\ call \in [Callers -> [at : {"NONE", "READ"}, last : 0..MaxDrawn, first : BOOLEAN]]
  /\ removing \in [at : {"NONE", "COUNTED"}, seen : SUBSET Drawn] /\ dropping \in 0..MaxDrawn
  /\ tasks \subseteq [cod : Drawn, picture : Drawn, chosen : BOOLEAN, at : {"READ", "STORED"}, crossed : BOOLEAN]
  /\ crossed \subseteq Drawn

MaterialInit ==
  /\ file = TRUE /\ evidence = FALSE
  /\ trace = [t \in Drawn |-> No] /\ cod = [c \in Drawn |-> No]
  /\ codEmb = [c \in Drawn |-> 0] /\ face = [t \in Drawn |-> 0]
  /\ drawn = 0 /\ call = [k \in Callers |-> NoCall]
  /\ removing = [at |-> "NONE", seen |-> {}] /\ dropping = 0 /\ tasks = {} /\ crossed = {}

-----------------------------------------------------------------------------
(* Marking traces.                                                         *)

MaxCaseTraceSequence == Max({trace[t].seq : t \in Traces} \cup {0})

\* CreateTraces finds the evidence's row, or inserts it, and reads the greatest number.
CreateTraces(k) ==
  /\ call[k].at = "NONE" /\ file /\ HasRoom
  /\ call' = [call EXCEPT ![k] = [at |-> "READ", last |-> MaxCaseTraceSequence, first |-> ~evidence]]
  /\ UNCHANGED <<file, evidence, removing, encoding, trace, cod, drawn>>

\* The trace of that number, if there is one.
Numbered(s) == {t \in Traces : trace[t].seq = s}

\* It commits: a trace for each detection, its feature and its original codification; where the
\* number is taken by now (UpsertCaseTrace), the trace that has it takes the new box.
UpsertCaseTraces(k, n) ==
  LET c       == call[k]
      new     == drawn + 1..drawn + n
      seqOf(i) == c.last + i - drawn
  IN  /\ c.at = "READ"
      /\ file /\ evidence = ~c.first \* else a unique or a foreign key refuses it
      /\ drawn + n <= MaxDrawn /\ Cardinality(Traces) + n <= MaxTraces /\ \A i \in new : seqOf(i) <= MaxDrawn
      /\ evidence' = TRUE /\ drawn' = drawn + n
      /\ trace' = [t \in Drawn |->
                     IF t \in new /\ Numbered(seqOf(t)) = {} THEN [seq |-> seqOf(t), mark |-> t, chosen |-> 0]
                     ELSE IF t \in Traces /\ trace[t].seq \in c.last + 1..c.last + n
                       THEN [trace[t] EXCEPT !.mark = trace[t].seq - c.last + drawn]
                     ELSE trace[t]]
      /\ cod' = [t \in Drawn |-> IF t \in new /\ Numbered(seqOf(t)) = {} THEN [of |-> t, seq |-> 1, image |-> 0]
                                 ELSE cod[t]]
      /\ call' = [call EXCEPT ![k] = NoCall]
      /\ UNCHANGED <<file, removing, encoding>>

CreateTracesFails(k) ==
  /\ call[k].at = "READ"
  /\ call' = [call EXCEPT ![k] = NoCall]
  /\ UNCHANGED <<file, evidence, removing, encoding, trace, cod, drawn>>

\* Deletes traces and all that hangs off them; a task on them has nothing left to write to.
Cascade(ts) ==
  /\ trace' = [t \in Drawn |-> IF t \in ts THEN No ELSE trace[t]]
  /\ cod' = [c \in Drawn |-> IF c \in Cods /\ cod[c].of \in ts THEN No ELSE cod[c]]
  /\ codEmb' = [c \in Drawn |-> IF c \in Cods /\ cod[c].of \in ts THEN 0 ELSE codEmb[c]]
  /\ face' = [t \in Drawn |-> IF t \in ts THEN 0 ELSE face[t]]
  /\ crossed' = crossed \ ts
  /\ tasks' = {x \in tasks : cod'[x.cod] # No}
  /\ dropping' = IF dropping # 0 /\ cod'[dropping] = No THEN 0 ELSE dropping

DeleteTrace(t) ==
  /\ t \in Traces
  /\ Cascade({t})
  /\ UNCHANGED <<marking, drawn>>

\* Fault: the traces on the file are not counted.
DeleteEvidenceUncounted ==
  /\ removing.at = "NONE" /\ file
  /\ removing' = [at |-> "COUNTED", seen |-> Traces]
  /\ UNCHANGED <<file, evidence, call, encoding, trace, cod, drawn>>

\* DeleteEvidence counts the traces on the file, and refuses if there are any ...
DeleteEvidence ==
  /\ removing.at = "NONE" /\ file /\ Traces = {}
  /\ removing' = [at |-> "COUNTED", seen |-> Traces]
  /\ UNCHANGED <<file, evidence, call, encoding, trace, cod, drawn>>

\* ... and deletes it, in another statement; the delete cascades.
DeleteCaseFile ==
  /\ removing.at = "COUNTED"
  /\ file' = FALSE /\ evidence' = FALSE
  /\ Cascade(Traces)
  /\ removing' = [at |-> "NONE", seen |-> {}]
  /\ UNCHANGED <<call, drawn>>

-----------------------------------------------------------------------------
(* Versions.                                                               *)

NextCodificationSequence(t) == Max({cod[c].seq : c \in CodsOf(t)}) + 1

CreateCodificationVersion(t) ==
  /\ t \in Traces /\ drawn < MaxDrawn
  /\ drawn' = drawn + 1
  /\ cod' = [cod EXCEPT ![drawn + 1] = [of |-> t, seq |-> NextCodificationSequence(t), image |-> drawn + 1]]
  /\ UNCHANGED <<marking, encoding, trace>>

\* An adjusted image for the original.
SaveCodificationImage(t) ==
  /\ t \in Traces /\ drawn < MaxDrawn
  /\ drawn' = drawn + 1
  /\ cod' = [cod EXCEPT ![t].image = drawn + 1]
  /\ UNCHANGED <<marking, encoding, trace>>

\* Fault: the embedding the version has is left for the worker to copy.
SetRecognitionVersionOnly(c) ==
  /\ c \in Cods
  /\ LET t == cod[c].of
     IN  /\ trace' = [trace EXCEPT ![t].chosen = c]
         /\ tasks' = IF c # ChosenOf(t) THEN Cross(t) ELSE tasks
  /\ UNCHANGED <<marking, cod, codEmb, dropping, drawn, face, crossed>>

\* The version is chosen and its embedding, when it has one, becomes the face's.
SetRecognitionVersion(c) ==
  /\ c \in Cods
  /\ LET t == cod[c].of
     IN  /\ trace' = [trace EXCEPT ![t].chosen = c]
         /\ tasks' = IF c # ChosenOf(t) THEN Cross(t) ELSE tasks
         /\ IF codEmb[c] # 0
              THEN face' = [face EXCEPT ![t] = codEmb[c]] /\ crossed' = crossed \ {t}
              ELSE UNCHANGED <<face, crossed>>
  /\ UNCHANGED <<marking, cod, codEmb, dropping, drawn>>

\* Fault: the original may be deleted.
DeleteCodificationVersionAny(c) ==
  /\ dropping = 0
  /\ c \in Cods /\ trace[cod[c].of].chosen # c
  /\ dropping' = c
  /\ UNCHANGED <<marking, codEmb, face, tasks, crossed, trace, cod, drawn>>

\* A version that is not the one chosen, as the statement's snapshot has it ...
DeleteCodificationVersion(c) ==
  /\ dropping = 0
  /\ c \in Cods /\ cod[c].seq > 1 /\ trace[cod[c].of].chosen # c
  /\ dropping' = c
  /\ UNCHANGED <<marking, codEmb, face, tasks, crossed, trace, cod, drawn>>

\* ... goes, chosen meanwhile or not; the choice falls back to the original (ON DELETE SET NULL).
VersionDeleted ==
  /\ dropping # 0
  /\ LET t == cod[dropping].of
         x == {y \in tasks : y.cod = dropping}
     IN  /\ cod' = [cod EXCEPT ![dropping] = No]
         /\ codEmb' = [codEmb EXCEPT ![dropping] = 0]
         /\ IF trace[t].chosen = dropping
              THEN /\ trace' = [trace EXCEPT ![t].chosen = 0]
                   /\ tasks' = Cross(t) \ {[y EXCEPT !.crossed = TRUE] : y \in x}
                   /\ crossed' = crossed \cup {t}
              ELSE /\ tasks' = tasks \ x
                   /\ UNCHANGED <<trace, crossed>>
  /\ dropping' = 0
  /\ UNCHANGED <<marking, face, drawn>>

-----------------------------------------------------------------------------
(* The worker: a task is queued by each of the above, a retry or a         *)
(* backfill, and may be lost; so it may run at any time, or never.         *)

\* ComputeForCodification reads the source and whether it is the one for recognition.
TaskReads(c) ==
  /\ c \in Cods /\ HasRoom
  /\ LET others == TaskOn(cod[c].of)
     IN  tasks' = Cross(cod[c].of)
                    \cup {[cod |-> c, picture |-> Picture(c), chosen |-> ForRecognition(c), at |-> "READ",
                           crossed |-> others # {}]}
  /\ UNCHANGED <<marking, codEmb, face, crossed, dropping, trace, cod, drawn>>

\* What it ends with: a task that was crossed marks its trace, one that wrote the face clears it.
Ended(x, wroteFace) ==
  LET t == cod[x.cod].of
  IN  crossed' = IF x.crossed THEN crossed \cup {t}
                 ELSE IF wroteFace THEN crossed \ {t} ELSE crossed

\* Fault: whichever version it is becomes the face's.
TaskStoresAny(x) ==
  /\ x \in tasks /\ x.at = "READ"
  /\ codEmb' = [codEmb EXCEPT ![x.cod] = x.picture]
  /\ tasks' = (tasks \ {x}) \cup {[x EXCEPT !.at = "STORED"]}
  /\ UNCHANGED <<marking, face, crossed, dropping, trace, cod, drawn>>

\* With the vector, it stores the codification's embedding ...
TaskStores(x) ==
  /\ x \in tasks /\ x.at = "READ"
  /\ codEmb' = [codEmb EXCEPT ![x.cod] = x.picture]
  /\ IF x.chosen
       THEN tasks' = (tasks \ {x}) \cup {[x EXCEPT !.at = "STORED"]} /\ UNCHANGED crossed
       ELSE tasks' = tasks \ {x} /\ Ended(x, FALSE)
  /\ UNCHANGED <<marking, face, dropping, trace, cod, drawn>>

\* ... and, as it read, the face's.
TaskStoresFace(x) ==
  /\ x \in tasks /\ x.at = "STORED"
  /\ face' = [face EXCEPT ![cod[x.cod].of] = x.picture]
  /\ tasks' = tasks \ {x}
  /\ Ended(x, TRUE)
  /\ UNCHANGED <<marking, codEmb, dropping, trace, cod, drawn>>

\* No face in the image, or an error: between its writes it leaves the face behind.
TaskEnds(x) ==
  /\ x \in tasks
  /\ tasks' = tasks \ {x}
  /\ crossed' = IF x.at = "STORED" THEN crossed \cup {cod[x.cod].of} ELSE crossed
  /\ UNCHANGED <<marking, codEmb, face, dropping, trace, cod, drawn>>

MaterialNext ==
  \/ \E k \in Callers : CreateTraces(k) \/ CreateTracesFails(k) \/ \E n \in 1..MaxMarks : UpsertCaseTraces(k, n)
  \/ \E t \in Drawn : DeleteTrace(t) \/ CreateCodificationVersion(t) \/ SaveCodificationImage(t)
  \/ DeleteEvidence \/ DeleteCaseFile
  \/ \E c \in Drawn : SetRecognitionVersion(c) \/ DeleteCodificationVersion(c) \/ TaskReads(c)
  \/ VersionDeleted
  \/ \E x \in tasks : TaskStores(x) \/ TaskStoresFace(x) \/ TaskEnds(x)

MaterialSpec == MaterialInit /\ [][MaterialNext]_materialVars

-----------------------------------------------------------------------------
(* Properties.                                                             *)

\* "appends new traces after whatever is already there -- it does not replace" them
\* (trace.go:66), and an evidence is not deleted while it has traces (detail.go:152): once
\* committed, a trace keeps its box and goes only by DeleteTrace, but for a CreateTraces or a
\* DeleteEvidence that had read the traces before it was there.
TracesStand ==
  [][\A t \in Traces :
       \/ trace'[t] # No /\ trace'[t].mark = trace[t].mark
       \/ DeleteTrace(t)
       \/ removing.at = "COUNTED" /\ t \notin removing.seen
       \/ \E k \in Callers : call[k].at = "READ" /\ trace[t].seq > call[k].last]_materialVars

\* "the face's embedding in feature_embeddings is a copy of the one of the codification chosen
\* for recognition" (006_features.sql:72): so it is whenever no task is at work on the trace,
\* unless a choice or another task crossed one, or one died between its two writes.
FaceIsOfTheChosen ==
  \A t \in Traces \ crossed :
    TaskOn(t) = {} /\ face[t] # 0 /\ codEmb[ChosenOf(t)] # 0 => face[t] = codEmb[ChosenOf(t)]

\* "it does not replace or deduplicate prior ones" (trace.go:67): no call to CreateTraces changes
\* a trace that is there.
MarksStand ==
  [][\A t \in Traces : trace'[t] # No => trace'[t].mark = trace[t].mark]_materialVars
=============================================================================
