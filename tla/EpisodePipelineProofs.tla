----------------------- MODULE EpisodePipelineProofs -----------------------
(***************************************************************************)
(* The theorems about EpisodePipeline for every value of its constants and *)
(* every set of Events, or every set without the one command that breaks   *)
(* the property.                                                           *)
(***************************************************************************)
EXTENDS EpisodePipeline, TLAPS

-----------------------------------------------------------------------------
(* The queue *)

\* What an insertion does: one free id becomes a waiting job.
LEMMA InsertedFacts ==
  ASSUME JobsTypeOK, Room, NEW k \in Stages, NEW e \in Episodes
  PROVE  /\ FreeId \in JobIds
         /\ jobs[FreeId].state = "free"
         /\ Inserted(k, e) \in [JobIds -> Job]
         /\ Inserted(k, e)[FreeId] = NewJob(k, e)
         /\ \A j \in JobIds : j # FreeId => Inserted(k, e)[j] = jobs[j]
<1>1. FreeId \in JobIds /\ jobs[FreeId].state = "free"
  BY DEF Room, FreeId, InFlight
<1>2. NewJob(k, e) \in Job
  BY DEF NewJob, Job, Contexts
<1> QED
  BY <1>1, <1>2 DEF JobsTypeOK, Inserted

\* An insertion keeps the queue well formed.
LEMMA InsertedOK ==
  ASSUME JobsOK, Room, NEW k \in Stages, NEW e \in Episodes, jobs' = Inserted(k, e)
  PROVE  JobsOK'
<1>1. JobsTypeOK' /\ FreeId \in JobIds /\ jobs'[FreeId] = NewJob(k, e)
      /\ \A j \in JobIds : j # FreeId => jobs'[j] = jobs[j]
  BY InsertedFacts DEF JobsOK, JobsTypeOK
<1>2. \A j \in JobIds : InFlight(j)' => Kind(j)' \in Stages /\ Episode(j)' \in Episodes
  BY <1>1 DEF JobsOK, InFlight, Kind, Episode, NewJob
<1>3. \A j \in JobIds : Running(j)' => jobs'[j].attempt > 0
  BY <1>1 DEF JobsOK, Running, NewJob
<1> QED
  BY <1>1, <1>2, <1>3 DEF JobsOK

\* A job that finishes, or moves with its kind and episode, keeps the queue
\* well formed.
LEMMA MovedOK ==
  ASSUME JobsOK, NEW j \in JobIds, InFlight(j),
         NEW s \in {"waiting", "running"}, NEW n \in Nat, NEW c \in Contexts,
         s = "running" => n > 0,
         jobs' = [jobs EXCEPT ![j] = Moved(j, s, n, c)]
  PROVE  JobsOK'
<1>1. Moved(j, s, n, c) \in Job
  BY DEF Moved, Job, JobsOK, JobsTypeOK
<1>2. JobsTypeOK' /\ jobs'[j] = Moved(j, s, n, c) /\ \A i \in JobIds : i # j => jobs'[i] = jobs[i]
  BY <1>1 DEF JobsOK, JobsTypeOK
<1>3. \A i \in JobIds : InFlight(i)' => Kind(i)' \in Stages /\ Episode(i)' \in Episodes
  BY <1>2 DEF JobsOK, InFlight, Kind, Episode, Moved
<1>4. \A i \in JobIds : Running(i)' => jobs'[i].attempt > 0
  BY <1>2 DEF JobsOK, Running, Moved
<1> QED
  BY <1>2, <1>3, <1>4 DEF JobsOK

LEMMA FinishOK ==
  ASSUME JobsOK, NEW j \in JobIds, Finish(j)
  PROVE  JobsOK'
<1>1. FreeJob \in Job
  BY DEF FreeJob, Job, Contexts
<1>2. JobsTypeOK' /\ jobs'[j] = FreeJob /\ \A i \in JobIds : i # j => jobs'[i] = jobs[i]
  BY <1>1 DEF JobsOK, JobsTypeOK, Finish
<1> QED
  BY <1>2 DEF JobsOK, InFlight, Running, Kind, Episode, FreeJob

\* Every step of the queue on one job keeps it well formed.
LEMMA QueueActionOK ==
  ASSUME PipelineAssumption, JobsOK, NEW j \in JobIds,
         \/ Fetch(j) \/ Die(j) \/ Rescue(j) \/ InterruptBySoftStop(j) \/ DeliverCancel(j)
         \/ RequestCancel(j)
         \/ Running(j) /\ RecordError(j)
         \/ Finish(j)
  PROVE  JobsOK'
<1>1. jobs[j].attempt \in Nat /\ jobs[j].ctx \in Contexts
  BY DEF JobsOK, JobsTypeOK, Job
<1>2. CASE Fetch(j)
  <2>1. /\ InFlight(j) /\ jobs[j].attempt + 1 \in Nat /\ jobs[j].attempt + 1 > 0
        /\ jobs' = [jobs EXCEPT ![j] = Moved(j, "running", jobs[j].attempt + 1, "live")]
    BY <1>1, <1>2 DEF Fetch, Waiting, InFlight
  <2> QED
    BY <2>1, MovedOK DEF Contexts
<1>3. ASSUME Running(j), NEW n \in Nat, Requeue(j, n)
      PROVE  JobsOK'
  BY <1>3, MovedOK DEF Requeue, Running, InFlight, Contexts
<1>4. CASE Running(j) /\ RecordError(j)
  <2>1. jobs[j].attempt > 0 /\ jobs[j].attempt - 1 \in Nat
    BY <1>1, <1>4 DEF JobsOK
  <2> QED
    BY <1>1, <1>3, <1>4, <2>1, FinishOK DEF RecordError
<1>5. CASE Rescue(j)
  BY <1>1, <1>3, <1>5, FinishOK DEF Rescue
<1>6. ASSUME NEW c \in Contexts, Running(j), jobs' = [jobs EXCEPT ![j].ctx = c]
      PROVE  JobsOK'
  BY <1>6 DEF JobsOK, JobsTypeOK, Job, InFlight, Running, Kind, Episode
<1>7. CASE Die(j) \/ InterruptBySoftStop(j) \/ DeliverCancel(j)
  BY <1>6, <1>7 DEF Die, Attended, InterruptBySoftStop, DeliverCancel, Contexts
<1>8. CASE RequestCancel(j)
  <2>1. CASE Running(j)
    <3>1. jobs' = [jobs EXCEPT ![j].cancel = TRUE]
      BY <1>8, <2>1 DEF RequestCancel
    <3>2. /\ jobs' \in [JobIds -> Job]
          /\ \A i \in JobIds : /\ jobs'[i].state = jobs[i].state /\ jobs'[i].kind = jobs[i].kind
                               /\ jobs'[i].subject = jobs[i].subject
                               /\ jobs'[i].attempt = jobs[i].attempt
      BY <3>1 DEF JobsOK, JobsTypeOK, Job
    <3> QED
      BY <3>2 DEF JobsOK, JobsTypeOK, InFlight, Running, Kind, Episode
  <2>2. CASE ~Running(j)
    BY <1>8, <2>2, FinishOK DEF RequestCancel
  <2> QED
    BY <2>1, <2>2
<1> QED
  BY <1>2, <1>4, <1>5, <1>7, <1>8, FinishOK

-----------------------------------------------------------------------------
(* The other variables *)

LEMMA PositionFacts ==
  ASSUME PipelineAssumption
  PROVE  /\ 0 \in Positions
         /\ \A p \in Positions : p \in Nat
         /\ Silence \in Parts
         /\ \A e \in Episodes, n \in 0..MaxTurns : n > 0 =>
              /\ Wanted(e, n) \subseteq Positions
              /\ 0 \in Wanted(e, n)
              /\ \A p \in Wanted(e, n) : \A q \in Positions : q < p => q \in Wanted(e, n)
BY DEF PipelineAssumption, Positions, Silence, Parts, Wanted

LEMMA ReachedType ==
  ASSUME NEW pc \in {"idle", "mark"} \cup StageSteps \cup Returned,
         NEW ver \in 0..MaxScripts, NEW todo \in SUBSET Positions, NEW audio \in Parts
  PROVE  Reached(pc, ver, todo, audio) \in WorkType
BY DEF Reached, WorkType

\* Moving a worker on keeps the type of work.
LEMMA GotoOK ==
  ASSUME work \in [JobIds -> WorkType], NEW j \in JobIds,
         NEW pc \in {"idle", "mark"} \cup StageSteps \cup Returned, Goto(j, pc)
  PROVE  work' \in [JobIds -> WorkType]
BY DEF Goto, WorkType

\* A status update keeps the type of the rows and creates or removes none.
LEMMA SetStatusOK ==
  ASSUME status \in [Episodes -> Statuses \cup {"unborn", "deleted"}],
         NEW e, NEW s \in Statuses, SetStatus(e, s)
  PROVE  /\ status' \in [Episodes -> Statuses \cup {"unborn", "deleted"}]
         /\ \A x \in Episodes : Exists(x)' = Exists(x)
         /\ \A x \in Episodes : (status'[x] = "unborn") = (status[x] = "unborn")
BY DEF SetStatus, Exists, Statuses, Busy

\* The stop command's list shrinks.
LEMMA RelistOK ==
  ASSUME stop \in StopType, Relist
  PROVE  stop' \in StopType
BY DEF Relist, StopType

-----------------------------------------------------------------------------
(* Type correctness *)

\* What stays as it was keeps its type.
LEMMA Unchanged ==
  /\ JobsOK /\ UNCHANGED jobs => JobsOK'
  /\ RowsOK /\ UNCHANGED <<status, content>> => RowsOK'
  /\ ObjectsOK /\ UNCHANGED objects => ObjectsOK'
  /\ stop \in StopType /\ UNCHANGED stop => (stop \in StopType)'
  /\ deleting \in [Episodes -> DeleteType] /\ UNCHANGED deleting
       => (deleting \in [Episodes -> DeleteType])'
<1>1. JobsOK /\ UNCHANGED jobs => JobsOK'
  BY DEF JobsOK, JobsTypeOK, InFlight, Running, Kind, Episode
<1>2. RowsOK /\ UNCHANGED <<status, content>> => RowsOK'
  BY DEF RowsOK, content
<1>3. ObjectsOK /\ UNCHANGED objects => ObjectsOK'
  BY DEF ObjectsOK, objects
<1> QED
  BY <1>1, <1>2, <1>3

\* The initial state.
LEMMA InitType == PipelineAssumption /\ Init => TypeOK
<1> SUFFICES ASSUME PipelineAssumption, Init PROVE TypeOK
  OBVIOUS
<1>1. JobsOK
  BY DEF Init, JobsInit, JobsOK, JobsTypeOK, FreeJob, Job, Contexts, InFlight, Running
<1>2. Silence \in Parts
  BY PositionFacts
<1>3. work \in [JobIds -> WorkType]
  BY <1>2, ReachedType, Idle \in WorkType DEF Init, Idle
<1>4. RowsOK
  BY DEF Init, RowsOK, PipelineAssumption
<1>5. ObjectsOK
  BY <1>2 DEF Init, ObjectsOK
<1>6. stop \in StopType /\ deleting \in [Episodes -> DeleteType]
  BY DEF Init, StopType, DeleteType, NoDelete
<1> QED
  BY <1>1, <1>3, <1>4, <1>5, <1>6 DEF TypeOK

\* The queue's own steps.
LEMMA QueueType ==
  ASSUME PipelineAssumption, TypeOK, NEW j \in JobIds, QueueStep(j) \/ Disturbance(j)
  PROVE  TypeOK'
<1>1. Silence \in Parts
  BY PositionFacts
<1>2. Idle \in WorkType
  BY <1>1, ReachedType DEF Idle
<1>3. CASE Take(j)
  <2>1. JobsOK'
    BY <1>3, QueueActionOK DEF Take, TypeOK
  <2>2. Reached(FirstStep(Kind(j)), 0, {}, Silence) \in WorkType
    BY <1>1, ReachedType DEF FirstStep, StageSteps, PipelineAssumption
  <2>3. work' \in [JobIds -> WorkType]
    BY <1>3, <2>2 DEF Take, TypeOK
  <2> QED
    BY <1>3, <2>1, <2>3, Unchanged DEF Take, TypeOK, commands
<1>4. CASE Record(j)
  <2>1. JobsOK'
    BY <1>4, QueueActionOK DEF Record, Attended, TypeOK
  <2>2. work' \in [JobIds -> WorkType] /\ stop' \in StopType
    BY <1>2, <1>4, RelistOK DEF Record, TypeOK
  <2> QED
    BY <1>4, <2>1, <2>2, Unchanged DEF Record, TypeOK
<1>5. CASE RescueStuck(j)
  <2>1. JobsOK'
    BY <1>5, QueueActionOK DEF RescueStuck, TypeOK
  <2>2. stop' \in StopType
    BY <1>5, RelistOK DEF RescueStuck, TypeOK
  <2> QED
    BY <1>5, <2>1, <2>2, Unchanged DEF RescueStuck, TypeOK
<1>6. CASE Crash(j)
  <2>1. JobsOK'
    BY <1>6, QueueActionOK DEF Crash, TypeOK
  <2>2. work' \in [JobIds -> WorkType]
    BY <1>2, <1>6 DEF Crash, TypeOK
  <2> QED
    BY <1>6, <2>1, <2>2, Unchanged DEF Crash, TypeOK, commands
<1>7. CASE SoftStop(j) \/ HearCancel(j)
  <2>1. JobsOK'
    BY <1>7, QueueActionOK DEF SoftStop, HearCancel, TypeOK
  <2> QED
    BY <1>7, <2>1, Unchanged DEF SoftStop, HearCancel, TypeOK, commands
<1> QED
  BY <1>3, <1>4, <1>5, <1>6, <1>7 DEF QueueStep, Disturbance

\* A stage's closing transaction.
LEMMA AdvanceType ==
  ASSUME TypeOK, NEW j \in JobIds, InFlight(j),
         NEW s \in Statuses, NEW k \in Stages, Advance(j, s, k)
  PROVE  /\ JobsOK'
         /\ work' \in [JobIds -> WorkType]
         /\ status' \in [Episodes -> Statuses \cup {"unborn", "deleted"}]
<1>1. Episode(j) \in Episodes
  BY DEF TypeOK, JobsOK
<1>2. JobsOK'
  BY <1>1, InsertedOK DEF TypeOK, Advance
<1>3. work' \in [JobIds -> WorkType]
  BY GotoOK DEF TypeOK, Advance, Returned
<1>4. status' \in [Episodes -> Statuses \cup {"unborn", "deleted"}]
  BY SetStatusOK DEF TypeOK, RowsOK, Advance
<1> QED
  BY <1>2, <1>3, <1>4

\* A step of a stage's worker.
LEMMA WorkerType ==
  ASSUME PipelineAssumption, TypeOK, NEW j \in JobIds, WorkerStep(j)
  PROVE  TypeOK'
<1> DEFINE e == Episode(j)
<1>1. /\ Running(j) => InFlight(j)
      /\ InFlight(j) => e \in Episodes /\ Kind(j) \in Stages
      /\ work[j] \in WorkType
  BY DEF TypeOK, JobsOK, Running, InFlight
<1>2. \A k \in Stages : StageStatus(k) \in Statuses
  BY DEF StageStatus, Statuses, Busy
<1>3. /\ status \in [Episodes -> Statuses \cup {"unborn", "deleted"}]
      /\ work \in [JobIds -> WorkType]
      /\ RowsOK /\ ObjectsOK
  BY DEF TypeOK, RowsOK
<1> HIDE DEF e
<1>4. CASE MarkStage(j)
  <2>1. work' \in [JobIds -> WorkType]
    BY <1>3, <1>4, GotoOK DEF MarkStage, StageSteps
  <2>2. RowsOK'
    BY <1>1, <1>2, <1>3, <1>4, SetStatusOK DEF MarkStage, At, RowsOK, content, e
  <2> QED
    BY <1>4, <2>1, <2>2, Unchanged DEF MarkStage, TypeOK, commands
<1>5. CASE MarkFails(j) \/ FailUnrecorded(j)
  <2>1. work' \in [JobIds -> WorkType]
    BY <1>3, <1>5, GotoOK DEF MarkFails, FailUnrecorded, Returned
  <2> QED
    BY <1>5, <2>1, Unchanged DEF MarkFails, FailUnrecorded, TypeOK, commands
<1>6. CASE StoreDocuments(j)
  <2>1. /\ JobsOK' /\ work' \in [JobIds -> WorkType]
        /\ status' \in [Episodes -> Statuses \cup {"unborn", "deleted"}]
    BY <1>1, <1>6, AdvanceType DEF StoreDocuments, At, Statuses, Busy, Stages
  <2>2. RowsOK'
    BY <1>3, <1>6, <2>1 DEF StoreDocuments, RowsOK
  <2> QED
    BY <1>6, <2>1, <2>2, Unchanged DEF StoreDocuments, TypeOK, commands
<1>7. CASE StoreScript(j)
  <2>1. /\ JobsOK' /\ work' \in [JobIds -> WorkType]
        /\ status' \in [Episodes -> Statuses \cup {"unborn", "deleted"}]
    BY <1>1, <1>7, AdvanceType DEF StoreScript, At, Statuses, Busy, Stages
  <2>2. script' \in [Episodes -> 0..MaxScripts]
    <3>1. e \in Episodes /\ script[e] < MaxScripts /\ script' = [script EXCEPT ![e] = @ + 1]
      BY <1>1, <1>7 DEF StoreScript, At, e
    <3>2. script[e] \in 0..MaxScripts /\ MaxScripts \in Nat
      BY <1>3, <3>1 DEF RowsOK, PipelineAssumption
    <3>3. script[e] + 1 \in 0..MaxScripts
      BY <3>1, <3>2
    <3> QED
      BY <1>3, <3>1, <3>3 DEF RowsOK
  <2>3. turns' \in [Episodes -> 0..MaxTurns]
    <3>1. PICK n \in 1..MaxTurns : turns' = [turns EXCEPT ![e] = n]
      BY <1>7 DEF StoreScript, e
    <3>2. n \in 0..MaxTurns
      BY <3>1 DEF PipelineAssumption
    <3> QED
      BY <1>3, <3>1, <3>2 DEF RowsOK
  <2>4. RowsOK'
    BY <1>3, <1>7, <2>1, <2>2, <2>3 DEF StoreScript, RowsOK
  <2> QED
    BY <1>7, <2>1, <2>4, Unchanged DEF StoreScript, TypeOK, commands
<1>8. CASE LoadTurns(j)
  <2>1. /\ script[e] \in 0..MaxScripts /\ turns[e] \in 0..MaxTurns
        /\ Wanted(e, turns[e]) \subseteq Positions /\ Silence \in Parts
    BY <1>1, <1>3, <1>8, PositionFacts DEF LoadTurns, At, RowsOK, e
  <2>2. Reached("existing", script[e], Wanted(e, turns[e]), Silence) \in WorkType
    BY <2>1, ReachedType DEF StageSteps
  <2>3. work' \in [JobIds -> WorkType]
    BY <1>3, <1>8, <2>2 DEF LoadTurns, e
  <2> QED
    BY <1>8, <2>3, Unchanged DEF LoadTurns, TypeOK, commands
<1>9. CASE SkipExisting(j)
  <2>1. /\ work[j].ver \in 0..MaxScripts /\ work[j].todo \ rows[e] \in SUBSET Positions
        /\ Silence \in Parts
    BY <1>1, PositionFacts DEF WorkType
  <2>2. Reached("voice", work[j].ver, work[j].todo \ rows[e], Silence) \in WorkType
    BY <2>1, ReachedType DEF StageSteps
  <2>3. work' \in [JobIds -> WorkType]
    BY <1>3, <1>9, <2>2 DEF SkipExisting, e
  <2> QED
    BY <1>9, <2>3, Unchanged DEF SkipExisting, TypeOK, commands
<1>10. CASE PutSegment(j)
  <2>1. work' \in [JobIds -> WorkType]
    BY <1>3, <1>10, GotoOK DEF PutSegment, StageSteps
  <2>2. objs' \in [Episodes -> Parts]
    <3>1. PICK p \in Positions : objs' = [objs EXCEPT ![e][p] = work[j].ver]
      BY <1>10 DEF PutSegment, e
    <3>2. work[j].ver \in 0..MaxScripts
      BY <1>1 DEF WorkType
    <3> QED
      BY <1>3, <3>1, <3>2 DEF ObjectsOK, Parts
  <2>3. ObjectsOK'
    BY <1>3, <1>10, <2>2 DEF PutSegment, ObjectsOK
  <2> QED
    BY <1>10, <2>1, <2>3, Unchanged DEF PutSegment, TypeOK, commands
<1>11. CASE RecordSegment(j)
  <2>1. PICK p \in Positions :
          /\ rows' = [rows EXCEPT ![e] = @ \cup {p}]
          /\ work' = [work EXCEPT ![j] = Reached("voice", @.ver, @.todo \ {p}, Silence)]
    BY <1>11 DEF RecordSegment, e
  <2>2. RowsOK'
    <3>1. UNCHANGED <<status, docs, turns, script, linked>>
      BY <1>11 DEF RecordSegment
    <3>2. rows' \in [Episodes -> SUBSET Positions]
      BY <1>3, <2>1 DEF RowsOK
    <3> QED
      BY <1>3, <3>1, <3>2 DEF RowsOK
  <2>3. /\ work[j].ver \in 0..MaxScripts /\ work[j].todo \ {p} \in SUBSET Positions
        /\ Silence \in Parts
    BY <1>1, PositionFacts DEF WorkType
  <2>4. Reached("voice", work[j].ver, work[j].todo \ {p}, Silence) \in WorkType
    BY <2>3, ReachedType DEF StageSteps
  <2>5. work' \in [JobIds -> WorkType]
    BY <1>3, <2>1, <2>4
  <2> QED
    BY <1>11, <2>2, <2>5, Unchanged DEF RecordSegment, TypeOK, commands
<1>12. CASE FinishTTS(j)
  <2>1. /\ JobsOK' /\ work' \in [JobIds -> WorkType]
        /\ status' \in [Episodes -> Statuses \cup {"unborn", "deleted"}]
    BY <1>1, <1>12, AdvanceType DEF FinishTTS, At, Statuses, Busy, Stages
  <2>2. RowsOK'
    BY <1>3, <1>12, <2>1 DEF FinishTTS, RowsOK, content
  <2> QED
    BY <1>12, <2>1, <2>2, Unchanged DEF FinishTTS, TypeOK, commands
<1>13. CASE ReadSegments(j)
  <2> DEFINE a == [p \in Positions |-> IF p \in rows[e] THEN objs[e][p] ELSE 0]
  <2>1. a \in Parts
    BY <1>1, <1>3, <1>13 DEF ReadSegments, At, ObjectsOK, Parts, PipelineAssumption
  <2>2. Reached("upload", 0, {}, a) \in WorkType
    BY <2>1, ReachedType DEF StageSteps, PipelineAssumption
  <2>3. work' \in [JobIds -> WorkType]
    BY <1>3, <1>13, <2>2 DEF ReadSegments, e
  <2> QED
    BY <1>13, <2>3, Unchanged DEF ReadSegments, TypeOK, commands
<1>14. CASE PutMedia(j)
  <2>1. work' \in [JobIds -> WorkType]
    BY <1>3, <1>14, GotoOK DEF PutMedia, StageSteps
  <2>2. work[j].audio \in Parts
    BY <1>1 DEF WorkType
  <2>3. ObjectsOK'
    BY <1>3, <1>14, <2>2 DEF PutMedia, ObjectsOK
  <2> QED
    BY <1>14, <2>1, <2>3, Unchanged DEF PutMedia, TypeOK, commands
<1>15. CASE Publish(j)
  <2>1. work' \in [JobIds -> WorkType]
    BY <1>3, <1>15, GotoOK DEF Publish, Returned
  <2>2. status' \in [Episodes -> Statuses \cup {"unborn", "deleted"}]
    BY <1>3, <1>15, SetStatusOK DEF Publish, Statuses
  <2>3. linked' \in [Episodes -> BOOLEAN]
    BY <1>3, <1>15 DEF Publish, RowsOK, Exists
  <2>4. RowsOK'
    BY <1>3, <1>15, <2>2, <2>3 DEF Publish, RowsOK
  <2> QED
    BY <1>15, <2>1, <2>4, Unchanged DEF Publish, TypeOK, commands
<1>16. ASSUME NEW permanent \in BOOLEAN, Fail(j, permanent)
       PROVE  TypeOK'
  <2>1. work' \in [JobIds -> WorkType]
    BY <1>3, <1>16, GotoOK DEF Fail, Returned
  <2>2. AttemptStatus(j, permanent) \in Statuses
    BY DEF AttemptStatus, Statuses, Busy
  <2>3. status' \in [Episodes -> Statuses \cup {"unborn", "deleted"}]
    BY <1>3, <1>16, <2>2, SetStatusOK DEF Fail
  <2>4. RowsOK'
    BY <1>3, <1>16, <2>3 DEF Fail, RowsOK, content
  <2> QED
    BY <1>16, <2>1, <2>4, Unchanged DEF Fail, TypeOK, commands
<1> QED
  BY <1>4, <1>5, <1>6, <1>7, <1>8, <1>9, <1>10, <1>11, <1>12, <1>13, <1>14, <1>15, <1>16
     DEF WorkerStep

\* Removing rows and objects.
LEMMA RemovalType ==
  ASSUME PipelineAssumption, TypeOK, NEW e \in Episodes
  PROVE  /\ DropRows(e) => RowsOK'
         /\ \A keys, composed : RemoveObjects(e, keys, composed) => ObjectsOK'
<1>1. DropRows(e) => RowsOK'
  <2>1. 0 \in 0..MaxTurns
    BY DEF PipelineAssumption
  <2> QED
    BY <2>1 DEF TypeOK, RowsOK, DropRows
<1>2. ASSUME NEW keys, NEW composed, RemoveObjects(e, keys, composed)
      PROVE  ObjectsOK'
  <2>1. [p \in Positions |-> IF p \in keys THEN 0 ELSE objs[e][p]] \in Parts
    BY DEF TypeOK, ObjectsOK, Parts, PipelineAssumption
  <2>2. Silence \in Parts
    BY PositionFacts
  <2> QED
    BY <1>2, <2>1, <2>2 DEF RemoveObjects, TypeOK, ObjectsOK
<1> QED
  BY <1>1, <1>2

\* Inserting a job and setting the status of an episode that exists, or that
\* the poll creates.
LEMMA InsertType ==
  ASSUME TypeOK, NEW e \in Episodes, NEW k \in Stages, NEW s \in Statuses,
         UNCHANGED <<work, content, objects, commands>>,
         status' = [status EXCEPT ![e] = s],
         UNCHANGED jobs \/ (Room /\ jobs' = Inserted(k, e))
  PROVE  TypeOK'
<1>1. JobsOK'
  BY InsertedOK, Unchanged DEF TypeOK
<1>2. RowsOK'
  BY DEF TypeOK, RowsOK, content
<1> QED
  BY <1>1, <1>2, Unchanged DEF TypeOK, commands

\* The operator's commands, the poll and the cleanup.
LEMMA CommandType ==
  ASSUME PipelineAssumption, TypeOK, StopCommand \/ \E e \in Episodes : EpisodeCommand(e)
  PROVE  TypeOK'
<1>1. ASSUME NEW e \in Episodes, Poll(e) \/ Retry(e) \/ Start(e)
      PROVE  TypeOK'
  <2>1. /\ ResumeKind(e) \in Stages /\ "resolve_content" \in Stages
        /\ "queued" \in Statuses /\ \A k \in Stages : StageStatus(k) \in Statuses
    BY DEF ResumeKind, Stages, Statuses, Busy, StageStatus
  <2>2. CASE Poll(e)
    BY <2>1, <2>2, InsertType DEF Poll
  <2>3. CASE Retry(e)
    BY <2>1, <2>3, InsertType DEF Retry
  <2>4. CASE Start(e)
    BY <2>1, <2>4, InsertType DEF Start
  <2> QED
    BY <1>1, <2>2, <2>3, <2>4
<1>2. ASSUME NEW e \in Episodes, SelectForDelete(e)
      PROVE  TypeOK'
  <2>1. deleting' \in [Episodes -> DeleteType]
    BY <1>2 DEF SelectForDelete, TypeOK, RowsOK, DeleteType
  <2> QED
    BY <1>2, <2>1, Unchanged DEF SelectForDelete, TypeOK
<1>3. ASSUME NEW e \in Episodes, CommitDelete(e) \/ RollBackDelete(e)
      PROVE  TypeOK'
  <2>1. deleting' \in [Episodes -> DeleteType]
    <3>1. NoDelete \in DeleteType
      BY DEF NoDelete, DeleteType
    <3>2. deleting' = [deleting EXCEPT ![e] = NoDelete]
      BY <1>3 DEF CommitDelete, RollBackDelete
    <3> QED
      BY <3>1, <3>2 DEF TypeOK
  <2>2. RowsOK'
    BY <1>3, RemovalType, Unchanged DEF CommitDelete, RollBackDelete, TypeOK
  <2>3. ObjectsOK'
    BY <1>3, RemovalType DEF CommitDelete, RollBackDelete
  <2> QED
    BY <1>3, <2>1, <2>2, <2>3, Unchanged DEF CommitDelete, RollBackDelete, TypeOK
<1>4. ASSUME NEW e \in Episodes, Expire(e)
      PROVE  TypeOK'
  <2>1. RowsOK'
    BY <1>4, RemovalType DEF Expire
  <2> QED
    BY <1>4, <2>1, Unchanged DEF Expire, TypeOK, commands
<1>5. CASE StopList \/ StopAborts
  <2>1. stop' \in StopType
    BY <1>5 DEF StopList, StopAborts, StopType
  <2> QED
    BY <1>5, <2>1, Unchanged DEF StopList, StopAborts, TypeOK
<1>6. CASE StopFail
  <2>1. stop' \in StopType
    BY <1>6 DEF StopFail, StopType, TypeOK
  <2>2. RowsOK'
    BY <1>6 DEF StopFail, TypeOK, RowsOK, content, Statuses
  <2> QED
    BY <1>6, <2>1, <2>2, Unchanged DEF StopFail, TypeOK
<1>7. ASSUME NEW j \in JobIds, StopCancel(j)
      PROVE  TypeOK'
  <2>1. JobsOK'
    BY <1>7, QueueActionOK DEF StopCancel, TypeOK
  <2>2. stop' \in StopType
    BY <1>7 DEF StopCancel, TypeOK, StopType
  <2> QED
    BY <1>7, <2>1, <2>2, Unchanged DEF StopCancel, TypeOK
<1> QED
  BY <1>1, <1>2, <1>3, <1>4, <1>5, <1>6, <1>7
     DEF StopCommand, EpisodeCommand, DeleteCommand

\* Every variable keeps its type.
LEMMA TypeStep ==
  ASSUME PipelineAssumption, TypeOK, [Next]_vars
  PROVE  TypeOK'
<1>1. CASE UNCHANGED vars
  BY <1>1, Unchanged DEF vars, TypeOK, content, objects
<1>2. CASE Next
  BY <1>2, QueueType, WorkerType, CommandType DEF Next, JobStep
<1> QED
  BY <1>1, <1>2

\* Whatever fails and whatever the operator does, a job in the queue has a
\* kind and an episode, an episode has a status of the schema, and the
\* recorded segments and stored objects stay within a script's positions.
THEOREM TypeCorrect == Spec => []TypeOK
<1>1. Init => TypeOK
  BY InitType, PipelineAssumption
<1>2. TypeOK /\ [Next]_vars => TypeOK'
  BY TypeStep, PipelineAssumption
<1> QED
  BY <1>1, <1>2, PTL DEF Spec

-----------------------------------------------------------------------------
(* The inductive invariant.  Every step keeps rows, jobs and workers in the *)
(* sense of the next definitions; that is all the invariant needs.          *)

\* No episode becomes unborn again; one that was there and still is has lost
\* none of its documents, turns and segments.
RowsKept ==
  \A e \in Episodes :
    /\ status'[e] = "unborn" => status[e] = "unborn"
    /\ status[e] # "unborn" /\ Exists(e)' =>
         /\ Exists(e)
         /\ docs[e] => docs'[e]
         /\ turns[e] > 0 => turns'[e] > 0
         /\ rows[e] \subseteq rows'[e]

Same(i) == /\ InFlight(i)
           /\ Kind(i)' = Kind(i) /\ Episode(i)' = Episode(i)

\* A job that was just inserted, with the input of its stage.
Fresh(i) == /\ Waiting(i)'
            /\ status'[Episode(i)'] # "unborn"
            /\ Exists(Episode(i))' => HasInput(Kind(i), Episode(i))'

JobsKept == \A i \in JobIds : InFlight(i)' => Same(i) \/ Fresh(i)

\* A worker goes on voicing, ...
Continues(i) ==
  /\ Running(i) /\ work[i].pc \in VoicingSteps
  /\ Exists(Episode(i))' => /\ work'[i].todo \subseteq work[i].todo
                            /\ work[i].todo \subseteq work'[i].todo \cup rows'[Episode(i)]

\* ... or has just read what to voice.
Loads(i) == /\ Kind(i)' = "generate_tts"
            /\ work'[i].todo # {}
            /\ \A p \in work'[i].todo : \A q \in Positions : q < p => q \in work'[i].todo

WorkKept ==
  \A i \in JobIds :
    Running(i)' /\ work'[i].pc \in VoicingSteps => Same(i) /\ (Continues(i) \/ Loads(i))

\* Such a step preserves the invariant.
LEMMA KeptIsEnough ==
  ASSUME PipelineInv, TypeOK', RowsKept, JobsKept, WorkKept, SegmentsContiguous'
  PROVE  PipelineInv'
<1>1. \A i \in JobIds : /\ InFlight(i) => Episode(i) \in Episodes /\ status[Episode(i)] # "unborn"
                        /\ InFlight(i)' => Episode(i)' \in Episodes
                        /\ Running(i)' => InFlight(i)'
                        /\ Waiting(i)' => ~Running(i)'
  BY DEF PipelineInv, TypeOK, JobsOK, JobsBorn, Running, Waiting, InFlight
<1>2. JobsBorn'
  BY <1>1 DEF JobsBorn, JobsKept, RowsKept, Same, Fresh
<1>3. StageInputs'
  <2> SUFFICES ASSUME NEW i \in JobIds, InFlight(i)', Exists(Episode(i))'
               PROVE  HasInput(Kind(i), Episode(i))'
    BY DEF StageInputs
  <2>1. CASE Fresh(i)
    BY <2>1 DEF Fresh
  <2>2. CASE Same(i)
    <3>1. InFlight(i) /\ Exists(Episode(i)) /\ Episode(i)' = Episode(i) /\ Kind(i)' = Kind(i)
      BY <1>1, <2>2 DEF Same, RowsKept, Exists
    <3>2. HasInput(Kind(i), Episode(i))
      BY <3>1 DEF PipelineInv, StageInputs
    <3> QED
      BY <1>1, <3>1, <3>2 DEF HasInput, RowsKept, Exists
  <2> QED
    BY <2>1, <2>2 DEF JobsKept
<1>4. Voicing'
  <2> SUFFICES ASSUME NEW i \in JobIds, Running(i)', work'[i].pc \in VoicingSteps
               PROVE  /\ Kind(i)' = "generate_tts"
                      /\ Exists(Episode(i))' =>
                           /\ work'[i].todo \cup rows'[Episode(i)'] # {}
                           /\ \A p \in work'[i].todo : \A q \in Positions :
                                q < p => q \in work'[i].todo \cup rows'[Episode(i)']
    BY DEF Voicing
  <2>1. Same(i) /\ (Continues(i) \/ Loads(i))
    BY DEF WorkKept
  <2>2. CASE Loads(i)
    BY <2>2 DEF Loads
  <2>3. CASE Continues(i)
    <3>1. Kind(i)' = "generate_tts" /\ Episode(i)' = Episode(i)
      BY <2>1, <2>3 DEF PipelineInv, Voicing, Continues, Same
    <3>2. ASSUME Exists(Episode(i))'
          PROVE  /\ work'[i].todo \cup rows'[Episode(i)] # {}
                 /\ \A p \in work'[i].todo : \A q \in Positions :
                      q < p => q \in work'[i].todo \cup rows'[Episode(i)]
      <4>1. Exists(Episode(i)) /\ rows[Episode(i)] \subseteq rows'[Episode(i)]
        BY <1>1, <2>1, <3>1, <3>2 DEF Same, RowsKept, Exists
      <4>2. /\ work'[i].todo \subseteq work[i].todo
            /\ work[i].todo \subseteq work'[i].todo \cup rows'[Episode(i)]
        BY <2>3, <3>2 DEF Continues
      <4>3. /\ work[i].todo \cup rows[Episode(i)] # {}
            /\ \A p \in work[i].todo : \A q \in Positions :
                 q < p => q \in work[i].todo \cup rows[Episode(i)]
        BY <2>3, <4>1 DEF PipelineInv, Voicing, Continues
      <4> QED
        BY <4>1, <4>2, <4>3
    <3> QED
      BY <3>1, <3>2
  <2> QED
    BY <2>1, <2>2, <2>3
<1> QED
  BY <1>2, <1>3, <1>4 DEF PipelineInv

\* A step that leaves the rows alone keeps them.
LEMMA SameRows ==
  ASSUME PipelineInv, UNCHANGED <<status, docs, turns, rows>>
  PROVE  RowsKept /\ SegmentsContiguous'
BY DEF RowsKept, Exists, PipelineInv, SegmentsContiguous, Prefix

\* So does one that updates a status.
LEMMA StatusOnly ==
  ASSUME PipelineInv, NEW e, NEW s \in Statuses, SetStatus(e, s),
         UNCHANGED <<docs, turns, rows>>
  PROVE  RowsKept /\ SegmentsContiguous'
<1>1. status \in [Episodes -> Statuses \cup {"unborn", "deleted"}]
  BY DEF PipelineInv, TypeOK, RowsOK
<1>2. \A x \in Episodes : /\ Exists(x)' = Exists(x)
                          /\ (status'[x] = "unborn") = (status[x] = "unborn")
  BY <1>1, SetStatusOK
<1> QED
  BY <1>2 DEF RowsKept, PipelineInv, SegmentsContiguous, Prefix

\* The queue's steps on a job.
LEMMA QueueKeeps ==
  ASSUME PipelineInv, NEW j \in JobIds,
         \/ Fetch(j) \/ Die(j) \/ Rescue(j) \/ InterruptBySoftStop(j) \/ DeliverCancel(j)
         \/ RequestCancel(j)
         \/ Running(j) /\ RecordError(j)
         \/ Finish(j)
  PROVE  /\ JobsKept
         /\ \A i \in JobIds : InFlight(i)' => Same(i)
         /\ \A i \in JobIds : Running(i)' => Running(i) \/ (i = j /\ Fetch(j))
         /\ \A i \in JobIds : i # j => jobs'[i] = jobs[i]
<1>1. jobs \in [JobIds -> Job]
  BY DEF PipelineInv, TypeOK, JobsOK, JobsTypeOK
<1>2. ASSUME NEW s, NEW n, NEW c, InFlight(j), jobs' = [jobs EXCEPT ![j] = Moved(j, s, n, c)]
      PROVE  /\ \A i \in JobIds : i # j => jobs'[i] = jobs[i]
             /\ jobs'[j] = Moved(j, s, n, c)
             /\ \A i \in JobIds : InFlight(i)' => Same(i)
  <2>1. /\ \A i \in JobIds : i # j => jobs'[i] = jobs[i]
        /\ jobs'[j] = Moved(j, s, n, c)
    BY <1>1, <1>2
  <2> QED
    BY <1>2, <2>1 DEF Moved, InFlight, Same, Kind, Episode
<1>3. CASE Fetch(j)
  BY <1>2, <1>3 DEF Fetch, Waiting, InFlight, JobsKept, Running
<1>4. ASSUME Finish(j)
      PROVE  /\ \A i \in JobIds : i # j => jobs'[i] = jobs[i]
             /\ \A i \in JobIds : InFlight(i)' => Same(i)
             /\ \A i \in JobIds : Running(i)' => Running(i)
  <2>1. jobs'[j] = FreeJob /\ \A i \in JobIds : i # j => jobs'[i] = jobs[i]
    BY <1>1, <1>4 DEF Finish
  <2> QED
    BY <2>1 DEF FreeJob, InFlight, Same, Kind, Episode, Running
<1>5. ASSUME Running(j), NEW n, Requeue(j, n)
      PROVE  /\ \A i \in JobIds : i # j => jobs'[i] = jobs[i]
             /\ \A i \in JobIds : InFlight(i)' => Same(i)
             /\ \A i \in JobIds : Running(i)' => Running(i)
  <2>1. InFlight(j)
    BY <1>5 DEF Running, InFlight
  <2>2. /\ \A i \in JobIds : i # j => jobs'[i] = jobs[i]
        /\ \A i \in JobIds : InFlight(i)' => Same(i)
        /\ jobs'[j] = Moved(j, "waiting", n, "none")
    BY <1>2, <1>5, <2>1 DEF Requeue
  <2> QED
    BY <2>2 DEF Running, Moved
<1>6. ASSUME NEW c, jobs' = [jobs EXCEPT ![j].ctx = c] \/ jobs' = [jobs EXCEPT ![j].cancel = c]
      PROVE  /\ \A i \in JobIds : i # j => jobs'[i] = jobs[i]
             /\ \A i \in JobIds : InFlight(i)' => Same(i)
             /\ \A i \in JobIds : Running(i)' => Running(i)
  BY <1>1, <1>6 DEF Job, InFlight, Same, Kind, Episode, Running
<1>7. CASE Running(j) /\ RecordError(j)
  BY <1>4, <1>5, <1>7 DEF RecordError, JobsKept
<1>8. CASE Rescue(j)
  BY <1>4, <1>5, <1>8 DEF Rescue, JobsKept
<1>9. CASE Die(j) \/ InterruptBySoftStop(j) \/ DeliverCancel(j)
  BY <1>6, <1>9 DEF Die, InterruptBySoftStop, DeliverCancel, JobsKept
<1>10. CASE RequestCancel(j)
  BY <1>4, <1>6, <1>10 DEF RequestCancel, JobsKept
<1>11. CASE Finish(j)
  BY <1>4, <1>11 DEF JobsKept
<1> QED
  BY <1>3, <1>7, <1>8, <1>9, <1>10, <1>11

\* An insertion of a job with its input.
LEMMA InsertKeeps ==
  ASSUME PipelineInv, Room, NEW k \in Stages, NEW e \in Episodes, jobs' = Inserted(k, e),
         status'[e] # "unborn", Exists(e)' => HasInput(k, e)'
  PROVE  /\ JobsKept
         /\ \A i \in JobIds : Running(i)' => Running(i) /\ Same(i)
<1>1. PICK f \in JobIds : /\ jobs'[f] = NewJob(k, e)
                          /\ \A i \in JobIds : i # f => jobs'[i] = jobs[i]
  BY InsertedFacts DEF PipelineInv, TypeOK, JobsOK
<1>2. Fresh(f)
  <2>1. Kind(f)' = k /\ Episode(f)' = e /\ Waiting(f)'
    BY <1>1 DEF NewJob, Kind, Episode, Waiting
  <2>2. status'[Episode(f)'] # "unborn"
    BY <2>1
  <2>3. Exists(Episode(f))' => HasInput(Kind(f), Episode(f))'
    BY <2>1 DEF Exists, HasInput
  <2> QED
    BY <2>1, <2>2, <2>3 DEF Fresh
<1>3. \A i \in JobIds : i # f /\ InFlight(i)' => Same(i)
  BY <1>1 DEF InFlight, Same, Kind, Episode
<1> QED
  BY <1>1, <1>2, <1>3 DEF JobsKept, NewJob, Running, InFlight

\* The queue's own steps preserve the invariant.
LEMMA QueueInv ==
  ASSUME PipelineInv, TypeOK', NEW j \in JobIds, QueueStep(j) \/ Disturbance(j)
  PROVE  PipelineInv'
<1>1. RowsKept /\ SegmentsContiguous'
  BY SameRows DEF QueueStep, Disturbance, Take, Record, RescueStuck, Crash, SoftStop, HearCancel,
                  content
<1>2. /\ JobsKept
      /\ \A i \in JobIds : InFlight(i)' => Same(i)
      /\ \A i \in JobIds : Running(i)' => Running(i) \/ (i = j /\ Take(j))
      /\ \A i \in JobIds : i # j => jobs'[i] = jobs[i]
  <2>1. CASE Take(j)
    BY <2>1, QueueKeeps DEF Take
  <2>2. ASSUME ~Fetch(j),
               \/ Die(j) \/ Rescue(j) \/ InterruptBySoftStop(j) \/ DeliverCancel(j)
               \/ Running(j) /\ RecordError(j)
               \/ Finish(j)
        PROVE  /\ JobsKept
               /\ \A i \in JobIds : InFlight(i)' => Same(i)
               /\ \A i \in JobIds : Running(i)' => Running(i)
               /\ \A i \in JobIds : i # j => jobs'[i] = jobs[i]
    BY <2>2, QueueKeeps
  <2>3. Running(j) => ~Fetch(j)
    BY DEF Running, Fetch, Waiting
  <2>4. CASE Record(j)
    BY <2>2, <2>3, <2>4 DEF Record, Attended
  <2>5. CASE RescueStuck(j) \/ Crash(j) \/ SoftStop(j) \/ HearCancel(j)
    <3>1. Running(j)
      BY <2>5 DEF RescueStuck, Crash, SoftStop, HearCancel,
                  Rescue, Die, Attended, InterruptBySoftStop, DeliverCancel
    <3> QED
      BY <2>2, <2>3, <2>5, <3>1 DEF RescueStuck, Crash, SoftStop, HearCancel
  <2> QED
    BY <2>1, <2>4, <2>5 DEF QueueStep, Disturbance
<1>3. work \in [JobIds -> WorkType]
  BY DEF PipelineInv, TypeOK
<1>4. ASSUME NEW i \in JobIds, Running(i)', work'[i].pc \in VoicingSteps
      PROVE  Same(i) /\ Continues(i)
  <2>1. Same(i)
    BY <1>2, <1>4 DEF Running, InFlight
  <2>2. CASE Take(j) \/ Crash(j)
    <3>1. i = j => work'[i].pc \in {"stage", "mark", "idle"}
      BY <1>3, <2>2 DEF Take, Crash, FirstStep, Idle, Reached
    <3>2. i # j /\ work'[i] = work[i]
      BY <1>3, <1>4, <2>2, <3>1 DEF Take, Crash, VoicingSteps
    <3> QED
      BY <1>2, <1>4, <2>1, <3>2 DEF Continues
  <2>3. CASE Record(j)
    <3>1. i = j => work'[i].pc = "idle"
      BY <1>3, <2>3 DEF Record, Idle, Reached
    <3>2. i # j /\ work'[i] = work[i]
      BY <1>3, <1>4, <2>3, <3>1 DEF Record, VoicingSteps
    <3>3. Running(i)
      BY <1>4, <1>2, <3>2 DEF Running
    <3> QED
      BY <1>4, <2>1, <3>2, <3>3 DEF Continues
  <2>4. CASE RescueStuck(j) \/ SoftStop(j) \/ HearCancel(j)
    <3>1. work' = work
      BY <2>4 DEF RescueStuck, SoftStop, HearCancel
    <3>2. Running(i)
      BY <1>4, <2>4, QueueKeeps DEF RescueStuck, SoftStop, HearCancel, Fetch, Rescue,
                                    InterruptBySoftStop, DeliverCancel, Waiting, Running
    <3> QED
      BY <1>4, <2>1, <3>1, <3>2 DEF Continues
  <2> QED
    BY <2>2, <2>3, <2>4 DEF QueueStep, Disturbance
<1> QED
  BY <1>1, <1>2, <1>4, KeptIsEnough DEF WorkKept

\* A worker that stops voicing, or moves on without a change to its list.
LEMMA GotoKeeps ==
  ASSUME PipelineInv, NEW j \in JobIds, NEW pc, Goto(j, pc),
         pc \in VoicingSteps => work[j].pc \in VoicingSteps,
         \A i \in JobIds : Running(i)' => Running(i) /\ Same(i)
  PROVE  WorkKept
<1>1. work \in [JobIds -> WorkType]
  BY DEF PipelineInv, TypeOK
<1>2. /\ work'[j].pc = pc /\ work'[j].todo = work[j].todo
      /\ \A i \in JobIds : i # j => work'[i] = work[i]
  BY <1>1 DEF Goto, WorkType
<1> QED
  BY <1>2 DEF WorkKept, Continues

\* A worker that has read something new.
LEMMA ReachKeeps ==
  ASSUME PipelineInv, NEW j \in JobIds, UNCHANGED jobs, NEW w, work' = [work EXCEPT ![j] = w],
         Running(j) /\ w.pc \in VoicingSteps => Continues(j) \/ Loads(j)
  PROVE  WorkKept
<1>1. work'[j] = w /\ \A i \in JobIds : i # j => work'[i] = work[i]
  BY DEF PipelineInv, TypeOK
<1>2. \A i \in JobIds : Running(i)' => Running(i) /\ Same(i)
  BY DEF Running, Same, InFlight, Kind, Episode
<1> QED
  BY <1>1, <1>2 DEF WorkKept, Continues, Loads

\* A step that leaves the queue alone keeps its jobs.
LEMMA SameJobs ==
  ASSUME UNCHANGED jobs
  PROVE  JobsKept /\ \A i \in JobIds : Running(i)' => Running(i) /\ Same(i)
BY DEF JobsKept, Same, InFlight, Running, Kind, Episode

\* A stage's closing transaction, once its rows are known.
LEMMA AdvanceKeeps ==
  ASSUME PipelineInv, NEW j \in JobIds, InFlight(j), NEW e, e = Episode(j),
         NEW s \in Statuses, NEW k \in Stages,
         Advance(j, s, k), Exists(e) => HasInput(k, e)'
  PROVE  /\ \A x \in Episodes : /\ Exists(x)' = Exists(x)
                                /\ (status'[x] = "unborn") = (status[x] = "unborn")
         /\ JobsKept /\ WorkKept
<1>1. e \in Episodes /\ status[e] # "unborn"
  BY DEF PipelineInv, JobsBorn, TypeOK, JobsOK
<1>2. \A x \in Episodes : /\ Exists(x)' = Exists(x)
                          /\ (status'[x] = "unborn") = (status[x] = "unborn")
  BY SetStatusOK DEF Advance, PipelineInv, TypeOK, RowsOK
<1>3. status'[e] # "unborn" /\ (Exists(e)' => HasInput(k, e)') /\ jobs' = Inserted(k, e) /\ Room
  BY <1>1, <1>2 DEF Advance
<1>4. JobsKept /\ \A i \in JobIds : Running(i)' => Running(i) /\ Same(i)
  BY <1>1, <1>3, InsertKeeps
<1>5. WorkKept
  BY <1>4, GotoKeeps DEF Advance, VoicingSteps
<1> QED
  BY <1>2, <1>4, <1>5

\* A worker's step preserves the invariant.
LEMMA WorkerInv ==
  ASSUME PipelineAssumption, PipelineInv, TypeOK', NEW j \in JobIds, WorkerStep(j)
  PROVE  PipelineInv'
<1>0. PICK e : e = Episode(j)
  OBVIOUS
<1>1. /\ Running(j) => /\ InFlight(j) /\ e \in Episodes /\ Kind(j) \in Stages
                       /\ status[e] # "unborn"
      /\ work[j] \in WorkType /\ work \in [JobIds -> WorkType]
  BY <1>0 DEF PipelineInv, TypeOK, JobsOK, JobsBorn, Running, InFlight
<1>2. RowsOK
  BY DEF PipelineInv, TypeOK
<1>3. ASSUME NEW pc, UNCHANGED jobs, Goto(j, pc), pc \in VoicingSteps => work[j].pc \in VoicingSteps
      PROVE  JobsKept /\ WorkKept
  BY <1>3, SameJobs, GotoKeeps
<1>4. ASSUME UNCHANGED jobs, NEW w, work' = [work EXCEPT ![j] = w],
             Running(j) /\ w.pc \in VoicingSteps => Continues(j) \/ Loads(j)
      PROVE  JobsKept /\ WorkKept
  BY <1>4, SameJobs, ReachKeeps
<1>5. CASE MarkStage(j)
  <2>1. RowsKept /\ SegmentsContiguous'
    <3>1. StageStatus(Kind(j)) \in Statuses
      BY DEF StageStatus, Statuses, Busy
    <3> QED
      BY <1>5, <3>1, StatusOnly DEF MarkStage, content
  <2>2. JobsKept /\ WorkKept
    BY <1>3, <1>5 DEF MarkStage, VoicingSteps
  <2> QED
    BY <2>1, <2>2, KeptIsEnough
<1>6. CASE MarkFails(j) \/ FailUnrecorded(j)
  <2>1. RowsKept /\ SegmentsContiguous'
    BY <1>6, SameRows DEF MarkFails, FailUnrecorded, content
  <2>2. JobsKept /\ WorkKept
    BY <1>3, <1>6 DEF MarkFails, FailUnrecorded, VoicingSteps
  <2> QED
    BY <2>1, <2>2, KeptIsEnough
<1>7. CASE StoreDocuments(j)
  <2>1. /\ Running(j) /\ Exists(e) /\ docs' = [docs EXCEPT ![e] = TRUE] /\ UNCHANGED <<turns, rows>>
        /\ Advance(j, "content_ready", "generate_script")
    BY <1>0, <1>7 DEF StoreDocuments, At
  <2>2. (\A x \in Episodes : docs[x] => docs'[x]) /\ docs'[e]
    BY <1>1, <1>2, <2>1 DEF RowsOK
  <2>3. /\ \A x \in Episodes : /\ Exists(x)' = Exists(x)
                               /\ (status'[x] = "unborn") = (status[x] = "unborn")
        /\ JobsKept /\ WorkKept
    <3>1. HasInput("generate_script", e)'
      BY <2>2 DEF HasInput
    <3> QED
      BY <1>0, <1>1, <2>1, <3>1, AdvanceKeeps DEF Statuses, Busy, Stages
  <2>4. RowsKept /\ SegmentsContiguous'
    BY <2>1, <2>2, <2>3 DEF RowsKept, PipelineInv, SegmentsContiguous, Prefix
  <2> QED
    BY <2>3, <2>4, KeptIsEnough
<1>8. CASE StoreScript(j)
  <2>1. /\ Running(j) /\ Exists(e) /\ UNCHANGED <<docs, rows>>
        /\ Advance(j, "script_ready", "generate_tts")
    BY <1>0, <1>8 DEF StoreScript, At
  <2>2. PICK n \in 1..MaxTurns : turns' = [turns EXCEPT ![e] = n]
    BY <1>0, <1>8 DEF StoreScript
  <2>3. (\A x \in Episodes : turns[x] > 0 => turns'[x] > 0) /\ turns'[e] > 0
    BY <1>1, <1>2, <2>1, <2>2 DEF RowsOK
  <2>4. /\ \A x \in Episodes : /\ Exists(x)' = Exists(x)
                               /\ (status'[x] = "unborn") = (status[x] = "unborn")
        /\ JobsKept /\ WorkKept
    <3>1. HasInput("generate_tts", e)'
      BY <2>3 DEF HasInput
    <3> QED
      BY <1>0, <1>1, <2>1, <3>1, AdvanceKeeps DEF Statuses, Busy, Stages
  <2>5. RowsKept /\ SegmentsContiguous'
    BY <2>1, <2>3, <2>4 DEF RowsKept, PipelineInv, SegmentsContiguous, Prefix
  <2> QED
    BY <2>4, <2>5, KeptIsEnough
<1>9. CASE LoadTurns(j)
  <2> DEFINE w == Reached("existing", script[e], Wanted(e, turns[e]), Silence)
  <2>1. /\ UNCHANGED jobs /\ work' = [work EXCEPT ![j] = w] /\ Kind(j) = "generate_tts"
        /\ UNCHANGED <<status, docs, turns, rows>> /\ turns[e] > 0 /\ Running(j)
    BY <1>0, <1>9 DEF LoadTurns, At, content
  <2>2. work'[j] = w /\ w.todo = Wanted(e, turns[e])
    BY <1>1, <2>1 DEF Reached
  <2>3. turns[e] \in 0..MaxTurns
    BY <1>1, <1>2, <2>1 DEF RowsOK
  <2>4. Loads(j)
    BY <1>1, <2>1, <2>2, <2>3, PositionFacts DEF Loads, Kind
  <2>5. JobsKept /\ WorkKept
    BY <1>4, <2>1, <2>4
  <2> QED
    BY <2>1, <2>5, SameRows, KeptIsEnough
<1>10. CASE SkipExisting(j)
  <2> DEFINE w == Reached("voice", work[j].ver, work[j].todo \ rows[e], Silence)
  <2>1. /\ UNCHANGED jobs /\ work' = [work EXCEPT ![j] = w]
        /\ UNCHANGED <<status, docs, turns, rows>> /\ work[j].pc = "existing" /\ Running(j)
    BY <1>0, <1>10 DEF SkipExisting, At, content
  <2>2. work'[j] = w /\ w.todo = work[j].todo \ rows[e]
    BY <1>1, <2>1 DEF Reached
  <2>3. Continues(j)
    BY <1>0, <2>1, <2>2 DEF Continues, VoicingSteps
  <2>4. JobsKept /\ WorkKept
    BY <1>4, <2>1, <2>3
  <2> QED
    BY <2>1, <2>4, SameRows, KeptIsEnough
<1>11. CASE PutSegment(j)
  <2>1. RowsKept /\ SegmentsContiguous'
    BY <1>11, SameRows DEF PutSegment, content
  <2>2. JobsKept /\ WorkKept
    BY <1>3, <1>11 DEF PutSegment, At, VoicingSteps
  <2> QED
    BY <2>1, <2>2, KeptIsEnough
<1>12. CASE RecordSegment(j)
  <2>1. PICK p \in Positions :
          /\ FirstTodo(j, p)
          /\ rows' = [rows EXCEPT ![e] = @ \cup {p}]
          /\ work' = [work EXCEPT ![j] = Reached("voice", @.ver, @.todo \ {p}, Silence)]
    BY <1>0, <1>12 DEF RecordSegment
  <2> DEFINE w == Reached("voice", work[j].ver, work[j].todo \ {p}, Silence)
  <2>2. /\ UNCHANGED <<jobs, status, docs, turns>> /\ Running(j) /\ Exists(e)
        /\ work[j].pc = "record"
    BY <1>0, <1>12 DEF RecordSegment, At
  <2>3. /\ work' = [work EXCEPT ![j] = w] /\ work'[j] = w /\ w.todo = work[j].todo \ {p}
        /\ rows'[e] = rows[e] \cup {p} /\ \A x \in Episodes : x # e => rows'[x] = rows[x]
    BY <1>1, <1>2, <2>1, <2>2 DEF RowsOK, Reached
  <2>4. Continues(j)
    BY <1>0, <2>2, <2>3 DEF Continues, VoicingSteps
  <2>5. JobsKept /\ WorkKept
    BY <1>4, <2>2, <2>3, <2>4
  <2>6. RowsKept
    BY <2>2, <2>3 DEF RowsKept, Exists
  <2>7. Prefix(rows'[e])
    <3>1. \A q \in Positions : q < p => q \in work[j].todo \cup rows[e]
      BY <1>0, <2>1, <2>2 DEF PipelineInv, Voicing, VoicingSteps, FirstTodo
    <3>2. \A q \in Positions : q < p => q \notin work[j].todo
      BY <2>1, PositionFacts DEF FirstTodo
    <3>3. Prefix(rows[e])
      BY <1>1, <2>2 DEF PipelineInv, SegmentsContiguous
    <3> QED
      BY <2>3, <3>1, <3>2, <3>3 DEF Prefix
  <2>8. SegmentsContiguous'
    BY <2>3, <2>7 DEF PipelineInv, SegmentsContiguous, Prefix
  <2> QED
    BY <2>5, <2>6, <2>8, KeptIsEnough
<1>13. CASE FinishTTS(j)
  <2>1. /\ Running(j) /\ UNCHANGED <<docs, turns, rows>>
        /\ Advance(j, "composing", "compose_episode")
        /\ work[j].pc = "voice" /\ work[j].todo = {}
    BY <1>13 DEF FinishTTS, At, content
  <2>2. Exists(e) => rows[e] # {}
    BY <1>0, <2>1 DEF PipelineInv, Voicing, VoicingSteps
  <2>3. /\ \A x \in Episodes : /\ Exists(x)' = Exists(x)
                               /\ (status'[x] = "unborn") = (status[x] = "unborn")
        /\ JobsKept /\ WorkKept
    <3>1. Exists(e) => HasInput("compose_episode", e)'
      BY <2>1, <2>2 DEF HasInput
    <3> QED
      BY <1>0, <1>1, <2>1, <3>1, AdvanceKeeps DEF Statuses, Busy, Stages
  <2>4. RowsKept /\ SegmentsContiguous'
    BY <2>1, <2>3 DEF RowsKept, PipelineInv, SegmentsContiguous, Prefix
  <2> QED
    BY <2>3, <2>4, KeptIsEnough
<1>14. CASE ReadSegments(j)
  <2>1. RowsKept /\ SegmentsContiguous'
    BY <1>14, SameRows DEF ReadSegments, content
  <2>2. PICK a : work' = [work EXCEPT ![j] = Reached("upload", 0, {}, a)]
    BY <1>14 DEF ReadSegments
  <2>3. JobsKept /\ WorkKept
    BY <1>4, <1>14, <2>2 DEF ReadSegments, Reached, VoicingSteps
  <2> QED
    BY <2>1, <2>3, KeptIsEnough
<1>15. CASE PutMedia(j)
  <2>1. RowsKept /\ SegmentsContiguous'
    BY <1>15, SameRows DEF PutMedia, content
  <2>2. JobsKept /\ WorkKept
    BY <1>3, <1>15 DEF PutMedia, VoicingSteps
  <2> QED
    BY <2>1, <2>2, KeptIsEnough
<1>16. CASE Publish(j)
  <2>1. RowsKept /\ SegmentsContiguous'
    BY <1>16, StatusOnly DEF Publish, Statuses
  <2>2. JobsKept /\ WorkKept
    BY <1>3, <1>16 DEF Publish, VoicingSteps
  <2> QED
    BY <2>1, <2>2, KeptIsEnough
<1>17. ASSUME NEW permanent \in BOOLEAN, Fail(j, permanent)
       PROVE  PipelineInv'
  <2>1. AttemptStatus(j, permanent) \in Statuses
    BY DEF AttemptStatus, Statuses, Busy
  <2>2. RowsKept /\ SegmentsContiguous'
    BY <1>17, <2>1, StatusOnly DEF Fail, content
  <2>3. JobsKept /\ WorkKept
    BY <1>3, <1>17 DEF Fail, VoicingSteps
  <2> QED
    BY <2>2, <2>3, KeptIsEnough
<1> QED
  BY <1>5, <1>6, <1>7, <1>8, <1>9, <1>10, <1>11, <1>12, <1>13, <1>14, <1>15, <1>16, <1>17
     DEF WorkerStep

\* A step that touches neither queue nor workers keeps both.
LEMMA SameWork ==
  ASSUME UNCHANGED <<jobs, work>>
  PROVE  JobsKept /\ WorkKept
BY DEF JobsKept, WorkKept, Same, Continues, InFlight, Running, Kind, Episode

\* A command that creates or resumes an episode.
LEMMA CarryInv ==
  ASSUME PipelineInv, TypeOK', NEW e \in Episodes, NEW k \in Stages, NEW s \in Statuses,
         status[e] = "unborn" \/ Exists(e),
         status' = [status EXCEPT ![e] = s],
         UNCHANGED <<work, content>>,
         UNCHANGED jobs \/ (Room /\ jobs' = Inserted(k, e)),
         HasInput(k, e)
  PROVE  PipelineInv'
<1>1. \A x \in Episodes : status'[x] = IF x = e THEN s ELSE status[x]
  BY DEF PipelineInv, TypeOK, RowsOK
<1>2. RowsKept /\ SegmentsContiguous'
  <2>1. s \notin {"unborn", "deleted"}
    BY DEF Statuses, Busy
  <2> QED
    BY <1>1, <2>1 DEF RowsKept, Exists, content, PipelineInv, SegmentsContiguous, Prefix
<1>3. JobsKept /\ \A i \in JobIds : Running(i)' => Running(i) /\ Same(i)
  <2>1. CASE UNCHANGED jobs
    BY <2>1, SameJobs
  <2>2. CASE Room /\ jobs' = Inserted(k, e)
    <3>1. status'[e] # "unborn" /\ HasInput(k, e)'
      BY <1>1 DEF Statuses, Busy, HasInput, content
    <3> QED
      BY <2>2, <3>1, InsertKeeps
  <2> QED
    BY <2>1, <2>2
<1>4. WorkKept
  BY <1>3 DEF WorkKept, Continues
<1> QED
  BY <1>2, <1>3, <1>4, KeptIsEnough

\* The rows of an episode go.
LEMMA DropKeeps ==
  ASSUME PipelineInv, NEW e \in Episodes, DropRows(e)
  PROVE  RowsKept /\ SegmentsContiguous'
<1>1. /\ status'[e] = "deleted" /\ rows'[e] = {}
      /\ \A x \in Episodes : x # e => /\ status'[x] = status[x] /\ docs'[x] = docs[x]
                                      /\ turns'[x] = turns[x]   /\ rows'[x] = rows[x]
  BY DEF DropRows, PipelineInv, TypeOK, RowsOK
<1> QED
  BY <1>1 DEF RowsKept, Exists, PipelineInv, SegmentsContiguous, Prefix

\* The operator's commands, the poll and the cleanup preserve the invariant.
LEMMA CommandInv ==
  ASSUME PipelineAssumption, PipelineInv, TypeOK',
         StopCommand \/ \E e \in Episodes : EpisodeCommand(e)
  PROVE  PipelineInv'
<1>1. RowsOK
  BY DEF PipelineInv, TypeOK
<1>2. ASSUME NEW e \in Episodes, Poll(e) \/ Retry(e) \/ Start(e)
      PROVE  PipelineInv'
  <2>1. /\ ResumeKind(e) \in Stages /\ "resolve_content" \in Stages
        /\ "queued" \in Statuses /\ \A k \in Stages : StageStatus(k) \in Statuses
    BY DEF ResumeKind, Stages, Statuses, Busy, StageStatus
  <2>2. HasInput(ResumeKind(e), e) /\ HasInput("resolve_content", e)
    <3>1. turns[e] \in Nat
      BY <1>1, <1>2 DEF RowsOK, PipelineAssumption
    <3> QED
      BY <3>1 DEF HasInput, ResumeKind
  <2>3. CASE Poll(e)
    BY <2>1, <2>2, <2>3, CarryInv DEF Poll
  <2>4. CASE Retry(e)
    BY <2>1, <2>2, <2>4, CarryInv DEF Retry, Exists
  <2>5. CASE Start(e)
    BY <2>1, <2>2, <2>5, CarryInv DEF Start, Exists
  <2> QED
    BY <1>2, <2>3, <2>4, <2>5
<1>3. ASSUME NEW e \in Episodes, SelectForDelete(e) \/ RollBackDelete(e)
      PROVE  PipelineInv'
  <2>1. UNCHANGED <<jobs, work, status, docs, turns, rows>>
    BY <1>3 DEF SelectForDelete, RollBackDelete, content
  <2> QED
    BY <2>1, SameRows, SameWork, KeptIsEnough
<1>4. ASSUME NEW e \in Episodes, CommitDelete(e) \/ Expire(e)
      PROVE  PipelineInv'
  <2>1. RowsKept /\ SegmentsContiguous'
    BY <1>4, DropKeeps, SameRows DEF CommitDelete, Expire, content
  <2>2. JobsKept /\ WorkKept
    BY <1>4, SameWork DEF CommitDelete, Expire
  <2> QED
    BY <2>1, <2>2, KeptIsEnough
<1>5. CASE StopList \/ StopAborts
  <2>1. UNCHANGED <<jobs, work, status, docs, turns, rows>>
    BY <1>5 DEF StopList, StopAborts, content
  <2> QED
    BY <2>1, SameRows, SameWork, KeptIsEnough
<1>6. CASE StopFail
  <2>1. \A e \in Episodes : /\ status'[e] = status[e] \/ status'[e] = "failed"
                            /\ status[e] = "unborn" => status'[e] = "unborn"
                            /\ Exists(e)' = Exists(e)
    BY <1>1, <1>6 DEF StopFail, RowsOK, Exists, Busy
  <2>2. RowsKept /\ SegmentsContiguous'
    BY <1>6, <2>1 DEF StopFail, content, RowsKept, PipelineInv, SegmentsContiguous, Prefix
  <2>3. JobsKept /\ WorkKept
    BY <1>6, SameWork DEF StopFail
  <2> QED
    BY <2>2, <2>3, KeptIsEnough
<1>7. ASSUME NEW j \in JobIds, StopCancel(j)
      PROVE  PipelineInv'
  <2>1. RequestCancel(j) /\ UNCHANGED <<work, status, docs, turns, rows>>
    BY <1>7 DEF StopCancel, content
  <2>2. JobsKept /\ \A i \in JobIds : InFlight(i)' => Same(i)
    BY <2>1, QueueKeeps
  <2>3. \A i \in JobIds : Running(i)' => Running(i)
    <3>1. \A i \in JobIds : Running(i)' => Running(i) \/ (i = j /\ Fetch(j))
      BY <2>1, QueueKeeps
    <3>2. CASE Running(j)
      BY <3>1, <3>2 DEF Fetch, Waiting, Running
    <3>3. CASE Finish(j)
      <4>1. jobs'[j] = FreeJob
        BY <3>3 DEF Finish, PipelineInv, TypeOK, JobsOK, JobsTypeOK
      <4> QED
        BY <3>1, <4>1 DEF FreeJob, Running
    <3> QED
      BY <2>1, <3>2, <3>3 DEF RequestCancel
  <2>4. WorkKept
    BY <2>1, <2>2, <2>3 DEF WorkKept, Continues, Running, InFlight
  <2> QED
    BY <2>1, <2>2, <2>4, SameRows, KeptIsEnough
<1> QED
  BY <1>2, <1>3, <1>4, <1>5, <1>6, <1>7 DEF StopCommand, EpisodeCommand, DeleteCommand

\* Queue, workers and rows agree in every reachable state: no job without the
\* input of its stage, no worker whose list leaves a gap, no gap in the
\* segments.  The invariant that Work, the commands and the queue keep together.
THEOREM InvHolds == Spec => []PipelineInv
<1>1. Init => PipelineInv
  <2> SUFFICES ASSUME Init PROVE PipelineInv
    OBVIOUS
  <2>1. TypeOK
    BY InitType, PipelineAssumption
  <2>2. \A j \in JobIds : ~InFlight(j) /\ ~Running(j)
    BY DEF Init, JobsInit, FreeJob, InFlight, Running
  <2>3. SegmentsContiguous
    BY DEF Init, SegmentsContiguous, Prefix
  <2> QED
    BY <2>1, <2>2, <2>3 DEF PipelineInv, JobsBorn, Voicing, StageInputs
<1>2. PipelineInv /\ [Next]_vars => PipelineInv'
  <2> SUFFICES ASSUME PipelineInv, [Next]_vars PROVE PipelineInv'
    OBVIOUS
  <2>1. TypeOK'
    BY TypeStep, PipelineAssumption DEF PipelineInv
  <2>2. CASE UNCHANGED vars
    BY <2>1, <2>2, SameRows, SameWork, KeptIsEnough DEF vars
  <2>3. CASE Next
    BY <2>1, <2>3, PipelineAssumption, QueueInv, WorkerInv, CommandInv DEF Next, JobStep
  <2> QED
    BY <2>2, <2>3
<1> QED
  BY <1>1, <1>2, PTL DEF Spec

\* No worker ever finds the input of its stage missing while the episode
\* exists: "no documents" and "no script turns" are unreachable.
THEOREM InputsStored == Spec => []StageInputs
<1>1. PipelineInv => StageInputs
  BY DEF PipelineInv
<1> QED
  BY <1>1, InvHolds, PTL

\* compose_episode never meets a gap in the segment positions, however many
\* workers voice the episode, with whatever scripts.
THEOREM NoGap == Spec => []SegmentsContiguous
<1>1. PipelineInv => SegmentsContiguous
  BY DEF PipelineInv
<1> QED
  BY <1>1, InvHolds, PTL

-----------------------------------------------------------------------------
(* What a step touches *)

\* A worker's step touches no other worker, and no other job but one it
\* inserts when it is done.
Steps(j) ==
  /\ Running(j) /\ UNCHANGED stop
  /\ \A i \in JobIds : i # j => work'[i] = work[i]
  /\ work'[j].pc # "idle"

Alone(j) == Steps(j) /\ UNCHANGED jobs

\* A stage's closing transaction.
Closes(j) == StoreDocuments(j) \/ StoreScript(j) \/ FinishTTS(j)

\* f is a new job of kind k for e.
Inserts(f, k, e) ==
  /\ f \in JobIds /\ ~InFlight(f)
  /\ jobs'[f] = NewJob(k, e)
  /\ \A i \in JobIds : i # f => jobs'[i] = jobs[i]

LEMMA InsertsOne ==
  ASSUME JobsTypeOK, Room, NEW k \in Stages, NEW e \in Episodes, jobs' = Inserted(k, e)
  PROVE  \E f \in JobIds : Inserts(f, k, e)
<1>1. Inserts(FreeId, k, e) /\ FreeId \in JobIds
  BY InsertedFacts DEF Inserts, InFlight
<1> QED
  BY <1>1

\* A worker that moves on, or has read something, steps alone ...
LEMMA GoesAlone ==
  ASSUME TypeOK, NEW j \in JobIds, Running(j), UNCHANGED <<jobs, stop>>, NEW w, w.pc # "idle",
         work' = [work EXCEPT ![j] = w]
  PROVE  Alone(j) /\ work'[j] = w
BY DEF TypeOK, Alone, Steps

LEMMA MovesAlone ==
  ASSUME TypeOK, NEW j \in JobIds, Running(j), UNCHANGED <<jobs, stop>>, NEW pc, pc # "idle",
         Goto(j, pc)
  PROVE  /\ Alone(j) /\ work'[j].pc = pc
         /\ work'[j].ver = work[j].ver /\ work'[j].todo = work[j].todo
         /\ work'[j].audio = work[j].audio
BY DEF TypeOK, WorkType, Goto, Alone, Steps

\* ... and one that is done hands over to the job it inserts.
LEMMA HandsOver ==
  ASSUME TypeOK, NEW j \in JobIds, Running(j), UNCHANGED stop, NEW s, NEW k \in Stages,
         Advance(j, s, k)
  PROVE  /\ Steps(j) /\ work'[j].pc = "ok"
         /\ \E f \in JobIds : Inserts(f, k, Episode(j))
<1>1. Episode(j) \in Episodes /\ JobsTypeOK /\ work \in [JobIds -> WorkType]
  BY DEF TypeOK, JobsOK, Running, InFlight
<1>2. \E f : Inserts(f, k, Episode(j))
  BY <1>1, InsertsOne DEF Advance
<1>3. Steps(j) /\ work'[j].pc = "ok"
  BY <1>1 DEF Advance, Goto, Steps, WorkType
<1> QED
  BY <1>2, <1>3 DEF Inserts

\* What a status update does.
LEMMA SetsOne ==
  ASSUME TypeOK, NEW e \in Episodes, NEW s, SetStatus(e, s)
  PROVE  /\ \A x \in Episodes : x # e => status'[x] = status[x]
         /\ status'[e] = IF Exists(e) THEN s ELSE status[e]
BY DEF TypeOK, RowsOK, SetStatus

LEMMA ClosesShape ==
  ASSUME TypeOK, NEW j \in JobIds, Closes(j)
  PROVE  /\ Steps(j) /\ work'[j].pc = "ok" /\ Episode(j) \in Episodes
         /\ \E s \in {"content_ready", "script_ready", "composing"}, k \in Stages, f \in JobIds :
              SetStatus(Episode(j), s) /\ Inserts(f, k, Episode(j))
<1>1. /\ Running(j) /\ UNCHANGED stop
      /\ \E s \in {"content_ready", "script_ready", "composing"}, k \in Stages : Advance(j, s, k)
  BY DEF Closes, StoreDocuments, StoreScript, FinishTTS, At, commands, Stages
<1>2. PICK s \in {"content_ready", "script_ready", "composing"}, k \in Stages : Advance(j, s, k)
  BY <1>1
<1>3. Episode(j) \in Episodes
  BY <1>1 DEF TypeOK, JobsOK, Running, InFlight
<1> QED
  BY <1>1, <1>2, <1>3, HandsOver DEF Advance

\* Any other step a worker takes alone.
LEMMA WorkerShape ==
  ASSUME TypeOK, NEW j \in JobIds, WorkerStep(j), ~Closes(j)
  PROVE  Alone(j)
<1>1. ASSUME NEW permanent \in BOOLEAN, Fail(j, permanent)
      PROVE  Alone(j)
  BY <1>1, MovesAlone DEF Fail, Attended, commands
<1>2. CASE MarkStage(j) \/ MarkFails(j) \/ PutSegment(j) \/ PutMedia(j) \/ Publish(j)
           \/ FailUnrecorded(j)
  BY <1>2, MovesAlone DEF MarkStage, MarkFails, PutSegment, PutMedia, Publish, FailUnrecorded,
                          At, Attended, commands
<1>3. CASE LoadTurns(j) \/ SkipExisting(j) \/ RecordSegment(j) \/ ReadSegments(j)
  <2>1. /\ Running(j) /\ UNCHANGED <<jobs, stop>>
        /\ \E w : w.pc # "idle" /\ work' = [work EXCEPT ![j] = w]
    BY <1>3 DEF LoadTurns, SkipExisting, RecordSegment, ReadSegments, At, Reached, commands
  <2> QED
    BY <2>1, GoesAlone
<1> QED
  BY <1>1, <1>2, <1>3 DEF WorkerStep, Closes

\* The poll and the operator's commands on episodes insert one job or none.
LEMMA CommandShape ==
  ASSUME PipelineAssumption, TypeOK, NEW e \in Episodes, EpisodeCommand(e)
  PROVE  /\ UNCHANGED <<work, stop>>
         /\ UNCHANGED jobs \/ \E f \in JobIds, k \in Stages : Inserts(f, k, e)
<1>1. UNCHANGED <<work, stop>>
  BY DEF EpisodeCommand, Poll, Retry, Start, DeleteCommand, SelectForDelete, CommitDelete,
         RollBackDelete, Expire, commands
<1>2. UNCHANGED jobs \/ \E k \in Stages : Room /\ jobs' = Inserted(k, e)
  <2>1. CASE Poll(e)
    BY <2>1 DEF Poll, Stages
  <2>2. CASE Retry(e) \/ Start(e)
    BY <2>2 DEF Retry, Start, ResumeKind, Stages
  <2>3. CASE DeleteCommand(e) \/ Expire(e)
    BY <2>3 DEF DeleteCommand, SelectForDelete, CommitDelete, RollBackDelete, Expire
  <2> QED
    BY <2>1, <2>2, <2>3 DEF EpisodeCommand
<1> QED
  BY <1>1, <1>2, InsertsOne DEF TypeOK, JobsOK, Inserts

\* What the commands on an episode do to its status, and when they insert.
LEMMA CommandStatus ==
  ASSUME TypeOK, NEW e \in Episodes, EpisodeCommand(e)
  PROVE  /\ \A x \in Episodes : x # e => status'[x] = status[x]
         /\ \/ UNCHANGED jobs /\ status'[e] \in {status[e], "deleted"}
            \/ UNCHANGED jobs /\ status[e] = "unborn" /\ e \in PollOnly /\ status'[e] = "queued"
            \/ /\ status[e] = "unborn" /\ e \notin PollOnly /\ status'[e] = "queued"
               /\ \E f \in JobIds : Inserts(f, "resolve_content", e)
            \/ /\ "retry" \in Events /\ status[e] = "failed" /\ status'[e] = "queued"
               /\ \E f \in JobIds : Inserts(f, ResumeKind(e), e)
            \/ /\ "start" \in Events /\ e \in PollOnly /\ status[e] \in {"queued", "failed"}
               /\ \E k \in Stages, f \in JobIds :
                    /\ k = IF status[e] = "queued" THEN "resolve_content" ELSE ResumeKind(e)
                    /\ status'[e] = StageStatus(k) /\ Inserts(f, k, e)
<1>1. status \in [Episodes -> Statuses \cup {"unborn", "deleted"}] /\ JobsTypeOK
  BY DEF TypeOK, RowsOK, JobsOK
<1>2. ResumeKind(e) \in Stages /\ "resolve_content" \in Stages
  BY DEF ResumeKind, Stages
<1>3. ASSUME NEW k \in Stages, Room, jobs' = Inserted(k, e)
      PROVE  \E f \in JobIds : Inserts(f, k, e)
  BY <1>1, <1>3, InsertsOne DEF Inserts
<1>4. CASE Poll(e)
  BY <1>1, <1>2, <1>3, <1>4 DEF Poll
<1>5. CASE Retry(e)
  BY <1>1, <1>2, <1>3, <1>5 DEF Retry
<1>6. CASE Start(e)
  <2> DEFINE k == IF status[e] = "queued" THEN "resolve_content" ELSE ResumeKind(e)
  <2>1. /\ "start" \in Events /\ e \in PollOnly /\ status[e] \in {"queued", "failed"} /\ Room
        /\ jobs' = Inserted(k, e) /\ status' = [status EXCEPT ![e] = StageStatus(k)]
    BY <1>6 DEF Start
  <2>2. k \in Stages
    BY <1>2
  <2> HIDE DEF k
  <2>3. \E f \in JobIds : Inserts(f, k, e)
    BY <1>3, <2>1, <2>2
  <2>4. /\ status'[e] = StageStatus(k)
        /\ \A x \in Episodes : x # e => status'[x] = status[x]
    BY <1>1, <2>1
  <2> QED
    BY <2>1, <2>2, <2>3, <2>4 DEF k
<1>7. CASE SelectForDelete(e) \/ RollBackDelete(e)
  BY <1>7 DEF SelectForDelete, RollBackDelete
<1>8. CASE CommitDelete(e) \/ Expire(e)
  BY <1>1, <1>8 DEF CommitDelete, Expire, DropRows
<1> QED
  BY <1>4, <1>5, <1>6, <1>7, <1>8 DEF EpisodeCommand, DeleteCommand

-----------------------------------------------------------------------------
(* An episode that waits for a listener *)

\* The inductive invariant behind ListenerQueueIsIdle.
IdleInv == \A e \in PollOnly : status[e] = "queued" => \A j \in JobIds : InFlight(j) => Episode(j) # e

\* A step after which no job works on an episode that waits.
LEMMA IdleFrame ==
  ASSUME IdleInv,
         \A x \in PollOnly : status'[x] = "queued" =>
           status[x] = "queued" \/ \A i \in JobIds : InFlight(i) => Episode(i) # x,
         \A i \in JobIds : InFlight(i)' =>
           \/ InFlight(i) /\ Episode(i)' = Episode(i)
           \/ Episode(i)' \notin PollOnly
           \/ status'[Episode(i)'] # "queued"
  PROVE  IdleInv'
BY DEF IdleInv

LEMMA IdleStep ==
  ASSUME PipelineAssumption, "retry" \notin Events, PipelineInv, IdleInv, [Next]_vars
  PROVE  IdleInv'
<1>1. /\ TypeOK /\ JobsBorn
      /\ PollOnly \subseteq Episodes
      /\ status \in [Episodes -> Statuses \cup {"unborn", "deleted"}]
  BY DEF PipelineInv, TypeOK, RowsOK, PipelineAssumption
<1>2. ASSUME \A i \in JobIds : InFlight(i)' => Same(i),
             \A x \in Episodes : status'[x] = "queued" => status[x] = "queued"
      PROVE  IdleInv'
  BY <1>1, <1>2, IdleFrame DEF Same
<1>3. ASSUME UNCHANGED jobs
      PROVE  \A i \in JobIds : InFlight(i)' => Same(i)
  BY <1>3 DEF Same, InFlight, Kind, Episode
<1>4. ASSUME NEW e \in Episodes, NEW k, NEW f \in JobIds, Inserts(f, k, e),
             \A x \in Episodes : x # e => status'[x] = status[x],
             e \notin PollOnly \/ status'[e] # "queued"
      PROVE  IdleInv'
  <2>1. Episode(f)' = e /\ \A i \in JobIds : i # f => jobs'[i] = jobs[i]
    BY <1>4 DEF Inserts, NewJob, Episode
  <2>2. \A i \in JobIds : i # f /\ InFlight(i)' => InFlight(i) /\ Episode(i)' = Episode(i)
    BY <2>1 DEF InFlight, Episode
  <2> QED
    BY <1>1, <1>4, <2>1, <2>2, IdleFrame
<1>5. ASSUME NEW j \in JobIds, QueueStep(j) \/ Disturbance(j)
      PROVE  IdleInv'
  <2>1. /\ UNCHANGED status
        /\ \/ Fetch(j) \/ Die(j) \/ Rescue(j) \/ InterruptBySoftStop(j) \/ DeliverCancel(j)
           \/ Running(j) /\ RecordError(j)
           \/ Finish(j)
    BY <1>5 DEF QueueStep, Disturbance, Take, Record, RescueStuck, Crash, SoftStop, HearCancel,
                Attended
  <2> QED
    BY <1>2, <2>1, QueueKeeps
<1>6. ASSUME NEW j \in JobIds, WorkerStep(j)
      PROVE  IdleInv'
  <2>0. PICK e : e = Episode(j)
    OBVIOUS
  <2>1. Running(j) /\ InFlight(j) /\ e \in Episodes
    BY <1>1, <1>6, <2>0 DEF WorkerStep, MarkStage, MarkFails, StoreDocuments, StoreScript, LoadTurns,
       SkipExisting, PutSegment, RecordSegment, FinishTTS, ReadSegments, PutMedia, Publish, Fail,
       FailUnrecorded, At, Attended, TypeOK, JobsOK, Running, InFlight
  <2>2. CASE Closes(j)
    <3>1. PICK s \in {"content_ready", "script_ready", "composing"}, k \in Stages, f \in JobIds :
            SetStatus(e, s) /\ Inserts(f, k, e)
      BY <1>1, <2>0, <2>2, ClosesShape
    <3>2. /\ \A x \in Episodes : x # e => status'[x] = status[x]
          /\ status'[e] = IF Exists(e) THEN s ELSE status[e]
      BY <1>1, <2>1, <3>1, SetsOne
    <3>3. status'[e] # "queued"
      BY <3>2 DEF Exists
    <3> QED
      BY <1>4, <2>1, <3>1, <3>2, <3>3
  <2>3. CASE ~Closes(j)
    <3>1. UNCHANGED jobs
      BY <1>1, <1>6, <2>3, WorkerShape DEF Alone
    <3>2. UNCHANGED status \/ \E s : s # "queued" /\ SetStatus(e, s)
      BY <1>6, <2>0, <2>3 DEF WorkerStep, Closes, MarkStage, MarkFails, LoadTurns, SkipExisting,
         PutSegment, RecordSegment, ReadSegments, PutMedia, Publish, Fail, FailUnrecorded,
         AttemptStatus, StageStatus
    <3>3. \A x \in Episodes : status'[x] = "queued" => status[x] = "queued"
      BY <1>1, <2>1, <3>2, SetsOne
    <3> QED
      BY <1>2, <1>3, <3>1, <3>3
  <2> QED
    BY <2>2, <2>3
<1>7. ASSUME NEW e \in Episodes, EpisodeCommand(e)
      PROVE  IdleInv'
  <2>1. \A x \in Episodes : x # e => status'[x] = status[x]
    BY <1>1, <1>7, CommandStatus
  <2>2. CASE UNCHANGED jobs /\ status'[e] \in {status[e], "deleted"}
    BY <1>2, <1>3, <2>1, <2>2
  <2>3. CASE UNCHANGED jobs /\ status[e] = "unborn" /\ e \in PollOnly /\ status'[e] = "queued"
    <3>1. \A i \in JobIds : InFlight(i) => Episode(i) # e
      BY <1>1, <2>3 DEF JobsBorn
    <3>2. \A i \in JobIds : InFlight(i)' => InFlight(i) /\ Episode(i)' = Episode(i)
      BY <2>3 DEF InFlight, Episode
    <3> QED
      BY <1>1, <2>1, <3>1, <3>2, IdleFrame
  <2>4. CASE e \notin PollOnly /\ \E f \in JobIds : Inserts(f, "resolve_content", e)
    BY <1>4, <2>1, <2>4
  <2>5. CASE \E k \in Stages, f \in JobIds : status'[e] = StageStatus(k) /\ Inserts(f, k, e)
    <3>1. status'[e] # "queued"
      BY <2>5 DEF StageStatus
    <3> QED
      BY <1>4, <2>1, <2>5, <3>1
  <2> QED
    BY <1>1, <1>7, <2>2, <2>3, <2>4, <2>5, CommandStatus
<1>8. CASE StopCommand
  <2>1. ASSUME NEW j \in JobIds, StopCancel(j)
        PROVE  IdleInv'
    BY <1>2, <2>1, QueueKeeps DEF StopCancel
  <2>2. CASE StopList \/ StopAborts \/ StopFail
    <3>1. \A x \in Episodes : status'[x] = "queued" => status[x] = "queued"
      BY <2>2 DEF StopList, StopAborts, StopFail
    <3>2. UNCHANGED jobs
      BY <2>2 DEF StopList, StopAborts, StopFail
    <3> QED
      BY <1>2, <1>3, <3>1, <3>2
  <2> QED
    BY <1>8, <2>1, <2>2 DEF StopCommand
<1>9. CASE UNCHANGED vars
  BY <1>2, <1>3, <1>9 DEF vars
<1> QED
  BY <1>5, <1>6, <1>7, <1>8, <1>9 DEF Next, JobStep

\* A poll-only episode that is shown as queued has no job behind it, so that a
\* listener's start finds nothing that it would double: the poll stores it
\* without a job, and start marks it before it leaves the status "queued".
\* Only the operator's retry breaks this, and only retry: crashes, shutdowns,
\* the stop command and deletions do not.
THEOREM ListenersWait == "retry" \notin Events => (Spec => []ListenerQueueIsIdle)
<1> SUFFICES ASSUME "retry" \notin Events PROVE Spec => []ListenerQueueIsIdle
  OBVIOUS
<1>1. Init => IdleInv
  BY PipelineAssumption DEF Init, IdleInv, PipelineAssumption
<1>2. PipelineInv /\ IdleInv /\ [Next]_vars => IdleInv'
  BY PipelineAssumption, IdleStep
<1>3. IdleInv => ListenerQueueIsIdle
  BY DEF IdleInv, ListenerQueueIsIdle, WillRun
<1> QED
  BY <1>1, <1>2, <1>3, InvHolds, PTL DEF Spec
-----------------------------------------------------------------------------
(* Stored objects *)

\* What a worker stores next, or has just stored, is not empty.
Audible(j) ==
  /\ work[j].pc \in VoicingSteps => work[j].ver > 0
  /\ work[j].pc = "record" => \A p \in Positions : FirstTodo(j, p) => objs[Episode(j)][p] # 0
  /\ work[j].pc = "upload" => work[j].audio # Silence
  /\ work[j].pc = "publish" => media[Episode(j)] # Silence

\* The inductive invariant behind SegmentObjectsExist and LinkedAudioExists.
ObjectsInv ==
  /\ SegmentObjectsExist /\ LinkedAudioExists
  /\ \A e \in Episodes : ~deleting[e].on /\ (turns[e] > 0 => script[e] > 0)
  /\ \A j \in JobIds : Running(j) => Audible(j)

\* Nothing is taken out of the object store.
Lasting ==
  /\ UNCHANGED deleting
  /\ \A e \in Episodes : /\ \A p \in Positions : objs[e][p] # 0 => objs'[e][p] # 0
                         /\ media[e] # Silence => media'[e] # Silence

\* A worker that has not moved still has what it needs.
LEMMA AudibleStays ==
  ASSUME Lasting, NEW i, Running(i) => Audible(i) /\ Episode(i) \in Episodes,
         Running(i)' => Running(i) /\ work'[i] = work[i] /\ Episode(i)' = Episode(i)
  PROVE  Running(i)' => Audible(i)'
<1> SUFFICES ASSUME Running(i)' PROVE Audible(i)'
  OBVIOUS
<1>1. /\ work'[i] = work[i] /\ Episode(i)' = Episode(i) /\ Audible(i) /\ Episode(i) \in Episodes
      /\ \A p : FirstTodo(i, p)' = FirstTodo(i, p)
  BY DEF FirstTodo
<1> QED
  BY <1>1 DEF Audible, Lasting

\* A step of one worker, or of none, that removes no object.
LEMMA ObjectsFrame ==
  ASSUME TypeOK, ObjectsInv, Lasting, NEW j,
         \A i \in JobIds : i # j /\ Running(i)' =>
           Running(i) /\ work'[i] = work[i] /\ Episode(i)' = Episode(i),
         j \in JobIds /\ Running(j)' => Audible(j)',
         \A e \in Episodes :
           /\ turns'[e] > 0 => script'[e] > 0
           /\ \A p \in rows'[e] \ rows[e] : objs'[e][p] # 0
           /\ linked'[e] /\ ~linked[e] => media'[e] # Silence
  PROVE  ObjectsInv'
<1>1. \A i \in JobIds : Running(i) => Episode(i) \in Episodes
  BY DEF TypeOK, JobsOK, Running, InFlight
<1>2. \A i \in JobIds : Running(i)' => Audible(i)'
  BY <1>1, AudibleStays DEF ObjectsInv
<1>3. \A e \in Episodes : rows[e] \subseteq Positions
  BY DEF TypeOK, RowsOK
<1>4. SegmentObjectsExist' /\ LinkedAudioExists'
  BY <1>3 DEF ObjectsInv, SegmentObjectsExist, LinkedAudioExists, Lasting
<1> QED
  BY <1>2, <1>4 DEF ObjectsInv, Lasting

\* A worker that voices or composes.
LEMMA VoiceObjects ==
  ASSUME PipelineAssumption, TypeOK, ObjectsInv, NEW j \in JobIds,
         LoadTurns(j) \/ SkipExisting(j) \/ PutSegment(j) \/ RecordSegment(j)
  PROVE  ObjectsInv'
<1>0. PICK e : e = Episode(j)
  OBVIOUS
<1>1. /\ Running(j) /\ UNCHANGED <<jobs, turns, script, linked, media, deleting>>
  BY DEF LoadTurns, SkipExisting, PutSegment, RecordSegment, At, content, objects, commands
<1>2. /\ e \in Episodes /\ Audible(j) /\ work \in [JobIds -> WorkType] /\ RowsOK /\ ObjectsOK
      /\ turns[e] > 0 => script[e] > 0
      /\ Running(j)' /\ Episode(j)' = e
  BY <1>0, <1>1 DEF TypeOK, JobsOK, Running, InFlight, ObjectsInv, Episode
<1>3. \A i \in JobIds : i # j => work'[i] = work[i]
  BY <1>2 DEF LoadTurns, SkipExisting, PutSegment, RecordSegment, Goto
<1>4. ASSUME Lasting, Audible(j)',
             \A x \in Episodes : \A p \in rows'[x] \ rows[x] : objs'[x][p] # 0
      PROVE  ObjectsInv'
  <2>1. \A i \in JobIds : i # j /\ Running(i)' =>
          Running(i) /\ work'[i] = work[i] /\ Episode(i)' = Episode(i)
    BY <1>1, <1>3 DEF Running, Episode
  <2>2. \A x \in Episodes : (turns'[x] > 0 => script'[x] > 0) /\ linked'[x] = linked[x]
    BY <1>1 DEF ObjectsInv
  <2> QED
    BY <1>4, <2>1, <2>2, ObjectsFrame
<1>5. CASE LoadTurns(j)
  <2>1. work'[j] = Reached("existing", script[e], Wanted(e, turns[e]), Silence) /\ turns[e] > 0
    BY <1>0, <1>2, <1>5 DEF LoadTurns
  <2>2. work'[j].pc = "existing" /\ work'[j].ver = script[e]
    BY <2>1 DEF Reached
  <2>3. Audible(j)'
    BY <1>2, <2>1, <2>2 DEF Audible, VoicingSteps
  <2>4. Lasting /\ UNCHANGED rows
    BY <1>1, <1>5 DEF LoadTurns, Lasting, objects, content
  <2> QED
    BY <1>4, <2>3, <2>4
<1>6. CASE SkipExisting(j)
  <2>1. /\ work'[j] = Reached("voice", work[j].ver, work[j].todo \ rows[e], Silence)
        /\ work[j].pc = "existing"
    BY <1>0, <1>2, <1>6 DEF SkipExisting, At
  <2>2. work'[j].pc = "voice" /\ work'[j].ver = work[j].ver
    BY <2>1 DEF Reached
  <2>3. Audible(j)'
    BY <1>2, <2>1, <2>2 DEF Audible, VoicingSteps
  <2>4. Lasting /\ UNCHANGED rows
    BY <1>1, <1>6 DEF SkipExisting, Lasting, objects, content
  <2> QED
    BY <1>4, <2>3, <2>4
<1>7. CASE PutSegment(j)
  <2>1. PICK p \in Positions : FirstTodo(j, p) /\ objs' = [objs EXCEPT ![e][p] = work[j].ver]
    BY <1>0, <1>7 DEF PutSegment
  <2>2. Goto(j, "record") /\ work[j].pc = "voice" /\ UNCHANGED <<rows, media>>
    BY <1>7 DEF PutSegment, At, content
  <2>3. /\ work'[j].pc = "record" /\ work'[j].ver = work[j].ver /\ work'[j].todo = work[j].todo
        /\ work[j].ver # 0 /\ work[j].ver > 0
    BY <1>2, <2>2 DEF Goto, WorkType, Audible, VoicingSteps
  <2>4. /\ objs'[e][p] = work[j].ver
        /\ \A x \in Episodes, q \in Positions : objs'[x][q] \in {objs[x][q], work[j].ver}
    BY <1>2, <2>1 DEF ObjectsOK, Parts
  <2>5. Lasting
    BY <1>1, <2>2, <2>3, <2>4 DEF Lasting
  <2>6. \A q \in Positions : FirstTodo(j, q)' => q = p
    BY <2>1, <2>3, PositionFacts DEF FirstTodo
  <2>7. Audible(j)'
    BY <1>2, <2>3, <2>4, <2>6 DEF Audible, VoicingSteps
  <2> QED
    BY <1>4, <2>2, <2>5, <2>7
<1>8. CASE RecordSegment(j)
  <2>1. PICK p \in Positions :
          /\ FirstTodo(j, p)
          /\ rows' = [rows EXCEPT ![e] = @ \cup {p}]
          /\ work' = [work EXCEPT ![j] = Reached("voice", @.ver, @.todo \ {p}, Silence)]
    BY <1>0, <1>8 DEF RecordSegment
  <2>2. work[j].pc = "record" /\ UNCHANGED <<objs, media>>
    BY <1>8 DEF RecordSegment, At, objects
  <2>3. work'[j].pc = "voice" /\ work'[j].ver = work[j].ver
    BY <1>2, <2>1 DEF Reached
  <2>4. objs[e][p] # 0 /\ work[j].ver > 0
    BY <1>0, <1>2, <2>1, <2>2 DEF Audible, VoicingSteps
  <2>5. Audible(j)' /\ Lasting
    BY <1>1, <2>2, <2>3, <2>4 DEF Audible, VoicingSteps, Lasting
  <2>6. \A x \in Episodes : \A q \in rows'[x] \ rows[x] : x = e /\ q = p
    BY <1>2, <2>1 DEF RowsOK
  <2> QED
    BY <1>4, <2>2, <2>4, <2>5, <2>6
<1> QED
  BY <1>5, <1>6, <1>7, <1>8

LEMMA ComposeObjects ==
  ASSUME PipelineAssumption, TypeOK, ObjectsInv, NEW j \in JobIds,
         ReadSegments(j) \/ PutMedia(j) \/ Publish(j)
  PROVE  ObjectsInv'
<1>0. PICK e : e = Episode(j)
  OBVIOUS
<1>1. /\ Running(j) /\ UNCHANGED <<jobs, docs, turns, script, rows, objs, deleting>>
  BY DEF ReadSegments, PutMedia, Publish, At, content, objects, commands
<1>2. /\ e \in Episodes /\ Audible(j) /\ work \in [JobIds -> WorkType] /\ RowsOK /\ ObjectsOK
      /\ Running(j)' /\ Episode(j)' = e
  BY <1>0, <1>1 DEF TypeOK, JobsOK, Running, InFlight, ObjectsInv, Episode
<1>3. \A i \in JobIds : i # j => work'[i] = work[i]
  BY <1>2 DEF ReadSegments, PutMedia, Publish, Goto
<1>4. ASSUME Lasting, Audible(j)',
             \A x \in Episodes : linked'[x] /\ ~linked[x] => media'[x] # Silence
      PROVE  ObjectsInv'
  <2>1. \A i \in JobIds : i # j /\ Running(i)' =>
          Running(i) /\ work'[i] = work[i] /\ Episode(i)' = Episode(i)
    BY <1>1, <1>3 DEF Running, Episode
  <2>2. \A x \in Episodes : (turns'[x] > 0 => script'[x] > 0) /\ rows'[x] = rows[x]
    BY <1>1 DEF ObjectsInv
  <2> QED
    BY <1>4, <2>1, <2>2, ObjectsFrame
<1>5. CASE ReadSegments(j)
  <2> DEFINE audio == [p \in Positions |-> IF p \in rows[e] THEN objs[e][p] ELSE 0]
  <2>1. /\ rows[e] # {} /\ \A p \in rows[e] : objs[e][p] # 0
        /\ work'[j] = Reached("upload", 0, {}, audio)
        /\ UNCHANGED <<linked, media>>
    BY <1>0, <1>2, <1>5 DEF ReadSegments, content, objects
  <2>2. work'[j].pc = "upload" /\ work'[j].audio = audio
    BY <2>1 DEF Reached
  <2>3. PICK p \in Positions : p \in rows[e]
    BY <1>2, <2>1 DEF RowsOK
  <2>4. audio # Silence
    <3>1. audio[p] # 0 /\ Silence[p] = 0
      BY <2>1, <2>3 DEF Silence
    <3> QED
      BY <3>1
  <2>5. Audible(j)' /\ Lasting
    BY <1>1, <2>1, <2>2, <2>4 DEF Audible, VoicingSteps, Lasting, Silence, Positions
  <2> QED
    BY <1>4, <2>1, <2>5
<1>6. CASE PutMedia(j)
  <2>1. /\ media' = [media EXCEPT ![e] = work[j].audio] /\ Goto(j, "publish")
        /\ work[j].pc = "upload" /\ UNCHANGED linked
    BY <1>0, <1>6 DEF PutMedia, At, content
  <2>2. /\ work'[j].pc = "publish" /\ work[j].audio # Silence /\ media'[e] = work[j].audio
        /\ \A x \in Episodes : x # e => media'[x] = media[x]
    BY <1>2, <2>1 DEF Goto, WorkType, Audible, ObjectsOK
  <2>3. Silence' = Silence
    BY DEF Silence
  <2>4. Audible(j)' /\ Lasting
    BY <1>1, <1>2, <2>2, <2>3 DEF Audible, VoicingSteps, Lasting
  <2> QED
    BY <1>4, <2>1, <2>4
<1>7. CASE Publish(j)
  <2>1. /\ linked' = [linked EXCEPT ![e] = @ \/ Exists(e)] /\ UNCHANGED media
        /\ Goto(j, "ok") /\ work[j].pc = "publish"
    BY <1>0, <1>7 DEF Publish, At, objects
  <2>2. work'[j].pc = "ok" /\ media[e] # Silence
    BY <1>0, <1>2, <2>1 DEF Goto, WorkType, Audible
  <2>3. Audible(j)' /\ Lasting
    BY <1>1, <2>1, <2>2 DEF Audible, VoicingSteps, Lasting
  <2>4. \A x \in Episodes : x # e => linked'[x] = linked[x]
    BY <1>2, <2>1 DEF RowsOK
  <2> QED
    BY <1>4, <2>1, <2>2, <2>3, <2>4
<1> QED
  BY <1>5, <1>6, <1>7

\* Any other step leaves the objects and the segments alone.
LEMMA QuietObjects ==
  ASSUME TypeOK, ObjectsInv, UNCHANGED <<turns, script, rows, linked, objs, media, deleting>>,
         NEW j,
         \A i \in JobIds : i # j /\ Running(i)' =>
           Running(i) /\ work'[i] = work[i] /\ Episode(i)' = Episode(i),
         j \in JobIds /\ Running(j)' =>
           work'[j].pc \notin VoicingSteps \cup {"upload", "publish"}
  PROVE  ObjectsInv'
<1>1. Lasting
  BY DEF Lasting
<1>2. j \in JobIds /\ Running(j)' => Audible(j)'
  BY DEF Audible, VoicingSteps
<1>3. \A x \in Episodes : turns'[x] > 0 => script'[x] > 0
  BY DEF ObjectsInv
<1> QED
  BY <1>1, <1>2, <1>3, ObjectsFrame

\* A stage that closes without an object: documents, a script, the last segment.
LEMMA CloseObjects ==
  ASSUME PipelineAssumption, TypeOK, ObjectsInv, NEW j \in JobIds, Closes(j)
  PROVE  ObjectsInv'
<1>1. /\ Steps(j) /\ work'[j].pc = "ok"
      /\ \E k \in Stages, f \in JobIds : Inserts(f, k, Episode(j))
  BY ClosesShape
<1>2. PICK k \in Stages, f \in JobIds : Inserts(f, k, Episode(j))
  BY <1>1
<1>3. \A i \in JobIds : i # j /\ Running(i)' =>
        Running(i) /\ work'[i] = work[i] /\ Episode(i)' = Episode(i)
  <2>1. ~Running(f)' /\ \A i \in JobIds : i # f => jobs'[i] = jobs[i]
    BY <1>2 DEF Inserts, NewJob, Running
  <2> QED
    BY <1>1, <2>1 DEF Steps, Running, Episode
<1>4. UNCHANGED <<rows, linked, objs, media, deleting>>
  BY DEF Closes, StoreDocuments, StoreScript, FinishTTS, content, objects, commands
<1>5. Lasting /\ (Running(j)' => Audible(j)')
  BY <1>1, <1>4 DEF Lasting, Audible, VoicingSteps
<1>6. \A x \in Episodes : turns'[x] > 0 => script'[x] > 0
  <2>1. CASE StoreDocuments(j) \/ FinishTTS(j)
    BY <2>1 DEF StoreDocuments, FinishTTS, content, ObjectsInv
  <2>2. CASE StoreScript(j)
    <3>1. script' = [script EXCEPT ![Episode(j)] = @ + 1]
      BY <2>2 DEF StoreScript
    <3>2. \E n \in 1..MaxTurns : turns' = [turns EXCEPT ![Episode(j)] = n]
      BY <2>2 DEF StoreScript
    <3>3. /\ turns \in [Episodes -> 0..MaxTurns] /\ script \in [Episodes -> 0..MaxScripts]
          /\ MaxTurns \in Nat /\ MaxScripts \in Nat
      BY DEF TypeOK, RowsOK, PipelineAssumption
    <3>4. \A x \in Episodes : x # Episode(j) => turns'[x] = turns[x] /\ script'[x] = script[x]
      BY <3>1, <3>2, <3>3
    <3>5. \A x \in Episodes : x = Episode(j) => script'[x] = script[x] + 1 /\ script[x] \in Nat
      BY <3>1, <3>3
    <3> QED
      BY <3>4, <3>5 DEF ObjectsInv
  <2> QED
    BY <2>1, <2>2 DEF Closes
<1> QED
  BY <1>3, <1>4, <1>5, <1>6, ObjectsFrame

\* The rows of an episode go, by the cleanup; nothing is left to point at the
\* objects that stay behind.
LEMMA ExpireObjects ==
  ASSUME TypeOK, ObjectsInv, NEW e \in Episodes, Expire(e)
  PROVE  ObjectsInv'
<1>1. UNCHANGED <<jobs, work, objs, media, script, deleting>>
  BY DEF Expire, DropRows, objects, commands
<1>2. /\ turns'[e] = 0 /\ rows'[e] = {} /\ linked'[e] = FALSE
      /\ \A x \in Episodes : x # e =>
           turns'[x] = turns[x] /\ rows'[x] = rows[x] /\ linked'[x] = linked[x]
  BY DEF Expire, DropRows, TypeOK, RowsOK
<1>3. \A i \in JobIds : Running(i)' =>
        Running(i) /\ work'[i] = work[i] /\ Episode(i)' = Episode(i)
  BY <1>1 DEF Running, Episode
<1>4. Lasting /\ 0 \notin JobIds
  BY <1>1 DEF Lasting, JobIds
<1>5. \A x \in Episodes :
        /\ turns'[x] > 0 => script'[x] > 0
        /\ \A p \in rows'[x] \ rows[x] : objs'[x][p] # 0
        /\ linked'[x] /\ ~linked[x] => media'[x] # Silence
  BY <1>1, <1>2 DEF ObjectsInv
<1> QED
  BY <1>3, <1>4, <1>5, ObjectsFrame

LEMMA ObjectsStep ==
  ASSUME PipelineAssumption, "delete" \notin Events, TypeOK, ObjectsInv, [Next]_vars
  PROVE  ObjectsInv'
<1>1. /\ jobs \in [JobIds -> Job] /\ work \in [JobIds -> WorkType] /\ 0 \notin JobIds
  BY DEF TypeOK, JobsOK, JobsTypeOK, JobIds
<1>2. ASSUME UNCHANGED <<turns, script, rows, linked, objs, media, deleting>>,
             \A i \in JobIds : Running(i)' =>
               Running(i) /\ work'[i] = work[i] /\ Episode(i)' = Episode(i)
      PROVE  ObjectsInv'
  BY <1>1, <1>2, QuietObjects
<1>3. ASSUME NEW j \in JobIds, WorkerStep(j)
      PROVE  ObjectsInv'
  <2>1. CASE MarkStage(j) \/ MarkFails(j) \/ FailUnrecorded(j)
             \/ \E permanent \in BOOLEAN : Fail(j, permanent)
    <3>1. /\ UNCHANGED <<jobs, turns, script, rows, linked, objs, media, deleting>>
          /\ \E pc \in {"stage", "error", "permanent"} : Goto(j, pc)
      BY <2>1 DEF MarkStage, MarkFails, FailUnrecorded, Fail, content, objects, commands
    <3>2. /\ work'[j].pc \in {"stage", "error", "permanent"}
          /\ \A i \in JobIds : i # j => work'[i] = work[i]
      BY <1>1, <3>1 DEF Goto, WorkType
    <3>3. work'[j].pc \notin VoicingSteps \cup {"upload", "publish"}
      BY <3>2 DEF VoicingSteps
    <3>4. \A i \in JobIds : i # j /\ Running(i)' =>
            Running(i) /\ work'[i] = work[i] /\ Episode(i)' = Episode(i)
      BY <3>1, <3>2 DEF Running, Episode
    <3> QED
      BY <3>1, <3>3, <3>4, QuietObjects
  <2> QED
    BY <1>3, <2>1, PipelineAssumption, VoiceObjects, ComposeObjects, CloseObjects DEF WorkerStep, Closes
<1>4. ASSUME NEW j \in JobIds, QueueStep(j) \/ Disturbance(j)
      PROVE  ObjectsInv'
  <2>1. UNCHANGED <<turns, script, rows, linked, objs, media, deleting>>
    BY <1>4 DEF QueueStep, Disturbance, Take, Record, RescueStuck, Crash, SoftStop, HearCancel,
                content, objects, commands
  <2>2. \A i \in JobIds : i # j => jobs'[i] = jobs[i] /\ work'[i] = work[i]
    BY <1>1, <1>4 DEF QueueStep, Disturbance, Take, Record, RescueStuck, Crash, SoftStop, HearCancel,
       Fetch, RecordError, Requeue, Finish, Die, Rescue, InterruptBySoftStop, DeliverCancel
  <2>3. \A i \in JobIds : i # j /\ Running(i)' =>
          Running(i) /\ work'[i] = work[i] /\ Episode(i)' = Episode(i)
    BY <2>2 DEF Running, Episode
  <2>4. CASE Take(j) \/ Record(j) \/ Crash(j)
    <3>1. work'[j].pc \in {"mark", "stage", "idle"}
      BY <1>1, <2>4 DEF Take, Record, Crash, Reached, FirstStep, Idle
    <3>2. work'[j].pc \notin VoicingSteps \cup {"upload", "publish"}
      BY <3>1 DEF VoicingSteps
    <3> QED
      BY <2>1, <2>3, <3>2, QuietObjects
  <2>5. CASE RescueStuck(j)
    <3>1. ~Running(j)'
      <4>1. Requeue(j, jobs[j].attempt) \/ Finish(j)
        BY <2>5 DEF RescueStuck, Rescue
      <4> QED
        BY <1>1, <4>1 DEF Requeue, Finish, Moved, FreeJob, Running
    <3> QED
      BY <2>1, <2>3, <3>1, QuietObjects
  <2>6. CASE SoftStop(j) \/ HearCancel(j)
    <3>1. /\ work' = work /\ Running(j)
          /\ \E c : jobs' = [jobs EXCEPT ![j].ctx = c]
      BY <2>6 DEF SoftStop, HearCancel, InterruptBySoftStop, DeliverCancel
    <3>2. Episode(j)' = Episode(j)
      BY <1>1, <3>1 DEF Episode, Job
    <3> QED
      BY <1>2, <2>1, <2>3, <3>1, <3>2
  <2> QED
    BY <1>4, <2>4, <2>5, <2>6 DEF QueueStep, Disturbance
<1>5. ASSUME NEW e \in Episodes, EpisodeCommand(e)
      PROVE  ObjectsInv'
  <2>1. UNCHANGED work /\ (UNCHANGED jobs \/ \E f \in JobIds, k \in Stages : Inserts(f, k, e))
    BY <1>5, CommandShape
  <2>2. \A i \in JobIds : Running(i)' =>
          Running(i) /\ work'[i] = work[i] /\ Episode(i)' = Episode(i)
    <3>1. ASSUME NEW f, NEW k, Inserts(f, k, e)
          PROVE  ~Running(f)' /\ \A i \in JobIds : i # f => jobs'[i] = jobs[i]
      BY <3>1 DEF Inserts, NewJob, Running
    <3>2. \A i \in JobIds : Running(i)' => jobs'[i] = jobs[i]
      BY <2>1, <3>1
    <3> QED
      BY <2>1, <3>2 DEF Running, Episode
  <2>3. CASE Poll(e) \/ Retry(e) \/ Start(e)
    <3>1. UNCHANGED <<turns, script, rows, linked, objs, media, deleting>>
      BY <2>3 DEF Poll, Retry, Start, content, objects, commands
    <3> QED
      BY <1>2, <2>2, <3>1
  <2>4. ~DeleteCommand(e)
    BY DEF DeleteCommand, SelectForDelete, CommitDelete, RollBackDelete, ObjectsInv
  <2> QED
    BY <1>5, <2>3, <2>4, ExpireObjects DEF EpisodeCommand
<1>6. CASE StopCommand
  <2>1. UNCHANGED <<work, turns, script, rows, linked, objs, media, deleting>>
    BY <1>6 DEF StopCommand, StopList, StopCancel, StopFail, StopAborts, content, objects
  <2>2. \A i \in JobIds : Running(i)' => Running(i) /\ Episode(i)' = Episode(i)
    <3>1. CASE UNCHANGED jobs
      BY <3>1 DEF Running, Episode
    <3>2. ASSUME NEW j \in JobIds, RequestCancel(j)
          PROVE  \A i \in JobIds : Running(i)' => Running(i) /\ Episode(i)' = Episode(i)
      <4>1. CASE Running(j)
        BY <1>1, <3>2, <4>1 DEF RequestCancel, Running, Episode, Job
      <4>2. CASE ~Running(j)
        BY <1>1, <3>2, <4>2 DEF RequestCancel, Finish, FreeJob, Running, Episode
      <4> QED
        BY <4>1, <4>2
    <3> QED
      BY <1>6, <3>1, <3>2 DEF StopCommand, StopList, StopCancel, StopFail, StopAborts
  <2> QED
    BY <1>2, <2>1, <2>2
<1>7. CASE UNCHANGED vars
  BY <1>2, <1>7 DEF vars, Running, Episode
<1> QED
  BY <1>3, <1>4, <1>5, <1>6, <1>7 DEF Next, JobStep

LEMMA InitObjects == Init => ObjectsInv
<1> SUFFICES ASSUME Init PROVE ObjectsInv
  OBVIOUS
<1>1. \A e \in Episodes : /\ ~deleting[e].on /\ turns[e] = 0
                          /\ rows[e] = {} /\ linked[e] = FALSE
  BY DEF Init, NoDelete
<1>2. \A j \in JobIds : ~Running(j)
  BY DEF Init, JobsInit, FreeJob, Running
<1> QED
  BY <1>1, <1>2 DEF ObjectsInv, SegmentObjectsExist, LinkedAudioExists

\* As long as nobody uses the delete command, which removes objects before it
\* commits, rows never point at objects that are not there, whatever crashes,
\* runs twice, is stopped, retried or expires: generate_tts uploads a segment
\* before it records it, compose_episode uploads the audio before it links it.
LEMMA ObjectsHold == "delete" \notin Events => (Spec => []ObjectsInv)
<1> SUFFICES ASSUME "delete" \notin Events PROVE Spec => []ObjectsInv
  OBVIOUS
<1>1. TypeOK /\ ObjectsInv /\ [Next]_vars => ObjectsInv'
  BY PipelineAssumption, ObjectsStep
<1> QED
  BY <1>1, InitObjects, TypeCorrect, PTL DEF Spec

\* Every recorded segment can be read by compose_episode.
THEOREM SegmentsStored == "delete" \notin Events => (Spec => []SegmentObjectsExist)
<1>1. ObjectsInv => SegmentObjectsExist
  BY DEF ObjectsInv
<1> QED
  BY <1>1, ObjectsHold, PTL

\* Every audio URL has its object.
THEOREM AudioStored == "delete" \notin Events => (Spec => []LinkedAudioExists)
<1>1. ObjectsInv => LinkedAudioExists
  BY DEF ObjectsInv
<1> QED
  BY <1>1, ObjectsHold, PTL

\* A worker's list of positions to voice leaves no gap, whatever other workers
\* of the same episode record meanwhile, and is empty only once there is
\* something to compose: what generate_tts relies on when it skips the
\* positions that are recorded already.
THEOREM ListsComplete == Spec => []Voicing
<1>1. PipelineInv => Voicing
  BY DEF PipelineInv
<1> QED
  BY <1>1, InvHolds, PTL
=============================================================================
