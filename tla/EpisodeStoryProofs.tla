------------------------- MODULE EpisodeStoryProofs -------------------------
(***************************************************************************)
(* The theorems about EpisodePipeline while the worker process is left in  *)
(* peace: what fails, is retried, started, deleted or dropped never lets   *)
(* two jobs carry an episode, strands one, or mixes up its script and its  *)
(* audio, and a listener sees the lifecycle of EpisodeLifecycle.           *)
(***************************************************************************)
EXTENDS EpisodePipelineProofs

-----------------------------------------------------------------------------
(* Calm queues *)

\* Neither crashes nor shutdowns of the worker process nor the stop command.
Undisturbed == Events \cap {"crash", "softstop", "stop"} = {}

CalmJob(j) ==
  /\ Running(j) => jobs[j].ctx = "live" /\ work[j].pc # "idle"
  /\ ~Running(j) => work[j].pc = "idle" /\ jobs[j].ctx = "none"
  /\ ~jobs[j].cancel

\* Then every running job has its worker and nothing interrupts it.
Calm ==
  /\ \A j \in JobIds : CalmJob(j)
  /\ stop = [pc |-> "idle", ids |-> {}]

\* A job that has not returned, or has returned an error that is retried.
Carries(j) ==
  /\ InFlight(j)
  /\ work[j].pc \in Returned => work[j].pc = "error" /\ ~LastAttempt(j)

\* In a calm queue the jobs that will run are these.
LEMMA CarrierIs ==
  ASSUME NEW j \in JobIds
  PROVE  /\ CalmJob(j) => (WillRun(j) <=> Carries(j))
         /\ CalmJob(j)' => (WillRun(j)' <=> Carries(j)')
<1>1. CalmJob(j) => (WillRun(j) <=> Carries(j))
  BY DEF CalmJob, WillRun, Carries, RunsAgain, InFlight, Running, Returned
<1>2. CalmJob(j)' => (WillRun(j)' <=> Carries(j)')
  BY DEF CalmJob, WillRun, Carries, RunsAgain, InFlight, Running, Returned
<1> QED
  BY <1>1, <1>2

\* What a job is depends on its record and on its worker alone.
LEMMA Untouched ==
  ASSUME NEW i, jobs'[i] = jobs[i], work'[i] = work[i]
  PROVE  /\ CalmJob(i)' = CalmJob(i) /\ WillRun(i)' = WillRun(i)
         /\ InFlight(i)' = InFlight(i) /\ Waiting(i)' = Waiting(i) /\ Running(i)' = Running(i)
         /\ Kind(i)' = Kind(i) /\ Episode(i)' = Episode(i)
         /\ LastAttempt(i)' = LastAttempt(i)
BY DEF CalmJob, WillRun, RunsAgain, LastAttempt, InFlight, Waiting, Running, Kind, Episode

\* The new job waits for a worker.
LEMMA NewCarrier ==
  ASSUME NEW f, NEW k, NEW e, Inserts(f, k, e), Calm, work'[f] = work[f]
  PROVE  /\ f \in JobIds /\ ~InFlight(f) /\ ~WillRun(f) /\ work'[f].pc = "idle"
         /\ CalmJob(f)' /\ WillRun(f)' /\ InFlight(f)' /\ Waiting(f)' /\ ~Running(f)'
         /\ Kind(f)' = k /\ Episode(f)' = e
<1>1. /\ f \in JobIds /\ ~InFlight(f) /\ ~Running(f) /\ work'[f].pc = "idle"
  BY DEF Inserts, Calm, CalmJob, Running, InFlight
<1>2. /\ InFlight(f)' /\ Waiting(f)' /\ ~Running(f)' /\ jobs'[f].cancel = FALSE
      /\ jobs'[f].ctx = "none" /\ Kind(f)' = k /\ Episode(f)' = e
  BY DEF Inserts, NewJob, InFlight, Waiting, Running, Kind, Episode
<1>3. CalmJob(f)' /\ WillRun(f)' /\ ~WillRun(f)
  BY <1>1, <1>2 DEF CalmJob, WillRun, Returned
<1> QED
  BY <1>1, <1>2, <1>3

\* A worker that goes on alone keeps the queue calm.
LEMMA AloneCalm ==
  ASSUME Calm, NEW j \in JobIds, Alone(j)
  PROVE  /\ Calm'
         /\ \A i \in JobIds : i # j => jobs'[i] = jobs[i] /\ work'[i] = work[i]
         /\ WillRun(j)' <=> (work'[j].pc \in Returned => work'[j].pc = "error" /\ ~LastAttempt(j))
         /\ WillRun(j) <=> (work[j].pc \in Returned => work[j].pc = "error" /\ ~LastAttempt(j))
         /\ Kind(j)' = Kind(j) /\ Episode(j)' = Episode(j)
<1>1. /\ \A i \in JobIds : i # j => jobs'[i] = jobs[i] /\ work'[i] = work[i]
      /\ Running(j) /\ Running(j)' /\ InFlight(j) /\ InFlight(j)'
      /\ Kind(j)' = Kind(j) /\ Episode(j)' = Episode(j) /\ LastAttempt(j)' = LastAttempt(j)
  BY DEF Alone, Steps, Running, InFlight, Kind, Episode, LastAttempt
<1>2. CalmJob(j) /\ CalmJob(j)'
  BY <1>1 DEF Calm, CalmJob, Alone, Steps
<1>3. Calm'
  BY <1>1, <1>2, Untouched DEF Calm, Alone, Steps
<1> QED
  BY <1>1, <1>2, <1>3, CarrierIs DEF Carries

\* So does one that is done and inserts the next stage's job, which then
\* carries the episode in its place.
LEMMA HandoverCalm ==
  ASSUME Calm, NEW j \in JobIds, Steps(j), work'[j].pc = "ok", NEW f, NEW k, NEW e,
         Inserts(f, k, e)
  PROVE  /\ Calm'
         /\ f # j /\ ~WillRun(j)'
         /\ \A i \in JobIds : i # j /\ i # f => jobs'[i] = jobs[i] /\ work'[i] = work[i]
         /\ f \in JobIds /\ ~WillRun(f) /\ WillRun(f)' /\ work'[f].pc = "idle"
         /\ Kind(f)' = k /\ Episode(f)' = e
         /\ Kind(j)' = Kind(j) /\ Episode(j)' = Episode(j)
<1>1. f # j /\ jobs'[j] = jobs[j]
  BY DEF Inserts, Steps, Running, InFlight
<1>2. Running(j) /\ Running(j)' /\ Kind(j)' = Kind(j) /\ Episode(j)' = Episode(j)
  BY <1>1 DEF Steps, Running, Kind, Episode
<1>3. CalmJob(j)'
  BY <1>1, <1>2 DEF Calm, CalmJob, Steps
<1>4. \A i \in JobIds : i # j /\ i # f => jobs'[i] = jobs[i] /\ work'[i] = work[i]
  BY DEF Inserts, Steps
<1>5. work'[f] = work[f]
  BY <1>1 DEF Steps, Inserts
<1>6. /\ f \in JobIds /\ ~WillRun(f) /\ CalmJob(f)' /\ WillRun(f)' /\ work'[f].pc = "idle"
      /\ Kind(f)' = k /\ Episode(f)' = e
  BY <1>5, NewCarrier
<1>7. Calm'
  BY <1>3, <1>4, <1>6, Untouched DEF Calm, Steps
<1>8. ~WillRun(j)'
  BY <1>3, CarrierIs DEF Carries, Returned
<1> QED
  BY <1>1, <1>2, <1>4, <1>6, <1>7, <1>8

\* A poll or a command that inserts a job for e.
LEMMA LaunchCalm ==
  ASSUME Calm, UNCHANGED <<work, stop>>, NEW f, NEW k, NEW e, Inserts(f, k, e)
  PROVE  /\ Calm'
         /\ \A i \in JobIds : i # f => jobs'[i] = jobs[i] /\ work'[i] = work[i]
         /\ f \in JobIds /\ ~WillRun(f) /\ WillRun(f)' /\ work'[f].pc = "idle"
         /\ Kind(f)' = k /\ Episode(f)' = e
<1>1. \A i \in JobIds : i # f => jobs'[i] = jobs[i] /\ work'[i] = work[i]
  BY DEF Inserts
<1>2. /\ f \in JobIds /\ ~WillRun(f) /\ CalmJob(f)' /\ WillRun(f)' /\ work'[f].pc = "idle"
      /\ Kind(f)' = k /\ Episode(f)' = e
  BY NewCarrier
<1>3. Calm'
  BY <1>1, <1>2, Untouched DEF Calm
<1> QED
  BY <1>1, <1>2, <1>3

\* Nothing disturbs a calm queue, and its own steps neither make nor lose a
\* carrier.
LEMMA QueueCalm ==
  ASSUME Undisturbed, PipelineAssumption, TypeOK, Calm, NEW j \in JobIds,
         QueueStep(j) \/ Disturbance(j)
  PROVE  /\ Calm'
         /\ \A i \in JobIds : i # j => jobs'[i] = jobs[i] /\ work'[i] = work[i]
         /\ WillRun(j)' <=> WillRun(j)
         /\ WillRun(j)' => Kind(j)' = Kind(j) /\ Episode(j)' = Episode(j)
         /\ work'[j].pc \in {"idle", "mark", "stage"}
         /\ WillRun(j)' /\ work'[j].pc = "stage" => Kind(j) = "compose_episode"
         /\ UNCHANGED <<status, content, objects, deleting>>
<1>1. /\ jobs \in [JobIds -> Job] /\ work \in [JobIds -> WorkType]
      /\ CalmJob(j)
  BY DEF TypeOK, JobsOK, JobsTypeOK, Calm
<1>2. ~Disturbance(j) /\ ~RescueStuck(j)
  BY <1>1 DEF Undisturbed, Disturbance, Crash, SoftStop, HearCancel, DeliverCancel,
              RescueStuck, Rescue, CalmJob
<1>3. CASE Take(j)
  <2> DEFINE w == Reached(FirstStep(Kind(j)), 0, {}, Silence)
  <2>1. /\ Waiting(j) /\ jobs' = [jobs EXCEPT ![j] = Moved(j, "running", jobs[j].attempt + 1, "live")]
        /\ work' = [work EXCEPT ![j] = w]
        /\ UNCHANGED <<status, content, objects, deleting, stop>>
    BY <1>3 DEF Take, Fetch, commands
  <2>2. /\ jobs'[j] = Moved(j, "running", jobs[j].attempt + 1, "live")
        /\ work'[j] = w /\ w.pc = FirstStep(Kind(j))
        /\ \A i \in JobIds : i # j => jobs'[i] = jobs[i] /\ work'[i] = work[i]
    BY <1>1, <2>1 DEF Reached
  <2>3. /\ FirstStep(Kind(j)) \in {"mark", "stage"}
        /\ FirstStep(Kind(j)) = "stage" => Kind(j) = "compose_episode"
    BY DEF FirstStep
  <2>4. /\ Running(j)' /\ InFlight(j)' /\ jobs'[j].ctx = "live"
        /\ jobs'[j].cancel = jobs[j].cancel
        /\ Kind(j)' = Kind(j) /\ Episode(j)' = Episode(j)
    BY <2>2 DEF Moved, Running, InFlight, Kind, Episode
  <2>5. CalmJob(j)'
    BY <1>1, <2>2, <2>3, <2>4 DEF CalmJob
  <2>6. WillRun(j)'
    BY <2>2, <2>3, <2>4, <2>5, CarrierIs DEF Carries, Returned
  <2>7. WillRun(j)
    <3>1. InFlight(j) /\ ~Running(j)
      BY <2>1 DEF Waiting, InFlight, Running
    <3>2. work[j].pc = "idle"
      BY <1>1, <3>1 DEF CalmJob
    <3> QED
      BY <1>1, <3>1, <3>2, CarrierIs DEF Carries, Returned
  <2>8. Calm'
    BY <2>1, <2>2, <2>5, Untouched DEF Calm
  <2> QED
    BY <2>1, <2>2, <2>3, <2>4, <2>6, <2>7, <2>8
<1>4. CASE Record(j)
  <2>1. /\ Running(j) /\ jobs[j].ctx = "live" /\ ~jobs[j].cancel /\ work[j].pc \in Returned
        /\ work' = [work EXCEPT ![j] = Idle]
        /\ UNCHANGED <<status, content, objects, deleting>> /\ Relist
        /\ IF work[j].pc = "error" THEN RecordError(j) ELSE Finish(j)
    BY <1>1, <1>4 DEF Record, Attended, CalmJob
  <2>2. work'[j] = Idle /\ Idle.pc = "idle" /\ \A i \in JobIds : i # j => work'[i] = work[i]
    BY <1>1, <2>1 DEF Idle, Reached
  <2>3. stop' = [pc |-> "idle", ids |-> {}]
    BY <2>1 DEF Calm, Relist
  <2>4. \A i \in JobIds : i # j => jobs'[i] = jobs[i]
    BY <1>1, <2>1 DEF RecordError, Finish, Requeue
  <2>5. InFlight(j)
    BY <2>1 DEF Running, InFlight
  <2>6. CASE WillRun(j)
    <3>1. work[j].pc = "error" /\ ~LastAttempt(j)
      BY <1>1, <2>1, <2>6, CarrierIs DEF Carries
    <3>2. Requeue(j, jobs[j].attempt)
      BY <2>1, <3>1 DEF RecordError, RunsAgain
    <3>3. jobs'[j] = Moved(j, "waiting", jobs[j].attempt, "none")
      BY <1>1, <3>2 DEF Requeue
    <3>4. /\ ~Running(j)' /\ InFlight(j)' /\ jobs'[j].cancel = jobs[j].cancel /\ jobs'[j].ctx = "none"
          /\ Kind(j)' = Kind(j) /\ Episode(j)' = Episode(j)
      BY <3>3 DEF Moved, Running, InFlight, Kind, Episode
    <3>5. CalmJob(j)'
      BY <1>1, <2>2, <3>4 DEF CalmJob
    <3>6. WillRun(j)'
      BY <2>2, <3>4, <3>5, CarrierIs DEF Carries, Returned
    <3>7. Calm'
      BY <2>2, <2>3, <2>4, <3>5, Untouched DEF Calm
    <3> QED
      BY <2>1, <2>2, <2>4, <2>6, <3>4, <3>6, <3>7
  <2>7. CASE ~WillRun(j)
    <3>1. work[j].pc = "error" => LastAttempt(j)
      BY <1>1, <2>5, <2>7, CarrierIs DEF Carries
    <3>2. Finish(j)
      BY <2>1, <3>1 DEF RecordError, RunsAgain
    <3>3. jobs'[j] = FreeJob
      BY <1>1, <3>2 DEF Finish
    <3>4. ~Running(j)' /\ ~InFlight(j)' /\ jobs'[j].cancel = FALSE /\ jobs'[j].ctx = "none"
      BY <3>3 DEF FreeJob, Running, InFlight
    <3>5. CalmJob(j)' /\ ~WillRun(j)'
      BY <2>2, <3>4 DEF CalmJob, WillRun
    <3>6. Calm'
      BY <2>2, <2>3, <2>4, <3>5, Untouched DEF Calm
    <3> QED
      BY <2>1, <2>2, <2>4, <2>7, <3>5, <3>6
  <2> QED
    BY <2>6, <2>7
<1> QED
  BY <1>2, <1>3, <1>4 DEF QueueStep

\* The stop command does nothing when it is never given.
LEMMA NoStop == Undisturbed /\ Calm => ~StopCommand
BY DEF Undisturbed, Calm, StopCommand, StopList, StopCancel, StopFail, StopAborts

\* Every step keeps a calm queue calm.
LEMMA CalmStep ==
  ASSUME PipelineAssumption, Undisturbed, TypeOK, Calm, [Next]_vars
  PROVE  Calm'
<1>1. ASSUME NEW j \in JobIds, WorkerStep(j)
      PROVE  Calm'
  BY <1>1, WorkerShape, ClosesShape, AloneCalm, HandoverCalm
<1>2. ASSUME NEW j \in JobIds, QueueStep(j) \/ Disturbance(j)
      PROVE  Calm'
  BY <1>2, QueueCalm
<1>3. ASSUME UNCHANGED <<jobs, work, stop>>
      PROVE  Calm'
  BY <1>3, Untouched DEF Calm
<1>4. ASSUME NEW e \in Episodes, EpisodeCommand(e)
      PROVE  Calm'
  BY <1>3, <1>4, CommandShape, LaunchCalm
<1>5. CASE UNCHANGED vars
  BY <1>3, <1>5 DEF vars
<1> QED
  BY <1>1, <1>2, <1>4, <1>5, NoStop DEF Next, JobStep

LEMMA InitCalm == Init => Calm
BY DEF Init, JobsInit, FreeJob, Idle, Reached, Calm, CalmJob, Running

-----------------------------------------------------------------------------
(* No episode is stranded *)

\* No process failures, no stop command and a database that always answers.
Reliable == Undisturbed /\ "outage" \notin Events

\* The episode is on its way: somebody has to carry it on.
Underway(e) == status[e] \in Busy \/ (status[e] = "queued" /\ e \notin PollOnly)

\* Only the episode a step is about can lose the job that carries it.
LEMMA StrandFrame ==
  ASSUME NeverStranded, NEW e,
         \A x \in Episodes : x # e => status'[x] = status[x],
         \A i \in JobIds : WillRun(i) /\ Episode(i) # e => WillRun(i)' /\ Episode(i)' = Episode(i),
         Underway(e)' => \E i \in JobIds : WillRun(i)' /\ Episode(i)' = e
  PROVE  NeverStranded'
BY DEF NeverStranded, Underway

\* A worker gives its episode up only to a successor, or with a final status.
LEMMA WorkerStrands ==
  ASSUME PipelineAssumption, Reliable, TypeOK, Calm, NeverStranded,
         NEW j \in JobIds, WorkerStep(j)
  PROVE  NeverStranded'
<1>0. PICK e : e = Episode(j)
  OBVIOUS
<1>1. CASE Closes(j)
  <2>1. /\ Steps(j) /\ work'[j].pc = "ok" /\ e \in Episodes
        /\ \E s \in {"content_ready", "script_ready", "composing"}, k \in Stages, f \in JobIds :
             SetStatus(e, s) /\ Inserts(f, k, e)
    BY <1>0, <1>1, ClosesShape
  <2>2. PICK s \in {"content_ready", "script_ready", "composing"}, k \in Stages, f \in JobIds :
          SetStatus(e, s) /\ Inserts(f, k, e)
    BY <2>1
  <2>3. /\ WillRun(f)' /\ Episode(f)' = e /\ ~WillRun(f)
        /\ \A i \in JobIds : i # j /\ i # f => jobs'[i] = jobs[i] /\ work'[i] = work[i]
    BY <2>1, <2>2, HandoverCalm
  <2>4. \A i \in JobIds : WillRun(i) /\ Episode(i) # e => WillRun(i)' /\ Episode(i)' = Episode(i)
    BY <1>0, <2>3, Untouched
  <2>5. \A x \in Episodes : x # e => status'[x] = status[x]
    BY <2>1, <2>2, SetsOne
  <2> QED
    BY <2>3, <2>4, <2>5, StrandFrame
<1>2. ASSUME Alone(j), e \in Episodes,
             UNCHANGED status \/ \E s : SetStatus(e, s),
             Underway(e)' => (work'[j].pc \in Returned => work'[j].pc = "error" /\ ~LastAttempt(j))
      PROVE  NeverStranded'
  <2>1. /\ \A i \in JobIds : i # j => jobs'[i] = jobs[i] /\ work'[i] = work[i]
        /\ WillRun(j)' <=> (work'[j].pc \in Returned => work'[j].pc = "error" /\ ~LastAttempt(j))
        /\ Episode(j)' = Episode(j)
    BY <1>2, AloneCalm
  <2>2. \A i \in JobIds : WillRun(i) /\ Episode(i) # e => WillRun(i)' /\ Episode(i)' = Episode(i)
    BY <1>0, <2>1, Untouched
  <2>3. \A x \in Episodes : x # e => status'[x] = status[x]
    BY <1>2, SetsOne
  <2>4. Underway(e)' => \E i \in JobIds : WillRun(i)' /\ Episode(i)' = e
    BY <1>0, <1>2, <2>1
  <2> QED
    BY <2>2, <2>3, <2>4, StrandFrame
<1>3. Running(j) => e \in Episodes /\ jobs[j].ctx = "live" /\ LastAttempt(j) \in BOOLEAN
  BY <1>0 DEF TypeOK, JobsOK, Running, InFlight, Calm, CalmJob, LastAttempt
<1>4. CASE ~Closes(j)
  <2>0. Alone(j) /\ e \in Episodes
    BY <1>3, <1>4, WorkerShape DEF Alone, Steps
  <2>1. ASSUME NEW permanent \in BOOLEAN, Fail(j, permanent)
        PROVE  NeverStranded'
    <3>1. /\ SetStatus(e, AttemptStatus(j, permanent))
          /\ Running(j) /\ UNCHANGED <<jobs, stop>>
          /\ Goto(j, IF permanent THEN "permanent" ELSE "error")
      BY <1>0, <2>1 DEF Fail, Attended, commands
    <3>2. work'[j].pc = IF permanent THEN "permanent" ELSE "error"
      BY <3>1, MovesAlone
    <3>3. Underway(e)' => Exists(e) /\ ~permanent /\ ~LastAttempt(j)
      <4>1. status'[e] = IF Exists(e) THEN AttemptStatus(j, permanent) ELSE status[e]
        BY <2>0, <3>1, SetsOne
      <4>2. permanent \/ LastAttempt(j) => AttemptStatus(j, permanent) = "failed"
        BY DEF AttemptStatus
      <4> QED
        BY <4>1, <4>2 DEF Underway, Busy, Exists
    <3> QED
      BY <1>2, <2>0, <3>1, <3>2, <3>3
  <2>2. CASE Publish(j)
    <3>1. SetStatus(e, "published")
      BY <1>0, <2>2 DEF Publish
    <3>2. ~Underway(e)'
      BY <2>0, <3>1, SetsOne DEF Underway, Busy, Exists
    <3> QED
      BY <1>2, <2>0, <3>1, <3>2
  <2>3. CASE MarkStage(j) \/ PutSegment(j) \/ PutMedia(j)
    <3>1. work'[j].pc \notin Returned
      BY <2>3 DEF MarkStage, PutSegment, PutMedia, Goto, TypeOK, WorkType, Returned
    <3>2. UNCHANGED status \/ \E s : SetStatus(e, s)
      BY <1>0, <2>3 DEF MarkStage, PutSegment, PutMedia
    <3> QED
      BY <1>2, <2>0, <3>1, <3>2
  <2>4. CASE LoadTurns(j) \/ SkipExisting(j) \/ RecordSegment(j) \/ ReadSegments(j)
    <3>1. PICK w : w.pc \notin Returned /\ work' = [work EXCEPT ![j] = w]
      BY <2>4 DEF LoadTurns, SkipExisting, RecordSegment, ReadSegments, Reached, Returned
    <3>2. work'[j].pc \notin Returned /\ UNCHANGED status
      BY <2>4, <3>1 DEF LoadTurns, SkipExisting, RecordSegment, ReadSegments, TypeOK
    <3> QED
      BY <1>2, <2>0, <3>1, <3>2
  <2>5. ~MarkFails(j) /\ ~FailUnrecorded(j)
    BY <1>3 DEF MarkFails, FailUnrecorded, Reliable, Attended
  <2> QED
    BY <1>4, <2>1, <2>2, <2>3, <2>4, <2>5 DEF WorkerStep, Closes
<1> QED
  BY <1>1, <1>4

LEMMA StrandStep ==
  ASSUME PipelineAssumption, Reliable, TypeOK, Calm, NeverStranded, [Next]_vars
  PROVE  NeverStranded'
<1>1. ASSUME NEW j \in JobIds, WorkerStep(j)
      PROVE  NeverStranded'
  BY <1>1, WorkerStrands
<1>2. ASSUME NEW j \in JobIds, QueueStep(j) \/ Disturbance(j)
      PROVE  NeverStranded'
  <2>1. /\ \A i \in JobIds : i # j => jobs'[i] = jobs[i] /\ work'[i] = work[i]
        /\ WillRun(j)' <=> WillRun(j)
        /\ WillRun(j)' => Episode(j)' = Episode(j)
        /\ UNCHANGED status
    BY <1>2, QueueCalm DEF Reliable
  <2>2. \A i \in JobIds : WillRun(i) => WillRun(i)' /\ Episode(i)' = Episode(i)
    BY <2>1, Untouched
  <2> QED
    BY <2>1, <2>2 DEF NeverStranded
<1>3. ASSUME UNCHANGED <<jobs, work>>, NEW e \in Episodes, Underway(e)' => Underway(e),
             \A x \in Episodes : x # e => status'[x] = status[x]
      PROVE  NeverStranded'
  <2>1. \A i \in JobIds : WillRun(i)' = WillRun(i) /\ Episode(i)' = Episode(i)
    BY <1>3, Untouched
  <2> QED
    BY <1>3, <2>1 DEF NeverStranded, Underway
<1>4. ASSUME NEW e \in Episodes, EpisodeCommand(e)
      PROVE  NeverStranded'
  <2>1. UNCHANGED <<work, stop>> /\ \A x \in Episodes : x # e => status'[x] = status[x]
    BY <1>4, CommandShape, CommandStatus
  <2>2. ASSUME NEW k, NEW f, Inserts(f, k, e)
        PROVE  NeverStranded'
    <3>1. /\ \A i \in JobIds : i # f => jobs'[i] = jobs[i] /\ work'[i] = work[i]
          /\ f \in JobIds /\ ~WillRun(f) /\ WillRun(f)' /\ Episode(f)' = e
      BY <2>1, <2>2, LaunchCalm
    <3>2. \A i \in JobIds : WillRun(i) => WillRun(i)' /\ Episode(i)' = Episode(i)
      BY <3>1, Untouched
    <3> QED
      BY <2>1, <3>1, <3>2, StrandFrame
  <2>3. CASE /\ UNCHANGED jobs
             /\ \/ status'[e] \in {status[e], "deleted"}
                \/ e \in PollOnly /\ status'[e] = "queued"
    <3>1. Underway(e)' => Underway(e)
      BY <2>3 DEF Underway, Busy
    <3> QED
      BY <1>3, <2>1, <2>3, <3>1
  <2> QED
    BY <1>4, <2>2, <2>3, CommandStatus
<1>5. CASE UNCHANGED vars
  BY <1>5, Untouched DEF vars, NeverStranded
<1> QED
  BY <1>1, <1>2, <1>4, <1>5, NoStop DEF Next, JobStep, Reliable

\* While the process keeps running, the database answers and nobody uses the
\* stop command, an episode in progress always has a job that will carry it
\* on, whatever the stages, the retries, the listeners and the deletions do:
\* every attempt that is not followed by another has written a final status
\* (finishEpisodeAttempt) or inserted the next job in the same transaction.
THEOREM Carried == Reliable => (Spec => []NeverStranded)
<1> SUFFICES ASSUME Reliable PROVE Spec => []NeverStranded
  OBVIOUS
<1>1. Init => TypeOK /\ Calm /\ NeverStranded
  <2>1. Init => NeverStranded
    BY DEF Init, NeverStranded, Busy
  <2> QED
    BY <2>1, InitType, InitCalm, PipelineAssumption
<1>2. TypeOK /\ Calm /\ NeverStranded /\ [Next]_vars => TypeOK' /\ Calm' /\ NeverStranded'
  BY PipelineAssumption, TypeStep, CalmStep, StrandStep DEF Reliable
<1> QED
  BY <1>1, <1>2, PTL DEF Spec

-----------------------------------------------------------------------------
(* One carrier at a time *)

\* A calm queue, and no episode that both an operator's retry and a listener
\* can put in progress.
Orderly == Undisturbed /\ ("retry" \in Events /\ "start" \in Events => PollOnly = {})

\* No command accepts the episode.
Taken(e) ==
  /\ status[e] \notin {"unborn", "failed", "published"}
  /\ e \in PollOnly /\ status[e] = "queued" => "start" \notin Events

\* A carried episode is taken, and shown in progress once a worker is at it.
CarriedOK(j) ==
  WillRun(j) =>
    /\ Taken(Episode(j))
    /\ Exists(Episode(j)) /\ (Kind(j) = "compose_episode" \/ work[j].pc \in StageSteps)
         => status[Episode(j)] \in Busy

\* The inductive invariant behind OneCarrier: who may insert a job for an
\* episode looks at its status alone.
CarrierInv == Calm /\ OneCarrier /\ \A j \in JobIds : CarriedOK(j)

\* A worker that acts carries its episode.
LEMMA ActsAlive ==
  ASSUME TypeOK, Calm, NEW j \in JobIds, WorkerStep(j)
  PROVE  /\ Running(j) /\ jobs[j].ctx = "live" /\ work[j].pc \in {"mark"} \cup StageSteps
         /\ WillRun(j) /\ Episode(j) \in Episodes /\ Kind(j) \in Stages
<1>1. Running(j) /\ work[j].pc \in {"mark"} \cup StageSteps
  BY DEF WorkerStep, MarkStage, MarkFails, StoreDocuments, StoreScript, LoadTurns, SkipExisting,
         PutSegment, RecordSegment, FinishTTS, ReadSegments, PutMedia, Publish, Fail,
         FailUnrecorded, At, Attended, StageSteps
<1>2. jobs[j].ctx = "live" /\ CalmJob(j)
  BY <1>1 DEF Calm, CalmJob
<1>3. InFlight(j) /\ Episode(j) \in Episodes /\ Kind(j) \in Stages
  BY <1>1 DEF TypeOK, JobsOK, Running, InFlight
<1>4. WillRun(j)
  BY <1>1, <1>2, <1>3, CarrierIs DEF Carries, Returned, StageSteps
<1> QED
  BY <1>1, <1>2, <1>3, <1>4

\* A step about episode e that leaves it at most one carrier.
LEMMA CarrierFrame ==
  ASSUME TypeOK, \A i \in JobIds : CarriedOK(i), OneCarrier, NEW e, NEW c,
         \A x \in Episodes : x # e => status'[x] = status[x],
         \A i \in JobIds : i # c /\ WillRun(i)' =>
           jobs'[i] = jobs[i] /\ work'[i] = work[i] /\ Episode(i) # e,
         WillRun(c)' => Episode(c)' = e /\ CarriedOK(c)'
  PROVE  OneCarrier' /\ \A i \in JobIds : CarriedOK(i)'
<1>1. \A i \in JobIds : i # c /\ WillRun(i)' =>
        /\ WillRun(i) /\ Episode(i)' = Episode(i) /\ Kind(i)' = Kind(i) /\ work'[i] = work[i]
        /\ Episode(i) # e
  BY Untouched
<1>2. \A i \in JobIds : WillRun(i) => Episode(i) \in Episodes
  BY DEF TypeOK, JobsOK, WillRun
<1>3. OneCarrier'
  BY <1>1 DEF OneCarrier
<1>4. ASSUME NEW i \in JobIds, i # c, WillRun(i)'
      PROVE  CarriedOK(i)'
  <2>1. /\ WillRun(i) /\ Episode(i)' = Episode(i) /\ Kind(i)' = Kind(i) /\ work'[i] = work[i]
        /\ status'[Episode(i)] = status[Episode(i)] /\ CarriedOK(i)
    BY <1>1, <1>2, <1>4
  <2> QED
    BY <2>1 DEF CarriedOK, Taken, Exists
<1> QED
  BY <1>3, <1>4 DEF CarriedOK

LEMMA WorkerCarries ==
  ASSUME PipelineAssumption, Undisturbed, TypeOK, CarrierInv, NEW j \in JobIds, WorkerStep(j)
  PROVE  CarrierInv'
<1>0. PICK e : e = Episode(j)
  OBVIOUS
<1>1. /\ Running(j) /\ jobs[j].ctx = "live" /\ work[j].pc \in {"mark"} \cup StageSteps
      /\ WillRun(j) /\ e \in Episodes /\ Kind(j) \in Stages /\ CarriedOK(j) /\ Calm
  BY <1>0, ActsAlive DEF CarrierInv
<1>2. \A i \in JobIds : i # j /\ WillRun(i) => Episode(i) # e
  BY <1>0, <1>1 DEF CarrierInv, OneCarrier
<1>3. CASE Closes(j)
  <2>1. /\ Steps(j) /\ work'[j].pc = "ok"
        /\ \E s \in {"content_ready", "script_ready", "composing"}, k \in Stages, f \in JobIds :
             SetStatus(e, s) /\ Inserts(f, k, e)
    BY <1>0, <1>3, ClosesShape
  <2>2. PICK s \in {"content_ready", "script_ready", "composing"}, k \in Stages, f \in JobIds :
          SetStatus(e, s) /\ Inserts(f, k, e)
    BY <2>1
  <2>3. /\ Calm' /\ ~WillRun(j)'
        /\ \A i \in JobIds : i # j /\ i # f => jobs'[i] = jobs[i] /\ work'[i] = work[i]
        /\ Episode(f)' = e /\ work'[f].pc = "idle"
    BY <1>1, <2>1, <2>2, HandoverCalm
  <2>4. /\ \A x \in Episodes : x # e => status'[x] = status[x]
        /\ status'[e] = IF Exists(e) THEN s ELSE status[e]
    BY <1>1, <2>2, SetsOne
  <2>5. CarriedOK(f)'
    <3>1. status'[e] \in Busy \cup {"deleted"}
      BY <1>0, <1>1, <2>4 DEF CarriedOK, Taken, Exists, Busy
    <3> QED
      BY <2>3, <3>1 DEF CarriedOK, Taken, Exists, Busy
  <2>6. \A i \in JobIds : i # f /\ WillRun(i)' =>
          jobs'[i] = jobs[i] /\ work'[i] = work[i] /\ Episode(i) # e
    BY <1>2, <2>3, Untouched
  <2> QED
    BY <2>3, <2>4, <2>5, <2>6, CarrierFrame DEF CarrierInv
<1>4. ASSUME Alone(j), \A x \in Episodes : x # e => status'[x] = status[x], CarriedOK(j)'
      PROVE  CarrierInv'
  <2>1. /\ Calm' /\ Episode(j)' = e
        /\ \A i \in JobIds : i # j => jobs'[i] = jobs[i] /\ work'[i] = work[i]
    BY <1>0, <1>1, <1>4, AloneCalm
  <2>2. \A i \in JobIds : i # j /\ WillRun(i)' =>
          jobs'[i] = jobs[i] /\ work'[i] = work[i] /\ Episode(i) # e
    BY <1>2, <2>1, Untouched
  <2> QED
    BY <1>4, <2>1, <2>2, CarrierFrame DEF CarrierInv
<1>5. CASE ~Closes(j)
  <2>1. Alone(j)
    BY <1>5, WorkerShape
  <2>2. /\ Kind(j)' = Kind(j) /\ Episode(j)' = e
        /\ WillRun(j)' <=> (work'[j].pc \in Returned => work'[j].pc = "error" /\ ~LastAttempt(j))
    BY <1>0, <1>1, <2>1, AloneCalm
  <2>3. ASSUME UNCHANGED status, work'[j].pc \in StageSteps => work[j].pc \in StageSteps
        PROVE  CarrierInv'
    <3>1. CarriedOK(j)'
      BY <1>0, <1>1, <2>2, <2>3 DEF CarriedOK, Taken, Exists
    <3> QED
      BY <1>4, <2>1, <2>3, <3>1
  <2>4. ASSUME NEW s, SetStatus(e, s), WillRun(j)' => s \in Busy
        PROVE  CarrierInv'
    <3>1. /\ \A x \in Episodes : x # e => status'[x] = status[x]
          /\ status'[e] = IF Exists(e) THEN s ELSE status[e]
      BY <1>1, <2>4, SetsOne
    <3>2. CarriedOK(j)'
      <4>1. WillRun(j)' => status'[e] \in Busy \cup {"deleted"}
        BY <1>0, <1>1, <2>4, <3>1 DEF CarriedOK, Taken, Exists
      <4> QED
        BY <2>2, <4>1 DEF CarriedOK, Taken, Exists, Busy
    <3> QED
      BY <1>4, <2>1, <3>1, <3>2
  <2>5. CASE MarkStage(j)
    <3>1. SetStatus(e, StageStatus(Kind(j))) /\ StageStatus(Kind(j)) \in Busy
      BY <1>0, <2>5 DEF MarkStage, StageStatus, Busy
    <3> QED
      BY <2>4, <3>1
  <2>6. CASE Publish(j)
    <3>1. work'[j].pc = "ok" /\ SetStatus(e, "published")
      BY <1>0, <2>6, MovesAlone DEF Publish, Goto, TypeOK, WorkType
    <3> QED
      BY <2>2, <2>4, <3>1 DEF Returned
  <2>7. ASSUME NEW permanent \in BOOLEAN, Fail(j, permanent)
        PROVE  CarrierInv'
    <3>1. /\ SetStatus(e, AttemptStatus(j, permanent))
          /\ work'[j].pc = IF permanent THEN "permanent" ELSE "error"
      BY <1>0, <2>7 DEF Fail, Goto, TypeOK, WorkType
    <3>2. WillRun(j)' => ~permanent /\ ~LastAttempt(j)
      BY <2>2, <3>1 DEF Returned
    <3>3. ~permanent /\ ~LastAttempt(j) => AttemptStatus(j, permanent) \in Busy
      BY <1>1 DEF AttemptStatus, Busy
    <3> QED
      BY <2>4, <3>1, <3>2, <3>3
  <2>8. CASE MarkFails(j) \/ FailUnrecorded(j) \/ PutSegment(j) \/ PutMedia(j)
    <3>1. /\ UNCHANGED status
          /\ work'[j].pc \in StageSteps => work[j].pc \in StageSteps
      BY <2>8 DEF MarkFails, FailUnrecorded, PutSegment, PutMedia, At, Goto, TypeOK, WorkType,
                  StageSteps
    <3> QED
      BY <2>3, <3>1
  <2>9. CASE LoadTurns(j) \/ SkipExisting(j) \/ RecordSegment(j) \/ ReadSegments(j)
    <3>1. UNCHANGED status /\ work[j].pc \in StageSteps
      BY <2>9 DEF LoadTurns, SkipExisting, RecordSegment, ReadSegments, At, StageSteps
    <3> QED
      BY <2>3, <3>1
  <2> QED
    BY <1>5, <2>5, <2>6, <2>7, <2>8, <2>9 DEF WorkerStep, Closes
<1> QED
  BY <1>3, <1>5

LEMMA CarrierStep ==
  ASSUME PipelineAssumption, Orderly, TypeOK, CarrierInv, [Next]_vars
  PROVE  CarrierInv'
<1>0. Undisturbed /\ Calm /\ OneCarrier /\ \A i \in JobIds : CarriedOK(i)
  BY DEF Orderly, CarrierInv
<1>1. ASSUME NEW j \in JobIds, WorkerStep(j)
      PROVE  CarrierInv'
  BY <1>0, <1>1, WorkerCarries
<1>2. ASSUME NEW j \in JobIds, QueueStep(j) \/ Disturbance(j)
      PROVE  CarrierInv'
  <2>1. /\ Calm'
        /\ \A i \in JobIds : i # j => jobs'[i] = jobs[i] /\ work'[i] = work[i]
        /\ WillRun(j)' <=> WillRun(j)
        /\ WillRun(j)' => Kind(j)' = Kind(j) /\ Episode(j)' = Episode(j)
        /\ work'[j].pc \in {"idle", "mark", "stage"}
        /\ WillRun(j)' /\ work'[j].pc = "stage" => Kind(j) = "compose_episode"
        /\ UNCHANGED status
    BY <1>0, <1>2, QueueCalm
  <2>2. \A i \in JobIds : WillRun(i)' =>
          /\ WillRun(i) /\ Kind(i)' = Kind(i) /\ Episode(i)' = Episode(i)
          /\ work'[i].pc \in StageSteps => Kind(i) = "compose_episode" \/ work[i].pc \in StageSteps
    BY <2>1, Untouched DEF StageSteps
  <2>3. OneCarrier'
    BY <1>0, <2>2 DEF OneCarrier
  <2>4. \A i \in JobIds : CarriedOK(i)'
    BY <1>0, <2>1, <2>2 DEF CarriedOK, Taken, Exists
  <2> QED
    BY <2>1, <2>3, <2>4 DEF CarrierInv
<1>3. ASSUME NEW e \in Episodes, EpisodeCommand(e)
      PROVE  CarrierInv'
  <2>1. UNCHANGED <<work, stop>> /\ \A x \in Episodes : x # e => status'[x] = status[x]
    BY <1>3, CommandShape, CommandStatus
  <2>2. \A i \in JobIds : WillRun(i) /\ Episode(i) = e => Taken(e)
    BY <1>0 DEF CarriedOK
  <2>3. ASSUME ~Taken(e), NEW k, NEW f, Inserts(f, k, e), k # "compose_episode",
               status'[e] \in Busy \/ (status'[e] = "queued" /\ (e \in PollOnly => "start" \notin Events))
        PROVE  CarrierInv'
    <3>1. /\ Calm' /\ f \in JobIds
          /\ \A i \in JobIds : i # f => jobs'[i] = jobs[i] /\ work'[i] = work[i]
          /\ Episode(f)' = e /\ Kind(f)' = k /\ work'[f].pc = "idle"
      BY <1>0, <2>1, <2>3, LaunchCalm
    <3>2. \A i \in JobIds : i # f /\ WillRun(i)' =>
            jobs'[i] = jobs[i] /\ work'[i] = work[i] /\ Episode(i) # e
      BY <2>2, <2>3, <3>1, Untouched
    <3>3. CarriedOK(f)'
      BY <2>3, <3>1 DEF CarriedOK, Taken, StageSteps, Busy
    <3> QED
      BY <1>0, <2>1, <3>1, <3>2, <3>3, CarrierFrame DEF CarrierInv
  <2>4. ASSUME UNCHANGED jobs, status'[e] \in {status[e], "deleted"} \/ status[e] = "unborn"
        PROVE  CarrierInv'
    <3>1. Calm' /\ OneCarrier'
      BY <1>0, <2>1, <2>4, Untouched DEF Calm, OneCarrier
    <3>2. ASSUME NEW i \in JobIds, WillRun(i)'
          PROVE  CarriedOK(i)'
      <4>1. /\ WillRun(i) /\ Episode(i)' = Episode(i) /\ Kind(i)' = Kind(i) /\ work'[i] = work[i]
            /\ CarriedOK(i)
        BY <1>0, <2>1, <2>4, <3>2, Untouched
      <4>2. Episode(i) \in Episodes
        BY <4>1 DEF TypeOK, JobsOK, WillRun
      <4>3. status'[Episode(i)] \in {status[Episode(i)], "deleted"}
        BY <2>1, <2>4, <4>1, <4>2 DEF CarriedOK, Taken
      <4> QED
        BY <4>1, <4>3 DEF CarriedOK, Taken, Exists
    <3> QED
      BY <3>1, <3>2 DEF CarrierInv, CarriedOK
  <2>5. CASE /\ status[e] = "unborn" /\ e \notin PollOnly /\ status'[e] = "queued"
             /\ \E f \in JobIds : Inserts(f, "resolve_content", e)
    BY <2>3, <2>5 DEF Taken
  <2>6. CASE /\ "retry" \in Events /\ status[e] = "failed" /\ status'[e] = "queued"
             /\ \E f \in JobIds : Inserts(f, ResumeKind(e), e)
    BY <2>3, <2>6 DEF Taken, ResumeKind, Orderly
  <2>7. CASE /\ "start" \in Events /\ e \in PollOnly /\ status[e] \in {"queued", "failed"}
             /\ \E k \in Stages, f \in JobIds :
                  /\ k = IF status[e] = "queued" THEN "resolve_content" ELSE ResumeKind(e)
                  /\ status'[e] = StageStatus(k) /\ Inserts(f, k, e)
    BY <2>3, <2>7 DEF Taken, ResumeKind, StageStatus, Busy
  <2> QED
    BY <1>3, <2>4, <2>5, <2>6, <2>7, CommandStatus
<1>4. CASE UNCHANGED vars
  BY <1>0, <1>4, Untouched DEF vars, CarrierInv, Calm, OneCarrier, CarriedOK, Taken, Exists
<1> QED
  BY <1>0, <1>1, <1>2, <1>3, <1>4, NoStop DEF Next, JobStep

LEMMA InitCarrier == Init => CarrierInv
<1>1. Init => \A j \in JobIds : ~WillRun(j)
  BY DEF Init, JobsInit, FreeJob, WillRun, InFlight
<1> QED
  BY <1>1, InitCalm DEF CarrierInv, OneCarrier, CarriedOK

\* As long as nothing disturbs the worker process, a job that will run and the
\* status of its episode agree, whatever fails and whatever is retried,
\* started, deleted or dropped: "failed" (finishEpisodeAttempt) and a stage's
\* closing transaction are written by the only job that could still run.
THEOREM CarrierHolds == Orderly => (Spec => [](TypeOK /\ CarrierInv))
<1> SUFFICES ASSUME Orderly PROVE Spec => [](TypeOK /\ CarrierInv)
  OBVIOUS
<1>1. Init => TypeOK /\ CarrierInv
  BY InitType, InitCarrier, PipelineAssumption
<1>2. TypeOK /\ CarrierInv /\ [Next]_vars => TypeOK' /\ CarrierInv'
  BY PipelineAssumption, TypeStep, CarrierStep
<1> QED
  BY <1>1, <1>2, PTL DEF Spec

\* At most one job at a time carries an episode: what the status column is
\* for, since the retry and the start command insert a job by the status alone.
THEOREM SingleCarrier == Orderly => (Spec => []OneCarrier)
<1>1. CarrierInv => OneCarrier
  BY DEF CarrierInv
<1> QED
  BY <1>1, CarrierHolds, PTL

\* The queue leaves a failed episode alone, until somebody retries it.
THEOREM FailedWaits == Orderly => (Spec => []FailedIsSettled)
<1>1. CarrierInv => FailedIsSettled
  <2>1. \A j \in JobIds : Calm /\ Waiting(j) => WillRun(j)
    BY DEF Calm, CalmJob, Waiting, Running, InFlight, WillRun, Returned
  <2> QED
    BY <2>1 DEF CarrierInv, FailedIsSettled, CarriedOK, Taken
<1> QED
  BY <1>1, CarrierHolds, PTL

-----------------------------------------------------------------------------
(* A published episode plays its script *)

\* The composed object that voices e's script in full.
Full(e) == [p \in Positions |-> IF p \in Wanted(e, turns[e]) THEN script[e] ELSE 0]

\* What is stored of an episode fits together: segments belong to the turns,
\* their objects voice the current script or are gone, the audio is linked
\* when the episode is published and then voices the script.
EpisodeOK(e) ==
  /\ turns[e] > 0 => docs[e] /\ Exists(e) /\ script[e] > 0
  /\ status[e] = "queued" /\ e \in PollOnly /\ "start" \in Events => turns[e] = 0
  /\ turns[e] = 0 => rows[e] = {}
  /\ rows[e] \subseteq Wanted(e, turns[e])
  /\ \A p \in rows[e] : objs[e][p] \in {0, script[e]}
  /\ linked[e] => status[e] = "published"
  /\ ~deleting[e].media
  /\ status[e] = "published" => media[e] = Full(e)

\* What a carrier of an episode has read of it is still so.
JobOK(j) ==
  WillRun(j) /\ Exists(Episode(j)) =>
    /\ Kind(j) \in {"resolve_content", "generate_script"} => turns[Episode(j)] = 0
    /\ work[j].pc \in VoicingSteps =>
         /\ work[j].ver = script[Episode(j)]
         /\ work[j].todo \subseteq Wanted(Episode(j), turns[Episode(j)])
         /\ Wanted(Episode(j), turns[Episode(j)]) \subseteq work[j].todo \cup rows[Episode(j)]
    /\ work[j].pc = "record" =>
         \A p \in Positions : FirstTodo(j, p) => objs[Episode(j)][p] \in {0, script[Episode(j)]}
    /\ Kind(j) = "compose_episode" => rows[Episode(j)] = Wanted(Episode(j), turns[Episode(j)])
    /\ work[j].pc = "upload" => work[j].audio = Full(Episode(j))
    /\ work[j].pc = "publish" => media[Episode(j)] = Full(Episode(j))

\* The inductive invariant behind PublishedVoicesScript.
ContentInv == (\A e \in Episodes : EpisodeOK(e)) /\ (\A j \in JobIds : JobOK(j))

StoryInv == PipelineInv /\ CarrierInv /\ ContentInv

\* Everything that is known of episode x stays.
Still(x) ==
  /\ status'[x] = status[x] /\ docs'[x] = docs[x] /\ turns'[x] = turns[x]
  /\ script'[x] = script[x] /\ rows'[x] = rows[x] /\ linked'[x] = linked[x]
  /\ objs'[x] = objs[x] /\ media'[x] = media[x] /\ deleting'[x] = deleting[x]

LEMMA StillOK ==
  ASSUME NEW x, Still(x)
  PROVE  /\ EpisodeOK(x)' = EpisodeOK(x)
         /\ Exists(x)' = Exists(x) /\ Full(x)' = Full(x)
<1>1. Exists(x)' = Exists(x) /\ Full(x)' = Full(x)
  BY DEF Still, Exists, Full
<1>2. EpisodeOK(x)' = EpisodeOK(x)
  BY <1>1 DEF Still, EpisodeOK
<1> QED
  BY <1>1, <1>2

\* So do the facts about a carrier that has not moved.
LEMMA StillCarried ==
  ASSUME NEW i, jobs'[i] = jobs[i], work'[i] = work[i], Still(Episode(i)), JobOK(i)
  PROVE  JobOK(i)'
<1>1. PICK x : x = Episode(i)
  OBVIOUS
<1>2. /\ WillRun(i)' = WillRun(i) /\ Kind(i)' = Kind(i) /\ Episode(i)' = x
      /\ Exists(x)' = Exists(x) /\ Full(x)' = Full(x)
  BY <1>1, Untouched, StillOK
<1>3. \A p : FirstTodo(i, p)' = FirstTodo(i, p)
  BY DEF FirstTodo
<1> QED
  BY <1>1, <1>2, <1>3 DEF JobOK, Still

\* A step about episode e after which c, if any, is its only carrier.
LEMMA ContentFrame ==
  ASSUME TypeOK, ContentInv, NEW e \in Episodes, NEW c,
         \A x \in Episodes : x # e => Still(x),
         \A i \in JobIds : i # c /\ WillRun(i)' =>
           jobs'[i] = jobs[i] /\ work'[i] = work[i] /\ Episode(i) # e,
         EpisodeOK(e)', c \in JobIds /\ WillRun(c)' => JobOK(c)'
  PROVE  ContentInv'
<1>1. \A x \in Episodes : EpisodeOK(x)'
  BY StillOK DEF ContentInv
<1>2. ASSUME NEW i \in JobIds, i # c, WillRun(i)'
      PROVE  JobOK(i)'
  <2>1. jobs'[i] = jobs[i] /\ work'[i] = work[i] /\ Episode(i) # e
    BY <1>2
  <2>2. Episode(i) \in Episodes
    BY <1>2, <2>1, Untouched DEF TypeOK, JobsOK, WillRun
  <2> QED
    BY <2>1, <2>2, StillCarried DEF ContentInv
<1>3. \A i \in JobIds : ~WillRun(i)' => JobOK(i)'
  BY DEF JobOK
<1> QED
  BY <1>1, <1>2, <1>3 DEF ContentInv

\* What a worker's step alone does to the other carriers.
LEMMA AloneContent ==
  ASSUME TypeOK, CarrierInv, ContentInv, NEW j \in JobIds, Alone(j), WillRun(j),
         NEW e \in Episodes, e = Episode(j),
         \A x \in Episodes : x # e => Still(x),
         EpisodeOK(e)', WillRun(j)' => JobOK(j)'
  PROVE  ContentInv'
<1>1. \A i \in JobIds : i # j => jobs'[i] = jobs[i] /\ work'[i] = work[i]
  BY DEF Alone, Steps
<1>2. \A i \in JobIds : i # j /\ WillRun(i)' => Episode(i) # e
  BY <1>1, Untouched DEF CarrierInv, OneCarrier
<1> QED
  BY <1>1, <1>2, ContentFrame

\* What is known when a worker acts.
LEMMA Known ==
  ASSUME PipelineAssumption, StoryInv, NEW j \in JobIds, WorkerStep(j), NEW e, e = Episode(j)
  PROVE  /\ TypeOK /\ CarrierInv /\ ContentInv
         /\ e \in Episodes /\ WillRun(j) /\ Running(j)
         /\ EpisodeOK(e) /\ Taken(e) /\ JobOK(j)
         /\ turns[e] \in 0..MaxTurns /\ turns[e] \in Nat /\ script[e] \in 0..MaxScripts /\ script[e] \in Nat
         /\ rows[e] \subseteq Positions /\ docs[e] \in BOOLEAN /\ linked[e] \in BOOLEAN
         /\ objs[e] \in Parts /\ media[e] \in Parts
         /\ Exists(e) => HasInput(Kind(j), e)
         /\ status \in [Episodes -> Statuses \cup {"unborn", "deleted"}]
         /\ work[j] \in WorkType /\ work \in [JobIds -> WorkType]
<1>1. /\ TypeOK /\ CarrierInv /\ ContentInv /\ StageInputs
      /\ Calm /\ \A i \in JobIds : CarriedOK(i)
  BY DEF StoryInv, CarrierInv, PipelineInv
<1>2. e \in Episodes /\ WillRun(j) /\ Running(j)
  BY <1>1, ActsAlive
<1>3. EpisodeOK(e) /\ Taken(e) /\ JobOK(j)
  BY <1>1, <1>2 DEF ContentInv, CarriedOK
<1>4. RowsOK /\ ObjectsOK /\ work \in [JobIds -> WorkType]
  BY <1>1 DEF TypeOK
<1>5. /\ turns[e] \in 0..MaxTurns /\ script[e] \in 0..MaxScripts
      /\ MaxTurns \in Nat /\ MaxScripts \in Nat
      /\ rows[e] \subseteq Positions /\ docs[e] \in BOOLEAN /\ linked[e] \in BOOLEAN
      /\ status \in [Episodes -> Statuses \cup {"unborn", "deleted"}]
  BY <1>2, <1>4 DEF RowsOK, PipelineAssumption
<1>6. objs[e] \in Parts /\ media[e] \in Parts
  BY <1>2, <1>4 DEF ObjectsOK
<1>7. Exists(e) => HasInput(Kind(j), e)
  BY <1>1, <1>2 DEF StageInputs, Running, InFlight
<1> QED
  BY <1>1, <1>2, <1>3, <1>4, <1>5, <1>6, <1>7

\* A worker's step that writes no more than the status, a status of an
\* unfinished or failed episode.
LEMMA StatusContent ==
  ASSUME PipelineAssumption, StoryInv, NEW j \in JobIds, WorkerStep(j), Alone(j),
         UNCHANGED <<content, objects, deleting>>,
         UNCHANGED status \/ \E s \in Busy \cup {"failed"} : SetStatus(Episode(j), s),
         work'[j].pc \in {"stage", "error", "permanent"}
  PROVE  ContentInv'
<1>0. PICK e : e = Episode(j)
  OBVIOUS
<1>1. /\ TypeOK /\ CarrierInv /\ ContentInv /\ e \in Episodes /\ WillRun(j)
      /\ EpisodeOK(e) /\ Taken(e) /\ JobOK(j)
  BY <1>0, Known
<1>2. /\ \A x \in Episodes : x # e => status'[x] = status[x]
      /\ status'[e] = status[e] \/ (Exists(e) /\ status'[e] \in Busy \cup {"failed"})
  BY <1>0, <1>1, SetsOne
<1>3. /\ UNCHANGED <<docs, turns, script, rows, linked, objs, media, deleting>>
      /\ \A x \in Episodes : x # e => Still(x)
  BY <1>2 DEF Still, content, objects
<1>4. Exists(e)' = Exists(e) /\ Full(e)' = Full(e)
  BY <1>2, <1>3 DEF Exists, Full, Busy
<1>5. EpisodeOK(e)'
  BY <1>1, <1>2, <1>3, <1>4 DEF EpisodeOK, Taken, Busy
<1>6. Kind(j)' = Kind(j) /\ Episode(j)' = e
  BY <1>0 DEF Alone, Kind, Episode
<1>7. JobOK(j)'
  BY <1>0, <1>1, <1>3, <1>4, <1>6 DEF JobOK, VoicingSteps
<1> QED
  BY <1>0, <1>1, <1>3, <1>5, <1>7, AloneContent

\* A worker's step that only reads and moves on.
LEMMA ReadContent ==
  ASSUME PipelineAssumption, StoryInv, NEW j \in JobIds, WorkerStep(j),
         LoadTurns(j) \/ SkipExisting(j) \/ ReadSegments(j)
  PROVE  ContentInv'
<1>0. PICK e : e = Episode(j)
  OBVIOUS
<1>1. /\ TypeOK /\ CarrierInv /\ ContentInv /\ e \in Episodes /\ WillRun(j)
      /\ EpisodeOK(e) /\ JobOK(j)
      /\ turns[e] \in Nat /\ script[e] \in Nat /\ rows[e] \subseteq Positions
      /\ objs[e] \in Parts
      /\ Exists(e) => HasInput(Kind(j), e)
      /\ work \in [JobIds -> WorkType]
  BY <1>0, Known
<1>2. UNCHANGED <<status, docs, turns, script, rows, linked, objs, media, deleting>>
  BY DEF LoadTurns, SkipExisting, ReadSegments, content, objects, commands
<1>3. \A x : Still(x)
  BY <1>2 DEF Still
<1>4. Exists(e)' = Exists(e) /\ Full(e)' = Full(e) /\ EpisodeOK(e)'
  BY <1>1, <1>3, StillOK
<1>5. Alone(j) /\ Kind(j)' = Kind(j) /\ Episode(j)' = e
  <2>1. ~Closes(j)
    BY DEF Closes, LoadTurns, SkipExisting, ReadSegments, StoreDocuments, StoreScript, FinishTTS, At
  <2>2. Alone(j)
    BY <2>1, WorkerShape, <1>1
  <2> QED
    BY <1>0, <2>2 DEF Alone, Kind, Episode
<1>6. CASE LoadTurns(j)
  <2>1. /\ work'[j] = Reached("existing", script[e], Wanted(e, turns[e]), Silence)
        /\ Kind(j) = "generate_tts"
    BY <1>0, <1>1, <1>6 DEF LoadTurns, At
  <2>2. JobOK(j)'
    BY <1>2, <1>4, <1>5, <2>1 DEF JobOK, VoicingSteps, Reached
  <2> QED
    BY <1>0, <1>1, <1>3, <1>4, <1>5, <2>2, AloneContent
<1>7. CASE SkipExisting(j)
  <2>1. /\ work'[j] = Reached("voice", work[j].ver, work[j].todo \ rows[e], Silence)
        /\ Kind(j) = "generate_tts" /\ work[j].pc \in VoicingSteps
    BY <1>0, <1>1, <1>7 DEF SkipExisting, At, VoicingSteps
  <2>2. /\ work'[j].pc = "voice" /\ work'[j].ver = work[j].ver
        /\ work'[j].todo = work[j].todo \ rows[e]
    BY <2>1 DEF Reached
  <2>3. Exists(e) => /\ work[j].ver = script[e]
                     /\ work[j].todo \subseteq Wanted(e, turns[e])
                     /\ Wanted(e, turns[e]) \subseteq work[j].todo \cup rows[e]
    BY <1>0, <1>1, <2>1 DEF JobOK
  <2>4. JobOK(j)'
    BY <1>2, <1>4, <1>5, <2>1, <2>2, <2>3 DEF JobOK
  <2> QED
    BY <1>0, <1>1, <1>3, <1>4, <1>5, <2>4, AloneContent
<1>8. CASE ReadSegments(j)
  <2>1. /\ work'[j] = Reached("upload", 0, {}, [p \in Positions |-> IF p \in rows[e] THEN objs[e][p] ELSE 0])
        /\ Kind(j) = "compose_episode" /\ \A p \in rows[e] : objs[e][p] # 0
    BY <1>0, <1>1, <1>8 DEF ReadSegments, At
  <2>2. /\ work'[j].pc = "upload"
        /\ work'[j].audio = [p \in Positions |-> IF p \in rows[e] THEN objs[e][p] ELSE 0]
    BY <2>1 DEF Reached
  <2>3. ASSUME Exists(e) PROVE rows[e] = Wanted(e, turns[e]) /\ work'[j].audio = Full(e)
    <3>1. rows[e] = Wanted(e, turns[e])
      BY <1>0, <1>1, <2>1, <2>3 DEF JobOK
    <3>2. \A p \in rows[e] : objs[e][p] = script[e]
      BY <1>1, <2>1 DEF EpisodeOK
    <3> QED
      BY <2>2, <3>1, <3>2 DEF Full
  <2>4. JobOK(j)'
    BY <1>2, <1>4, <1>5, <2>1, <2>2, <2>3 DEF JobOK, VoicingSteps
  <2> QED
    BY <1>0, <1>1, <1>3, <1>4, <1>5, <2>4, AloneContent
<1> QED
  BY <1>6, <1>7, <1>8

\* The object of a segment is written for the script that was read.
LEMMA PutSegmentContent ==
  ASSUME PipelineAssumption, StoryInv, NEW j \in JobIds, PutSegment(j)
  PROVE  ContentInv'
<1>0. PICK e : e = Episode(j)
  OBVIOUS
<1>1. WorkerStep(j) /\ ~Closes(j)
  BY DEF WorkerStep, PutSegment, FirstTodo, Closes, StoreDocuments, StoreScript, FinishTTS, At
<1>2. /\ TypeOK /\ CarrierInv /\ ContentInv /\ e \in Episodes /\ WillRun(j)
      /\ EpisodeOK(e) /\ JobOK(j)
      /\ turns[e] \in Nat /\ script[e] \in Nat /\ rows[e] \subseteq Positions
      /\ objs[e] \in Parts
      /\ work[j] \in WorkType
  BY <1>0, <1>1, Known
<1>3. PICK p \in Positions : FirstTodo(j, p) /\ objs' = [objs EXCEPT ![e][p] = work[j].ver]
  BY <1>0 DEF PutSegment
<1>4. /\ UNCHANGED <<status, docs, turns, script, rows, linked, media, deleting>>
      /\ Kind(j) = "generate_tts" /\ work[j].pc = "voice" /\ Goto(j, "record")
  BY DEF PutSegment, At, content, commands
<1>5. /\ \A x \in Episodes : x # e => objs'[x] = objs[x]
      /\ objs'[e][p] = work[j].ver
      /\ \A q \in Positions : q # p => objs'[e][q] = objs[e][q]
  BY <1>2, <1>3 DEF TypeOK, ObjectsOK, Parts
<1>6. /\ Alone(j) /\ Kind(j)' = Kind(j) /\ Episode(j)' = e
      /\ work'[j].pc = "record" /\ work'[j].ver = work[j].ver /\ work'[j].todo = work[j].todo
  <2>1. Alone(j)
    BY <1>1, <1>2, WorkerShape
  <2> QED
    BY <1>0, <1>2, <1>4, <2>1 DEF Alone, Kind, Episode, Goto, TypeOK, WorkType
<1>7. \A x \in Episodes : x # e => Still(x)
  BY <1>4, <1>5 DEF Still
<1>8. Exists(e)' = Exists(e) /\ Full(e)' = Full(e)
  BY <1>4 DEF Exists, Full
<1>9. Exists(e) => /\ work[j].ver = script[e]
                   /\ work[j].todo \subseteq Wanted(e, turns[e])
                   /\ Wanted(e, turns[e]) \subseteq work[j].todo \cup rows[e]
  BY <1>0, <1>2, <1>4 DEF JobOK, VoicingSteps
<1>10. ~Exists(e) => rows[e] = {}
  BY <1>2 DEF EpisodeOK
<1>11. EpisodeOK(e)'
  BY <1>2, <1>4, <1>5, <1>8, <1>9, <1>10 DEF EpisodeOK
<1>12. \A q \in Positions : FirstTodo(j, q)' => q = p
  BY <1>3, <1>6, PositionFacts DEF FirstTodo
<1>13. JobOK(j)'
  BY <1>4, <1>5, <1>6, <1>8, <1>9, <1>12 DEF JobOK, VoicingSteps
<1> QED
  BY <1>0, <1>2, <1>6, <1>7, <1>11, <1>13, AloneContent

\* A segment is recorded whose object is the script's or was just removed.
LEMMA RecordSegmentContent ==
  ASSUME PipelineAssumption, StoryInv, NEW j \in JobIds, RecordSegment(j)
  PROVE  ContentInv'
<1>0. PICK e : e = Episode(j)
  OBVIOUS
<1>1. WorkerStep(j) /\ ~Closes(j)
  BY DEF WorkerStep, RecordSegment, Closes, StoreDocuments, StoreScript, FinishTTS, At
<1>2. /\ TypeOK /\ CarrierInv /\ ContentInv /\ e \in Episodes /\ WillRun(j)
      /\ EpisodeOK(e) /\ JobOK(j)
      /\ turns[e] \in Nat /\ script[e] \in Nat /\ rows[e] \subseteq Positions
      /\ Exists(e) => HasInput(Kind(j), e)
      /\ work \in [JobIds -> WorkType]
  BY <1>0, <1>1, Known
<1>3. PICK p \in Positions :
        /\ FirstTodo(j, p)
        /\ rows' = [rows EXCEPT ![e] = @ \cup {p}]
        /\ work' = [work EXCEPT ![j] = Reached("voice", @.ver, @.todo \ {p}, Silence)]
  BY <1>0 DEF RecordSegment
<1>4. /\ UNCHANGED <<status, docs, turns, script, linked, objs, media, deleting>>
      /\ Kind(j) = "generate_tts" /\ work[j].pc = "record" /\ Exists(e)
  BY <1>0 DEF RecordSegment, At, objects, commands
<1>5. /\ \A x \in Episodes : x # e => rows'[x] = rows[x]
      /\ rows'[e] = rows[e] \cup {p}
  BY <1>2, <1>3 DEF TypeOK, RowsOK
<1>6. /\ work'[j].pc = "voice" /\ work'[j].ver = work[j].ver
      /\ work'[j].todo = work[j].todo \ {p}
  BY <1>2, <1>3 DEF Reached
<1>7. Alone(j) /\ Kind(j)' = Kind(j) /\ Episode(j)' = e
  <2>1. Alone(j)
    BY <1>1, <1>2, WorkerShape
  <2> QED
    BY <1>0, <2>1 DEF Alone, Kind, Episode
<1>8. \A x \in Episodes : x # e => Still(x)
  BY <1>4, <1>5 DEF Still
<1>9. Exists(e)' /\ Full(e)' = Full(e)
  BY <1>4 DEF Exists, Full
<1>10. /\ work[j].ver = script[e]
       /\ work[j].todo \subseteq Wanted(e, turns[e])
       /\ Wanted(e, turns[e]) \subseteq work[j].todo \cup rows[e]
       /\ objs[e][p] \in {0, script[e]}
  BY <1>0, <1>2, <1>3, <1>4 DEF JobOK, VoicingSteps
<1>11. p \in Wanted(e, turns[e]) /\ turns[e] # 0
  BY <1>2, <1>3, <1>4, <1>10 DEF FirstTodo, HasInput
<1>12. EpisodeOK(e)'
  BY <1>2, <1>4, <1>5, <1>9, <1>10, <1>11 DEF EpisodeOK
<1>13. JobOK(j)'
  BY <1>4, <1>5, <1>6, <1>7, <1>10 DEF JobOK, VoicingSteps
<1> QED
  BY <1>0, <1>2, <1>7, <1>8, <1>12, <1>13, AloneContent

\* Compose uploads the script in full, and publishes what it uploaded.
LEMMA ComposeContent ==
  ASSUME PipelineAssumption, StoryInv, NEW j \in JobIds, PutMedia(j) \/ Publish(j)
  PROVE  ContentInv'
<1>0. PICK e : e = Episode(j)
  OBVIOUS
<1>1. WorkerStep(j) /\ ~Closes(j)
  BY DEF WorkerStep, PutMedia, Publish, Closes, StoreDocuments, StoreScript, FinishTTS, At
<1>2. /\ TypeOK /\ CarrierInv /\ ContentInv /\ e \in Episodes /\ WillRun(j)
      /\ EpisodeOK(e) /\ Taken(e) /\ JobOK(j)
      /\ turns[e] \in Nat /\ linked[e] \in BOOLEAN
      /\ work \in [JobIds -> WorkType]
  BY <1>0, <1>1, Known
<1>3. Alone(j) /\ Kind(j)' = Kind(j) /\ Episode(j)' = e
  <2>1. Alone(j)
    BY <1>1, <1>2, WorkerShape
  <2> QED
    BY <1>0, <2>1 DEF Alone, Kind, Episode
<1>4. CASE PutMedia(j)
  <2>1. /\ UNCHANGED <<status, docs, turns, script, rows, linked, objs, deleting>>
        /\ media' = [media EXCEPT ![e] = work[j].audio]
        /\ Kind(j) = "compose_episode" /\ work[j].pc = "upload" /\ Goto(j, "publish")
    BY <1>0, <1>4 DEF PutMedia, At, content, commands
  <2>2. /\ media'[e] = work[j].audio /\ \A x \in Episodes : x # e => media'[x] = media[x]
        /\ work'[j].pc = "publish"
    BY <1>2, <2>1 DEF TypeOK, ObjectsOK, Goto, WorkType
  <2>3. Exists(e)' = Exists(e) /\ Full(e)' = Full(e) /\ \A x \in Episodes : x # e => Still(x)
    BY <2>1, <2>2 DEF Exists, Full, Still
  <2>4. Exists(e) => work[j].audio = Full(e) /\ rows[e] = Wanted(e, turns[e])
    BY <1>0, <1>2, <2>1 DEF JobOK
  <2>5. EpisodeOK(e)'
    BY <1>2, <2>1, <2>3 DEF EpisodeOK, Taken
  <2>6. JobOK(j)'
    BY <1>3, <2>1, <2>2, <2>3, <2>4 DEF JobOK, VoicingSteps
  <2> QED
    BY <1>0, <1>2, <1>3, <2>3, <2>5, <2>6, AloneContent
<1>5. CASE Publish(j)
  <2>1. /\ UNCHANGED <<docs, turns, script, rows, objs, media, deleting>>
        /\ SetStatus(e, "published") /\ linked' = [linked EXCEPT ![e] = @ \/ Exists(e)]
        /\ work[j].pc = "publish" /\ Goto(j, "ok")
    BY <1>0, <1>5 DEF Publish, At, objects, commands
  <2>2. /\ status'[e] = IF Exists(e) THEN "published" ELSE status[e]
        /\ \A x \in Episodes : x # e => status'[x] = status[x]
    BY <1>2, <2>1, SetsOne
  <2>3. /\ linked'[e] = (linked[e] \/ Exists(e))
        /\ \A x \in Episodes : x # e => linked'[x] = linked[x]
    BY <1>2, <2>1 DEF TypeOK, RowsOK
  <2>4. work'[j].pc = "ok"
    BY <1>2, <2>1 DEF Goto, WorkType
  <2>5. ~WillRun(j)'
    <3>1. Calm
      BY <1>2 DEF CarrierInv
    <3> QED
      BY <1>3, <2>4, <3>1, AloneCalm DEF Returned
  <2>6. Exists(e)' = Exists(e) /\ Full(e)' = Full(e) /\ \A x \in Episodes : x # e => Still(x)
    BY <2>1, <2>2, <2>3 DEF Exists, Full, Still
  <2>7. Exists(e) => media[e] = Full(e)
    BY <1>0, <1>2, <2>1 DEF JobOK
  <2>8. ~linked[e]
    BY <1>2 DEF EpisodeOK, Taken
  <2>9. EpisodeOK(e)'
    <3>1. CASE Exists(e)
      <4>1. status'[e] = "published" /\ Exists(e)'
        BY <2>2, <2>6, <3>1
      <4> QED
        BY <1>2, <2>1, <2>6, <2>7, <3>1, <4>1 DEF EpisodeOK
    <3>2. CASE ~Exists(e)
      <4>1. status'[e] = status[e] /\ ~linked'[e]
        BY <2>2, <2>3, <2>8, <3>2
      <4> QED
        BY <1>2, <2>1, <2>6, <4>1 DEF EpisodeOK, Taken
    <3> QED
      BY <3>1, <3>2
  <2> QED
    BY <1>0, <1>2, <1>3, <2>5, <2>6, <2>9, AloneContent
<1> QED
  BY <1>4, <1>5

\* A worker that closes its stage: the next job finds the facts it builds on.
LEMMA CloseContent ==
  ASSUME PipelineAssumption, StoryInv, NEW j \in JobIds, WorkerStep(j), Closes(j)
  PROVE  ContentInv'
<1>0. PICK e : e = Episode(j)
  OBVIOUS
<1>1. /\ TypeOK /\ CarrierInv /\ ContentInv /\ e \in Episodes /\ WillRun(j)
      /\ EpisodeOK(e) /\ Taken(e) /\ JobOK(j) /\ Running(j)
      /\ turns[e] \in Nat /\ script[e] \in Nat
      /\ Exists(e) => HasInput(Kind(j), e)
  BY <1>0, Known
<1>2. /\ Calm /\ RowsOK /\ UNCHANGED stop
      /\ \A i \in JobIds : i # j /\ WillRun(i) => Episode(i) # e
  BY <1>0, <1>1 DEF CarrierInv, OneCarrier, TypeOK, Closes, StoreDocuments, StoreScript, FinishTTS,
                    commands
<1>3. ASSUME NEW s \in Busy, NEW k \in Stages, Advance(j, s, k),
             \A x \in Episodes : x # e => docs'[x] = docs[x] /\ turns'[x] = turns[x] /\ script'[x] = script[x],
             UNCHANGED <<rows, linked, objs, media, deleting>>,
             /\ turns'[e] > 0 => docs'[e] /\ Exists(e) /\ script'[e] > 0
             /\ turns'[e] = 0 => rows[e] = {}
             /\ rows[e] \subseteq Wanted(e, turns'[e])
             /\ \A p \in rows[e] : objs[e][p] \in {0, script'[e]},
             Exists(e) =>
               /\ k \in {"resolve_content", "generate_script"} => turns'[e] = 0
               /\ k = "compose_episode" => rows[e] = Wanted(e, turns'[e])
      PROVE  ContentInv'
  <2>1. /\ \A x \in Episodes : x # e => status'[x] = status[x]
        /\ status'[e] = IF Exists(e) THEN s ELSE status[e]
    BY <1>0, <1>1, <1>3, SetsOne DEF Advance
  <2>2. PICK f \in JobIds : Inserts(f, k, e)
    BY <1>0, <1>1, <1>2, <1>3, HandsOver
  <2>3. Steps(j) /\ work'[j].pc = "ok"
    BY <1>1, <1>2, <1>3, HandsOver
  <2>4. /\ ~WillRun(j)'
        /\ \A i \in JobIds : i # j /\ i # f => jobs'[i] = jobs[i] /\ work'[i] = work[i]
        /\ work'[f].pc = "idle" /\ Kind(f)' = k /\ Episode(f)' = e
    BY <1>2, <2>2, <2>3, HandoverCalm
  <2>5. Exists(e)' = Exists(e) /\ \A x \in Episodes : x # e => Still(x)
    BY <1>3, <2>1 DEF Exists, Still, Busy
  <2>6. EpisodeOK(e)'
    BY <1>1, <1>3, <2>1, <2>5 DEF EpisodeOK, Taken, Busy
  <2>7. JobOK(f)'
    BY <1>3, <2>4, <2>5 DEF JobOK, VoicingSteps
  <2>8. \A i \in JobIds : i # f /\ WillRun(i)' =>
          jobs'[i] = jobs[i] /\ work'[i] = work[i] /\ Episode(i) # e
    BY <1>2, <2>4, Untouched
  <2> QED
    BY <1>1, <2>5, <2>6, <2>7, <2>8, ContentFrame
<1>4. CASE StoreDocuments(j)
  <2>1. /\ Advance(j, "content_ready", "generate_script") /\ docs' = [docs EXCEPT ![e] = TRUE]
        /\ UNCHANGED <<turns, script, rows, linked, objs, media, deleting>>
        /\ Kind(j) = "resolve_content"
    BY <1>0, <1>4 DEF StoreDocuments, At, objects, commands
  <2>2. docs'[e] = TRUE /\ \A x \in Episodes : x # e => docs'[x] = docs[x]
    BY <1>1, <1>2, <2>1 DEF RowsOK
  <2>3. Exists(e) => turns[e] = 0
    BY <1>0, <1>1, <2>1 DEF JobOK
  <2> QED
    BY <1>1, <1>3, <2>1, <2>2, <2>3 DEF EpisodeOK, Busy, Stages
<1>5. CASE StoreScript(j)
  <2>1. PICK n \in 1..MaxTurns : turns' = [turns EXCEPT ![e] = n]
    BY <1>0, <1>5 DEF StoreScript
  <2>2. /\ Advance(j, "script_ready", "generate_tts") /\ script' = [script EXCEPT ![e] = @ + 1]
        /\ UNCHANGED <<docs, rows, linked, objs, media, deleting>>
        /\ Kind(j) = "generate_script" /\ Exists(e) /\ docs[e]
    BY <1>0, <1>5 DEF StoreScript, At, objects, commands
  <2>3. /\ turns'[e] = n /\ n > 0 /\ script'[e] = script[e] + 1
        /\ \A x \in Episodes : x # e => turns'[x] = turns[x] /\ script'[x] = script[x]
    BY <1>1, <1>2, <2>1, <2>2 DEF RowsOK
  <2>4. script'[e] > 0
    BY <1>1, <2>3
  <2>5. turns[e] = 0 /\ rows[e] = {}
    BY <1>0, <1>1, <2>2 DEF JobOK, EpisodeOK
  <2> QED
    BY <1>3, <2>2, <2>3, <2>4, <2>5 DEF Busy, Stages
<1>6. CASE FinishTTS(j)
  <2>1. /\ Advance(j, "composing", "compose_episode")
        /\ UNCHANGED <<docs, turns, script, rows, linked, objs, media, deleting>>
        /\ work[j].pc = "voice" /\ work[j].todo = {}
    BY <1>6 DEF FinishTTS, At, content, objects, commands
  <2>2. Exists(e) => rows[e] = Wanted(e, turns[e])
    BY <1>0, <1>1, <2>1 DEF JobOK, EpisodeOK, VoicingSteps
  <2> QED
    BY <1>1, <1>3, <2>1, <2>2 DEF EpisodeOK, Busy, Stages
<1> QED
  BY <1>4, <1>5, <1>6 DEF Closes

\* Every worker's step keeps what is stored in agreement.
LEMMA WorkerContent ==
  ASSUME PipelineAssumption, StoryInv, NEW j \in JobIds, WorkerStep(j)
  PROVE  ContentInv'
<1>1. CASE Closes(j)
  BY <1>1, CloseContent
<1>2. CASE ~Closes(j)
  <2>0. /\ Alone(j) /\ work \in [JobIds -> WorkType] /\ jobs[j].ctx = "live"
    BY <1>2, Known, WorkerShape, ActsAlive DEF StoryInv, PipelineInv, CarrierInv
  <2>1. CASE MarkStage(j)
    <3>1. /\ SetStatus(Episode(j), StageStatus(Kind(j))) /\ StageStatus(Kind(j)) \in Busy
          /\ work'[j].pc = "stage" /\ UNCHANGED <<content, objects, deleting>>
      BY <2>0, <2>1 DEF MarkStage, StageStatus, Busy, Goto, WorkType, commands
    <3> QED
      BY <2>0, <3>1, StatusContent
  <2>2. CASE MarkFails(j) \/ FailUnrecorded(j)
    <3>1. work'[j].pc = "error" /\ UNCHANGED <<status, content, objects, deleting>>
      BY <2>0, <2>2 DEF MarkFails, FailUnrecorded, Goto, WorkType, commands
    <3> QED
      BY <2>0, <3>1, StatusContent
  <2>3. ASSUME NEW permanent \in BOOLEAN, Fail(j, permanent)
        PROVE  ContentInv'
    <3>1. /\ SetStatus(Episode(j), AttemptStatus(j, permanent))
          /\ AttemptStatus(j, permanent) \in Busy \cup {"failed"}
          /\ UNCHANGED <<content, objects, deleting>>
      BY <2>3 DEF Fail, AttemptStatus, Busy, commands
    <3>2. work'[j].pc \in {"error", "permanent"}
      BY <2>0, <2>3 DEF Fail, Goto, WorkType
    <3> QED
      BY <2>0, <3>1, <3>2, StatusContent
  <2> QED
    BY <1>2, <2>1, <2>2, <2>3, ReadContent, PutSegmentContent, RecordSegmentContent, ComposeContent
       DEF WorkerStep, Closes
<1> QED
  BY <1>1, <1>2

\* A step that moves jobs along and leaves what is stored alone.
LEMMA ContentStays ==
  ASSUME ContentInv, \A x \in Episodes : Still(x), TypeOK,
         \A i \in JobIds : WillRun(i)' =>
           /\ WillRun(i) /\ Kind(i)' = Kind(i) /\ Episode(i)' = Episode(i)
           /\ work'[i] = work[i] \/ work'[i].pc \in {"idle", "mark", "stage"}
  PROVE  ContentInv'
<1>1. \A x \in Episodes : EpisodeOK(x)' /\ Exists(x)' = Exists(x) /\ Full(x)' = Full(x)
  BY StillOK DEF ContentInv
<1>2. ASSUME NEW i \in JobIds, WillRun(i)'
      PROVE  JobOK(i)'
  <2>1. PICK x : x = Episode(i)
    OBVIOUS
  <2>2. /\ WillRun(i) /\ Kind(i)' = Kind(i) /\ Episode(i)' = x
        /\ work'[i] = work[i] \/ work'[i].pc \in {"idle", "mark", "stage"}
    BY <1>2, <2>1
  <2>3. x \in Episodes /\ JobOK(i)
    BY <2>1, <2>2 DEF TypeOK, JobsOK, WillRun, ContentInv
  <2>4. Exists(x)' = Exists(x) /\ Full(x)' = Full(x) /\ Still(x)
    BY <1>1, <2>3
  <2>5. CASE work'[i] = work[i]
    <3>1. \A p : FirstTodo(i, p)' = FirstTodo(i, p)
      BY <2>5 DEF FirstTodo
    <3> QED
      BY <2>1, <2>2, <2>3, <2>4, <2>5, <3>1 DEF JobOK, Still
  <2>6. CASE work'[i].pc \in {"idle", "mark", "stage"}
    BY <2>1, <2>2, <2>3, <2>4, <2>6 DEF JobOK, Still, VoicingSteps
  <2> QED
    BY <2>2, <2>5, <2>6
<1>3. \A i \in JobIds : ~WillRun(i)' => JobOK(i)'
  BY DEF JobOK
<1> QED
  BY <1>1, <1>2, <1>3 DEF ContentInv

\* A poll, a retry or a start finds no carrier, and a failed or waiting
\* episode whose rows fit the stage it chooses.
LEMMA LaunchContent ==
  ASSUME PipelineAssumption, Orderly, StoryInv, NEW e \in Episodes, Poll(e) \/ Retry(e) \/ Start(e)
  PROVE  ContentInv'
<1>1. /\ TypeOK /\ ContentInv /\ EpisodeOK(e) /\ Calm
      /\ \A i \in JobIds : WillRun(i) /\ Episode(i) = e => Taken(e)
      /\ UNCHANGED <<work, content, objects, deleting, stop>>
  BY DEF StoryInv, PipelineInv, CarrierInv, ContentInv, CarriedOK, Poll, Retry, Start, commands
<1>2. turns[e] \in Nat /\ docs[e] \in BOOLEAN
  BY <1>1 DEF TypeOK, RowsOK, PipelineAssumption
<1>3. UNCHANGED <<docs, turns, script, rows, linked, objs, media, deleting>>
  BY <1>1 DEF content, objects
<1>4. /\ \A x \in Episodes : x # e => status'[x] = status[x]
      /\ EpisodeCommand(e)
  BY <1>1, CommandStatus DEF EpisodeCommand
<1>5. \A x \in Episodes : x # e => Still(x)
  BY <1>3, <1>4 DEF Still
<1>6. Full(e)' = Full(e)
  BY <1>3 DEF Full
<1>7. ASSUME ~Taken(e), NEW k, NEW f, Inserts(f, k, e), k # "compose_episode",
             k \in {"resolve_content", "generate_script"} => turns[e] = 0
      PROVE  /\ \A i \in JobIds : i # f /\ WillRun(i)' =>
                  jobs'[i] = jobs[i] /\ work'[i] = work[i] /\ Episode(i) # e
             /\ JobOK(f)'
  <2>1. /\ \A i \in JobIds : i # f => jobs'[i] = jobs[i] /\ work'[i] = work[i]
        /\ Episode(f)' = e /\ Kind(f)' = k /\ work'[f].pc = "idle"
    BY <1>1, <1>7, LaunchCalm
  <2>2. \A i \in JobIds : i # f /\ WillRun(i)' => Episode(i) # e
    BY <1>1, <1>7, <2>1, Untouched
  <2>3. JobOK(f)'
    BY <1>3, <1>7, <2>1 DEF JobOK, VoicingSteps
  <2> QED
    BY <2>1, <2>2, <2>3
<1>8. ResumeKind(e) # "compose_episode" /\
      (ResumeKind(e) \in {"resolve_content", "generate_script"} => turns[e] = 0)
  BY <1>1, <1>2 DEF ResumeKind, EpisodeOK
<1>9. CASE status[e] = "unborn" /\ status'[e] = "queued"
  <2>1. turns[e] = 0 /\ ~Taken(e)
    BY <1>1, <1>2, <1>9 DEF EpisodeOK, Exists, Taken
  <2>2. EpisodeOK(e)'
    BY <1>1, <1>3, <1>6, <1>9, <2>1 DEF EpisodeOK
  <2>3. CASE UNCHANGED jobs
    <3>1. \A i \in JobIds : i # 0 /\ WillRun(i)' =>
            jobs'[i] = jobs[i] /\ work'[i] = work[i] /\ Episode(i) # e
      BY <1>1, <2>1, <2>3, Untouched
    <3>2. 0 \notin JobIds
      BY DEF JobIds
    <3> QED
      BY <1>1, <1>5, <2>2, <3>1, <3>2, ContentFrame
  <2>4. CASE \E f \in JobIds : Inserts(f, "resolve_content", e)
    BY <1>1, <1>5, <1>7, <2>1, <2>2, <2>4, ContentFrame
  <2> QED
    BY <1>1, <1>4, <1>9, <2>3, <2>4, CommandStatus
<1>10. CASE /\ "retry" \in Events /\ status[e] = "failed" /\ status'[e] = "queued"
            /\ \E f \in JobIds : Inserts(f, ResumeKind(e), e)
  <2>1. ~Taken(e)
    BY <1>10 DEF Taken
  <2>2. EpisodeOK(e)'
    <3>1. Exists(e) /\ Exists(e)'
      BY <1>10 DEF Exists
    <3>2. ~(e \in PollOnly /\ "start" \in Events)
      BY <1>10 DEF Orderly
    <3> QED
      BY <1>1, <1>3, <1>6, <1>10, <3>1, <3>2 DEF EpisodeOK
  <2> QED
    BY <1>1, <1>5, <1>7, <1>8, <1>10, <2>1, <2>2, ContentFrame
<1>11. CASE /\ "start" \in Events /\ e \in PollOnly /\ status[e] \in {"queued", "failed"}
            /\ \E k \in Stages, f \in JobIds :
                 /\ k = IF status[e] = "queued" THEN "resolve_content" ELSE ResumeKind(e)
                 /\ status'[e] = StageStatus(k) /\ Inserts(f, k, e)
  <2>1. ~Taken(e)
    BY <1>11 DEF Taken
  <2>2. PICK k \in Stages, f \in JobIds :
          /\ k = IF status[e] = "queued" THEN "resolve_content" ELSE ResumeKind(e)
          /\ status'[e] = StageStatus(k) /\ Inserts(f, k, e)
    BY <1>11
  <2>3. /\ k # "compose_episode"
        /\ k \in {"resolve_content", "generate_script"} => turns[e] = 0
    BY <1>1, <1>8, <1>11, <2>2 DEF EpisodeOK
  <2>4. status'[e] \in Busy
    BY <2>2 DEF StageStatus, Busy
  <2>5. EpisodeOK(e)'
    <3>1. Exists(e) /\ Exists(e)'
      BY <1>11, <2>4 DEF Exists, Busy
    <3> QED
      BY <1>1, <1>3, <1>6, <1>11, <2>4, <3>1 DEF EpisodeOK, Busy
  <2> QED
    BY <1>1, <1>5, <1>7, <2>1, <2>2, <2>3, <2>5, ContentFrame
<1>12. status'[e] # status[e] /\ status'[e] # "deleted"
  BY <1>1 DEF Poll, Retry, Start, StageStatus, TypeOK, RowsOK
<1> QED
  BY <1>1, <1>4, <1>9, <1>10, <1>11, <1>12, CommandStatus

\* A deletion or a cleanup takes rows and objects away, never the audio of an
\* episode that stays.
LEMMA RemovalContent ==
  ASSUME PipelineAssumption, StoryInv, NEW e \in Episodes, DeleteCommand(e) \/ Expire(e)
  PROVE  ContentInv'
<1>1. /\ TypeOK /\ ContentInv /\ EpisodeOK(e) /\ UNCHANGED <<jobs, work>>
      /\ RowsOK /\ ObjectsOK /\ deleting \in [Episodes -> DeleteType]
  BY DEF StoryInv, PipelineInv, ContentInv, TypeOK, DeleteCommand, SelectForDelete, CommitDelete,
         RollBackDelete, Expire
<1>2. ASSUME \A x \in Episodes : x # e => Still(x), EpisodeOK(e)',
             \A i \in JobIds : Episode(i) = e /\ JobOK(i) => JobOK(i)'
      PROVE  ContentInv'
  <2>1. \A x \in Episodes : EpisodeOK(x)'
    BY <1>1, <1>2, StillOK DEF ContentInv
  <2>2. ASSUME NEW i \in JobIds
        PROVE  JobOK(i)'
    <3>1. CASE Episode(i) \in Episodes
      BY <1>1, <1>2, <3>1, StillCarried DEF ContentInv
    <3>2. CASE Episode(i) \notin Episodes
      BY <1>1, <3>2, Untouched DEF JobOK, WillRun, TypeOK, JobsOK
    <3> QED
      BY <3>1, <3>2
  <2> QED
    BY <2>1, <2>2 DEF ContentInv
<1>3. ASSUME NEW keys, NEW composed, RemoveObjects(e, keys, composed)
      PROVE  /\ \A x \in Episodes : x # e => objs'[x] = objs[x] /\ media'[x] = media[x]
             /\ \A p \in Positions : objs'[e][p] \in {0, objs[e][p]}
             /\ ~composed => media'[e] = media[e]
  BY <1>1, <1>3 DEF RemoveObjects, ObjectsOK
<1>4. ASSUME ~Exists(e)', \A x \in Episodes : x # e => Still(x), EpisodeOK(e)'
      PROVE  ContentInv'
  <2>1. \A i \in JobIds : Episode(i) = e => JobOK(i)'
    BY <1>1, <1>4 DEF JobOK, Episode
  <2> QED
    BY <1>2, <1>4, <2>1
<1>5. CASE SelectForDelete(e)
  <2>1. /\ UNCHANGED <<status, docs, turns, script, rows, linked, objs, media>>
        /\ status[e] # "published"
        /\ deleting' = [deleting EXCEPT ![e] = [on |-> TRUE, keys |-> rows[e], media |-> linked[e]]]
    BY <1>5 DEF SelectForDelete, content, objects
  <2>2. /\ \A x \in Episodes : x # e => deleting'[x] = deleting[x]
        /\ deleting'[e] = [on |-> TRUE, keys |-> rows[e], media |-> linked[e]]
    BY <1>1, <2>1
  <2>3. deleting'[e].media = linked[e] /\ ~linked[e]
    BY <1>1, <2>1, <2>2 DEF EpisodeOK
  <2>4. /\ Exists(e)' = Exists(e) /\ Full(e)' = Full(e) /\ \A x \in Episodes : x # e => Still(x)
    BY <2>1, <2>2 DEF Exists, Full, Still
  <2>5. EpisodeOK(e)'
    BY <1>1, <2>1, <2>3, <2>4 DEF EpisodeOK
  <2>6. ASSUME NEW i \in JobIds, Episode(i) = e, JobOK(i)
        PROVE  JobOK(i)'
    <3>1. /\ WillRun(i)' = WillRun(i) /\ Kind(i)' = Kind(i) /\ Episode(i)' = e
          /\ \A p : FirstTodo(i, p)' = FirstTodo(i, p)
      BY <1>1, <2>6, Untouched DEF FirstTodo
    <3> QED
      BY <1>1, <2>1, <2>4, <2>6, <3>1 DEF JobOK
  <2> QED
    BY <1>2, <2>4, <2>5, <2>6
<1>6. /\ NoDelete.media = FALSE
      /\ CommitDelete(e) \/ RollBackDelete(e) =>
           deleting'[e] = NoDelete /\ \A x \in Episodes : x # e => deleting'[x] = deleting[x]
  BY <1>1 DEF NoDelete, CommitDelete, RollBackDelete
<1>7. CASE RollBackDelete(e)
  <2>1. PICK gone, composed :
          /\ RemoveObjects(e, gone, composed)
          /\ composed => deleting[e].media
    BY <1>7 DEF RollBackDelete
  <2>2. ~composed
    BY <1>1, <2>1 DEF EpisodeOK
  <2>3. UNCHANGED <<status, docs, turns, script, rows, linked>>
    BY <1>7 DEF RollBackDelete, content
  <2>4. /\ \A x \in Episodes : x # e => objs'[x] = objs[x] /\ media'[x] = media[x]
        /\ \A p \in Positions : objs'[e][p] \in {0, objs[e][p]}
        /\ media'[e] = media[e]
    BY <1>3, <2>1, <2>2
  <2>5. /\ Exists(e)' = Exists(e) /\ Full(e)' = Full(e) /\ \A x \in Episodes : x # e => Still(x)
    BY <1>6, <1>7, <2>3, <2>4 DEF Exists, Full, Still
  <2>6. \A p \in Positions : \A v : objs[e][p] \in {0, v} => objs'[e][p] \in {0, v}
    BY <2>4
  <2>7. rows[e] \subseteq Positions
    BY <1>1 DEF RowsOK
  <2>8. EpisodeOK(e)'
    BY <1>1, <1>6, <1>7, <2>3, <2>4, <2>5, <2>6, <2>7 DEF EpisodeOK
  <2>9. ASSUME NEW i \in JobIds, Episode(i) = e, JobOK(i)
        PROVE  JobOK(i)'
    <3>1. /\ WillRun(i)' = WillRun(i) /\ Kind(i)' = Kind(i) /\ Episode(i)' = e
          /\ \A p : FirstTodo(i, p)' = FirstTodo(i, p)
      BY <1>1, <2>9, Untouched DEF FirstTodo
    <3> QED
      BY <1>1, <2>3, <2>4, <2>5, <2>6, <2>9, <3>1 DEF JobOK
  <2> QED
    BY <1>2, <2>5, <2>8, <2>9
<1>8. ASSUME DropRows(e)
      PROVE  /\ status'[e] = "deleted" /\ turns'[e] = 0 /\ rows'[e] = {} /\ linked'[e] = FALSE
             /\ \A x \in Episodes : x # e =>
                  /\ status'[x] = status[x] /\ docs'[x] = docs[x] /\ turns'[x] = turns[x]
                  /\ script'[x] = script[x] /\ rows'[x] = rows[x] /\ linked'[x] = linked[x]
  BY <1>1, <1>8 DEF DropRows, RowsOK
<1>9. CASE CommitDelete(e)
  <2>1. /\ RemoveObjects(e, deleting[e].keys, deleting[e].media)
        /\ IF Exists(e) THEN DropRows(e) ELSE UNCHANGED <<status, content>>
    BY <1>9 DEF CommitDelete
  <2>2. \A x \in Episodes : x # e => Still(x)
    BY <1>3, <1>6, <1>8, <1>9, <2>1 DEF Still, content
  <2>3. CASE Exists(e)
    <3>1. /\ status'[e] = "deleted" /\ turns'[e] = 0 /\ rows'[e] = {} /\ linked'[e] = FALSE
          /\ deleting'[e] = NoDelete
      BY <1>6, <1>8, <1>9, <2>1, <2>3
    <3>2. EpisodeOK(e)' /\ ~Exists(e)'
      BY <1>6, <3>1 DEF EpisodeOK, Exists
    <3> QED
      BY <1>4, <2>2, <3>2
  <2>4. CASE ~Exists(e)
    <3>1. UNCHANGED <<status, docs, turns, script, rows, linked>> /\ deleting'[e] = NoDelete
      BY <1>6, <1>9, <2>1, <2>4 DEF content
    <3>2. turns[e] \in Nat
      BY <1>1 DEF RowsOK, PipelineAssumption
    <3>3. turns[e] = 0 /\ rows[e] = {} /\ status[e] # "published" /\ ~linked[e]
      BY <1>1, <2>4, <3>2 DEF EpisodeOK, Exists
    <3>4. EpisodeOK(e)' /\ ~Exists(e)'
      BY <1>6, <2>4, <3>1, <3>3 DEF EpisodeOK, Exists
    <3> QED
      BY <1>4, <2>2, <3>4
  <2> QED
    BY <2>3, <2>4
<1>10. CASE Expire(e)
  <2>1. DropRows(e) /\ UNCHANGED <<objs, media, deleting>>
    BY <1>10 DEF Expire, objects, commands
  <2>2. \A x \in Episodes : x # e => Still(x)
    BY <1>8, <2>1 DEF Still
  <2>3. /\ status'[e] = "deleted" /\ turns'[e] = 0 /\ rows'[e] = {} /\ linked'[e] = FALSE
        /\ ~deleting'[e].media
    BY <1>1, <1>8, <2>1 DEF EpisodeOK
  <2>4. EpisodeOK(e)' /\ ~Exists(e)'
    BY <2>3 DEF EpisodeOK, Exists
  <2> QED
    BY <1>4, <2>2, <2>4
<1> QED
  BY <1>5, <1>7, <1>9, <1>10 DEF DeleteCommand

LEMMA ContentStep ==
  ASSUME PipelineAssumption, Orderly, StoryInv, [Next]_vars
  PROVE  ContentInv'
<1>1. TypeOK /\ Undisturbed /\ Calm /\ ContentInv
  BY DEF StoryInv, PipelineInv, CarrierInv, Orderly
<1>2. ASSUME NEW j \in JobIds, QueueStep(j) \/ Disturbance(j)
      PROVE  ContentInv'
  <2>1. /\ \A i \in JobIds : i # j => jobs'[i] = jobs[i] /\ work'[i] = work[i]
        /\ WillRun(j)' <=> WillRun(j)
        /\ WillRun(j)' => Kind(j)' = Kind(j) /\ Episode(j)' = Episode(j)
        /\ work'[j].pc \in {"idle", "mark", "stage"}
        /\ UNCHANGED <<status, content, objects, deleting>>
    BY <1>1, <1>2, QueueCalm
  <2>2. \A x \in Episodes : Still(x)
    BY <2>1 DEF Still, content, objects
  <2>3. \A i \in JobIds : WillRun(i)' =>
          /\ WillRun(i) /\ Kind(i)' = Kind(i) /\ Episode(i)' = Episode(i)
          /\ work'[i] = work[i] \/ work'[i].pc \in {"idle", "mark", "stage"}
    BY <2>1, Untouched
  <2> QED
    BY <1>1, <2>2, <2>3, ContentStays
<1>3. CASE UNCHANGED vars
  <2>1. \A x \in Episodes : Still(x)
    BY <1>3 DEF vars, Still
  <2>2. \A i \in JobIds : WillRun(i)' =>
          WillRun(i) /\ Kind(i)' = Kind(i) /\ Episode(i)' = Episode(i) /\ work'[i] = work[i]
    BY <1>3, Untouched DEF vars
  <2> QED
    BY <1>1, <2>1, <2>2, ContentStays
<1> QED
  BY <1>1, <1>2, <1>3, NoStop, WorkerContent, LaunchContent, RemovalContent
     DEF Next, JobStep, EpisodeCommand

LEMMA InitContent == Init => ContentInv
<1> SUFFICES ASSUME Init PROVE ContentInv
  OBVIOUS
<1>1. \A j \in JobIds : JobOK(j)
  BY DEF Init, JobsInit, FreeJob, JobOK, WillRun, InFlight
<1>2. ASSUME NEW e \in Episodes
      PROVE  EpisodeOK(e)
  <2>1. /\ status[e] = "unborn" /\ turns[e] = 0 /\ rows[e] = {} /\ linked[e] = FALSE
        /\ ~deleting[e].media
    BY DEF Init, NoDelete
  <2> QED
    BY <2>1 DEF EpisodeOK
<1> QED
  BY <1>1, <1>2 DEF ContentInv

\* Queue, rows and stored objects agree on the script an episode is voiced
\* with, from the worker that stores it to the audio that is published.
THEOREM StoryHolds == Orderly => (Spec => []StoryInv)
<1> SUFFICES ASSUME Orderly PROVE Spec => []StoryInv
  OBVIOUS
<1>1. Init => CarrierInv /\ ContentInv
  BY InitCarrier, InitContent
<1>2. PipelineInv /\ CarrierInv /\ ContentInv /\ [Next]_vars => CarrierInv' /\ ContentInv'
  <2>1. PipelineInv => TypeOK
    BY DEF PipelineInv
  <2> QED
    BY <2>1, PipelineAssumption, CarrierStep, ContentStep DEF StoryInv
<1>3. PipelineInv /\ CarrierInv /\ ContentInv => StoryInv
  BY DEF StoryInv
<1> QED
  BY <1>1, <1>2, <1>3, InvHolds, PTL DEF Spec

\* As long as nothing disturbs the worker process, a published episode plays
\* the script it shows, in full and nothing else: the segments that
\* generate_tts reuses by position were voiced for the same script, and what
\* compose_episode read is what it publishes.
THEOREM OneScript == Orderly => (Spec => []PublishedVoicesScript)
<1>1. StoryInv => PublishedVoicesScript
  BY DEF StoryInv, ContentInv, EpisodeOK, Full, PublishedVoicesScript
<1> QED
  BY <1>1, StoryHolds, PTL

\* Then a stored script is never replaced: every step that stores one finds
\* an episode without turns.
THEOREM ScriptKept == Orderly => (Spec => CompletedStagesKept)
<1> DEFINE Kept == \A e \in Episodes : turns[e] > 0 /\ Exists(e)' => script'[e] = script[e]
<1>1. ASSUME StoryInv, [Next]_vars
      PROVE  Kept
  <2>1. CASE \E j \in JobIds : StoreScript(j)
    <3>1. PICK j \in JobIds : StoreScript(j)
      BY <2>1
    <3>2. PICK x : x = Episode(j)
      OBVIOUS
    <3>3. /\ TypeOK /\ x \in Episodes /\ WillRun(j) /\ JobOK(j)
      BY <1>1, <3>1, <3>2, PipelineAssumption, Known DEF WorkerStep
    <3>4. /\ Exists(x) /\ Kind(j) = "generate_script" /\ script' = [script EXCEPT ![x] = @ + 1]
      BY <3>1, <3>2 DEF StoreScript, At
    <3>5. turns[x] = 0
      BY <3>2, <3>3, <3>4 DEF JobOK
    <3>6. \A e \in Episodes : e # x => script'[e] = script[e]
      BY <3>3, <3>4 DEF TypeOK, RowsOK
    <3> QED
      BY <3>5, <3>6
  <2>2. CASE UNCHANGED script
    BY <2>2
  <2>3. (\E j \in JobIds : StoreScript(j)) \/ UNCHANGED script
    <3>1. ASSUME NEW j \in JobIds, JobStep(j) \/ Disturbance(j), ~StoreScript(j)
          PROVE  UNCHANGED script
      BY <3>1 DEF JobStep, WorkerStep, QueueStep, Disturbance, MarkStage, MarkFails,
         StoreDocuments, LoadTurns, SkipExisting, PutSegment, RecordSegment, FinishTTS,
         ReadSegments, PutMedia, Publish, Fail, FailUnrecorded, Take, Record, RescueStuck, Crash,
         SoftStop, HearCancel, content
    <3>2. ASSUME StopCommand \/ \E e \in Episodes : EpisodeCommand(e)
          PROVE  UNCHANGED script
      BY <3>2 DEF StopCommand, StopList, StopCancel, StopFail, StopAborts, EpisodeCommand, Poll,
         Retry, Start, DeleteCommand, SelectForDelete, CommitDelete, RollBackDelete, Expire,
         DropRows, content
    <3>3. CASE UNCHANGED vars
      BY <3>3 DEF vars
    <3> QED
      BY <1>1, <3>1, <3>2, <3>3 DEF Next
  <2> QED
    BY <2>1, <2>2, <2>3
<1>2. StoryInv /\ [Next]_vars => [Kept]_vars
  BY <1>1
<1> QED
  BY <1>2, StoryHolds, PTL DEF Spec, CompletedStagesKept

-----------------------------------------------------------------------------
(* The listener's view *)

TextOf(e) == IF turns[e] > 0 THEN script[e] ELSE 0

VoiceOf(e) == IF status[e] = "published" THEN {media[e][p] : p \in Wanted(e, turns[e])} ELSE {}

\* The listener sees no difference at e.
Unseen(e) ==
  /\ PlayerState(e)' = PlayerState(e) /\ TextOf(e)' = TextOf(e) /\ VoiceOf(e)' = VoiceOf(e)

\* The listener sees e move from one state to another and nothing else of it.
Shown(e, from, to) ==
  /\ PlayerState(e) = from /\ PlayerState(e)' = to
  /\ TextOf(e)' = TextOf(e) /\ VoiceOf(e)' = VoiceOf(e)

Written(e) ==
  /\ PlayerState(e) = "processing" /\ PlayerState(e)' = "processing"
  /\ TextOf(e) = 0 /\ TextOf(e)' \in 1..MaxScripts
  /\ VoiceOf(e)' = VoiceOf(e)

Finished(e) ==
  /\ PlayerState(e) = "processing" /\ PlayerState(e)' = "ready"
  /\ TextOf(e) # 0 /\ TextOf(e)' = TextOf(e) /\ VoiceOf(e)' = {TextOf(e)}

Removed(e) ==
  /\ PlayerState(e) \notin {"absent", "gone"} /\ PlayerState(e)' = "gone"
  /\ TextOf(e)' = 0 /\ VoiceOf(e)' = {}

\* What a listener can see happen to an episode.
Visible(e) ==
  \/ Unseen(e)
  \/ Shown(e, "absent", "pending") \/ Shown(e, "pending", "processing")
  \/ Written(e) \/ Finished(e) \/ Shown(e, "processing", "failed")
  \/ Shown(e, "failed", "pending") \/ Shown(e, "failed", "processing")
  \/ Removed(e)

\* A step that a listener may see, of one episode, is a step of the lifecycle.
LEMMA Simulates ==
  ASSUME NEW e \in Episodes, Visible(e), \A x \in Episodes : x # e => Unseen(x)
  PROVE  [Lifecycle!Next]_(Lifecycle!lifecycle)
<1> DEFINE View  == [x \in Episodes |-> PlayerState(x)]
           Text  == [x \in Episodes |-> TextOf(x)]
           Voice == [x \in Episodes |-> VoiceOf(x)]
           View1  == [x \in Episodes |-> PlayerState(x)']
           Text1  == [x \in Episodes |-> TextOf(x)']
           Voice1 == [x \in Episodes |-> VoiceOf(x)']
<1>1. /\ View' = View1 /\ Text' = Text1 /\ Voice' = Voice1
  OBVIOUS
<1>2. /\ View1 = [View EXCEPT ![e] = PlayerState(e)']
      /\ Text1 = [Text EXCEPT ![e] = TextOf(e)']
      /\ Voice1 = [Voice EXCEPT ![e] = VoiceOf(e)']
  BY DEF Unseen
<1>3. /\ View[e] = PlayerState(e) /\ Text[e] = TextOf(e) /\ Voice[e] = VoiceOf(e)
      /\ TextOf(e)' = TextOf(e) => Text1 = Text
      /\ VoiceOf(e)' = VoiceOf(e) => Voice1 = Voice
      /\ PlayerState(e)' = PlayerState(e) => View1 = View
  BY DEF Unseen
<1>4. CASE Unseen(e)
  BY <1>1, <1>3, <1>4 DEF Unseen, TextOf, VoiceOf, Lifecycle!lifecycle
<1>5. CASE Shown(e, "absent", "pending")
  BY <1>1, <1>2, <1>3, <1>5 DEF Shown, TextOf, VoiceOf, Lifecycle!Next, Lifecycle!Discover, Lifecycle!Show
<1>6. CASE Shown(e, "pending", "processing")
  BY <1>1, <1>2, <1>3, <1>6 DEF Shown, TextOf, VoiceOf, Lifecycle!Next, Lifecycle!Begin, Lifecycle!Show
<1>7. CASE Written(e)
  BY <1>1, <1>2, <1>3, <1>7 DEF Written, TextOf, VoiceOf, Lifecycle!Next, Lifecycle!Write
<1>8. CASE Finished(e)
  BY <1>1, <1>2, <1>3, <1>8 DEF Finished, TextOf, VoiceOf, Lifecycle!Next, Lifecycle!Settle,
     Lifecycle!Finish, Lifecycle!Show
<1>9. CASE Shown(e, "processing", "failed")
  BY <1>1, <1>2, <1>3, <1>9 DEF Shown, TextOf, VoiceOf, Lifecycle!Next, Lifecycle!Settle,
     Lifecycle!Break, Lifecycle!Show
<1>10. CASE Shown(e, "failed", "pending") \/ Shown(e, "failed", "processing")
  BY <1>1, <1>2, <1>3, <1>10 DEF Shown, TextOf, VoiceOf, Lifecycle!Next, Lifecycle!Resume, Lifecycle!Show
<1>11. CASE Removed(e)
  BY <1>1, <1>2, <1>3, <1>11 DEF Removed, TextOf, VoiceOf, Lifecycle!Next, Lifecycle!Remove
<1> QED
  BY <1>4, <1>5, <1>6, <1>7, <1>8, <1>9, <1>10, <1>11 DEF Visible

\* What a listener sees of e hangs on a few columns.
LEMMA SameSight ==
  ASSUME NEW e, status'[e] = status[e], turns'[e] = turns[e], script'[e] = script[e],
         linked'[e] = linked[e], status[e] = "published" => media'[e] = media[e]
  PROVE  Unseen(e)
BY DEF Unseen, PlayerState, TextOf, VoiceOf, Exists

\* A status that is not "published" decides what is seen, the script aside.
LEMMA Sight ==
  ASSUME NEW e
  PROVE  /\ status[e] \in Busy => PlayerState(e) = "processing"
         /\ status'[e] \in Busy => PlayerState(e)' = "processing"
         /\ status[e] = "queued" => PlayerState(e) = "pending"
         /\ status'[e] = "queued" => PlayerState(e)' = "pending"
         /\ status[e] = "failed" => PlayerState(e) = "failed"
         /\ status'[e] = "failed" => PlayerState(e)' = "failed"
         /\ status[e] = "unborn" => PlayerState(e) = "absent"
         /\ status'[e] = "deleted" => PlayerState(e)' = "gone"
         /\ status[e] \in Statuses => PlayerState(e) \notin {"absent", "gone"}
         /\ status[e] # "published" => VoiceOf(e) = {}
         /\ status'[e] # "published" => VoiceOf(e)' = {}
         /\ turns'[e] = turns[e] /\ script'[e] = script[e] => TextOf(e)' = TextOf(e)
BY DEF PlayerState, VoiceOf, TextOf, Busy, Statuses

\* A carried episode that gets another status on its way.
LEMMA Onward ==
  ASSUME TypeOK, NEW e \in Episodes, Taken(e), NEW s, SetStatus(e, s),
         UNCHANGED <<turns, script, linked, media>>,
         Exists(e) => s \in Busy \/ (status[e] \in Busy /\ s = "failed")
  PROVE  Visible(e) /\ \A x \in Episodes : x # e => Unseen(x)
<1>1. /\ \A x \in Episodes : x # e => status'[x] = status[x]
      /\ status'[e] = IF Exists(e) THEN s ELSE status[e]
  BY SetsOne
<1>2. status[e] \in Busy \cup {"queued", "deleted"}
  BY DEF Taken, TypeOK, RowsOK, Statuses
<1>3. \A x \in Episodes : x # e => Unseen(x)
  BY <1>1, SameSight
<1>4. CASE ~Exists(e)
  BY <1>1, <1>3, <1>4, SameSight DEF Visible
<1>5. CASE Exists(e)
  <2>1. /\ status[e] \in Busy \cup {"queued"} /\ status'[e] = s
        /\ s \in Busy \/ (status[e] \in Busy /\ s = "failed")
        /\ status[e] # "published" /\ s # "published"
    BY <1>1, <1>2, <1>5 DEF Exists, Taken, Busy
  <2> QED
    BY <1>3, <2>1, Sight DEF Visible, Shown, Unseen
<1> QED
  BY <1>4, <1>5

\* What the listener sees of a worker's step.
LEMMA WorkerSeen ==
  ASSUME PipelineAssumption, StoryInv, NEW j \in JobIds, WorkerStep(j), NEW e, e = Episode(j)
  PROVE  Visible(e) /\ \A x \in Episodes : x # e => Unseen(x)
<1>1. /\ TypeOK /\ CarrierInv /\ e \in Episodes /\ WillRun(j)
      /\ EpisodeOK(e) /\ Taken(e) /\ JobOK(j)
      /\ turns[e] \in 0..MaxTurns /\ turns[e] \in Nat /\ script[e] \in 0..MaxScripts /\ script[e] \in Nat
      /\ Exists(e) => HasInput(Kind(j), e)
      /\ CarriedOK(j) /\ MaxScripts \in Nat /\ MaxTurns \in Nat
  BY Known DEF CarrierInv, PipelineAssumption
<1>2. /\ status \in [Episodes -> Statuses \cup {"unborn", "deleted"}]
      /\ turns \in [Episodes -> 0..MaxTurns] /\ script \in [Episodes -> 0..MaxScripts]
      /\ linked \in [Episodes -> BOOLEAN] /\ media \in [Episodes -> Parts]
  BY <1>1 DEF TypeOK, RowsOK, ObjectsOK
<1>3. work[j].pc \in StageSteps /\ Exists(e) => status[e] \in Busy
  BY <1>1 DEF CarriedOK
<1>4. status[e] # "published"
  BY <1>1 DEF Taken
<1>5. ASSUME UNCHANGED <<status, turns, script, linked>>,
             \A x \in Episodes : x # e => media'[x] = media[x]
      PROVE  Visible(e) /\ \A x \in Episodes : x # e => Unseen(x)
  BY <1>1, <1>4, <1>5, SameSight DEF Visible
<1>6. CASE MarkFails(j) \/ LoadTurns(j) \/ SkipExisting(j) \/ PutSegment(j) \/ RecordSegment(j)
           \/ ReadSegments(j) \/ FailUnrecorded(j)
  <2>1. UNCHANGED <<status, turns, script, linked, media>>
    BY <1>6 DEF MarkFails, LoadTurns, SkipExisting, PutSegment, RecordSegment, ReadSegments,
                FailUnrecorded, content, objects
  <2> QED
    BY <1>5, <2>1
<1>7. CASE PutMedia(j)
  <2>1. /\ UNCHANGED <<status, turns, script, linked>>
        /\ media' = [media EXCEPT ![e] = work[j].audio]
    BY <1>7 DEF PutMedia, content
  <2>2. \A x \in Episodes : x # e => media'[x] = media[x]
    BY <1>2, <2>1
  <2> QED
    BY <1>5, <2>1, <2>2
<1>8. CASE MarkStage(j)
  <2>1. /\ SetStatus(e, StageStatus(Kind(j))) /\ StageStatus(Kind(j)) \in Busy
        /\ UNCHANGED <<turns, script, linked, media>>
    BY <1>8 DEF MarkStage, StageStatus, Busy, content, objects
  <2> QED
    BY <1>1, <2>1, Onward
<1>9. CASE StoreDocuments(j)
  <2>1. /\ SetStatus(e, "content_ready") /\ "content_ready" \in Busy
        /\ UNCHANGED <<turns, script, linked, media>>
    BY <1>9 DEF StoreDocuments, Advance, Busy, objects
  <2> QED
    BY <1>1, <2>1, Onward
<1>10. CASE FinishTTS(j)
  <2>1. /\ SetStatus(e, "composing") /\ "composing" \in Busy
        /\ UNCHANGED <<turns, script, linked, media>>
    BY <1>10 DEF FinishTTS, Advance, Busy, content, objects
  <2> QED
    BY <1>1, <2>1, Onward
<1>11. ASSUME NEW permanent \in BOOLEAN, Fail(j, permanent)
       PROVE  Visible(e) /\ \A x \in Episodes : x # e => Unseen(x)
  <2>1. /\ SetStatus(e, AttemptStatus(j, permanent)) /\ work[j].pc \in StageSteps
        /\ AttemptStatus(j, permanent) \in Busy \cup {"failed"}
        /\ UNCHANGED <<turns, script, linked, media>>
    BY <1>11 DEF Fail, AttemptStatus, Busy, content, objects
  <2> QED
    BY <1>1, <1>3, <2>1, Onward
<1>12. CASE StoreScript(j)
  <2>1. /\ SetStatus(e, "script_ready") /\ "script_ready" \in Busy
        /\ work[j].pc = "stage" /\ Kind(j) = "generate_script" /\ Exists(e)
        /\ script' = [script EXCEPT ![e] = @ + 1] /\ script[e] < MaxScripts
        /\ UNCHANGED <<linked, media>>
    BY <1>12 DEF StoreScript, Advance, At, Busy, objects
  <2>2. PICK n \in 1..MaxTurns : turns' = [turns EXCEPT ![e] = n]
    BY <1>12 DEF StoreScript
  <2>3. /\ turns'[e] = n /\ n > 0 /\ script'[e] = script[e] + 1
        /\ \A x \in Episodes : x # e => turns'[x] = turns[x] /\ script'[x] = script[x]
    BY <1>1, <1>2, <2>1, <2>2
  <2>4. /\ \A x \in Episodes : x # e => status'[x] = status[x]
        /\ status'[e] = "script_ready"
    BY <1>1, <2>1, SetsOne
  <2>5. \A x \in Episodes : x # e => Unseen(x)
    BY <2>1, <2>3, <2>4, SameSight
  <2>6. turns[e] = 0
    BY <1>1, <2>1 DEF JobOK
  <2>7. TextOf(e) = 0 /\ TextOf(e)' \in 1..MaxScripts
    BY <1>1, <2>1, <2>3, <2>6 DEF TextOf
  <2>8. status[e] \in Busy /\ status'[e] \in Busy /\ status'[e] # "published"
    BY <1>3, <2>1, <2>4 DEF StageSteps
  <2> QED
    BY <1>4, <2>5, <2>7, <2>8, Sight DEF Visible, Written
<1>13. CASE Publish(j)
  <2>1. /\ SetStatus(e, "published") /\ linked' = [linked EXCEPT ![e] = @ \/ Exists(e)]
        /\ work[j].pc = "publish" /\ Kind(j) = "compose_episode"
        /\ UNCHANGED <<turns, script, rows, media>>
    BY <1>13 DEF Publish, At, objects
  <2>2. /\ \A x \in Episodes : x # e => status'[x] = status[x] /\ linked'[x] = linked[x]
        /\ status'[e] = IF Exists(e) THEN "published" ELSE status[e]
        /\ linked'[e] = (linked[e] \/ Exists(e))
    BY <1>1, <1>2, <2>1, SetsOne
  <2>3. \A x \in Episodes : x # e => Unseen(x)
    BY <2>1, <2>2, SameSight
  <2>4. CASE ~Exists(e)
    <3>1. Unseen(e)
      BY <1>2, <2>1, <2>2, <2>4, SameSight
    <3> QED
      BY <2>3, <3>1 DEF Visible
  <2>5. CASE Exists(e)
    <3>1. /\ media[e] = Full(e) /\ rows[e] # {} /\ turns[e] > 0
      <4>1. media[e] = Full(e) /\ rows[e] # {}
        BY <1>1, <2>1, <2>5 DEF JobOK, HasInput
      <4> QED
        BY <1>1, <4>1 DEF EpisodeOK
    <3>2. /\ Wanted(e, turns[e]) \subseteq Positions /\ 0 \in Wanted(e, turns[e])
      BY <1>1, <3>1, PipelineAssumption, PositionFacts
    <3>3. \A p \in Wanted(e, turns[e]) : media[e][p] = script[e]
      BY <3>1, <3>2 DEF Full
    <3>4. /\ TextOf(e) = script[e] /\ script[e] # 0 /\ TextOf(e)' = TextOf(e)
      BY <1>1, <2>1, <3>1 DEF TextOf, EpisodeOK
    <3>5. status'[e] = "published" /\ linked'[e]
      BY <2>2, <2>5
    <3>6. VoiceOf(e)' = {script[e]}
      <4>1. VoiceOf(e)' = {media[e][p] : p \in Wanted(e, turns[e])}
        BY <2>1, <3>5 DEF VoiceOf, Wanted
      <4> QED
        BY <3>2, <3>3, <4>1
    <3>7. PlayerState(e)' = "ready"
      BY <3>5 DEF PlayerState, Busy
    <3>8. PlayerState(e) = "processing"
      BY <1>3, <2>1, <2>5, Sight DEF StageSteps
    <3> QED
      BY <2>3, <3>4, <3>6, <3>7, <3>8 DEF Visible, Finished
  <2> QED
    BY <2>4, <2>5
<1> QED
  BY <1>6, <1>7, <1>8, <1>9, <1>10, <1>11, <1>12, <1>13 DEF WorkerStep

\* What the listener sees of a poll, a command or the cleanup.
LEMMA CommandSeen ==
  ASSUME PipelineAssumption, StoryInv, NEW e \in Episodes, EpisodeCommand(e)
  PROVE  Visible(e) /\ \A x \in Episodes : x # e => Unseen(x)
<1>1. /\ TypeOK /\ EpisodeOK(e) /\ RowsOK /\ ObjectsOK /\ turns[e] \in Nat /\ linked[e] \in BOOLEAN
      /\ status[e] \in Statuses \cup {"unborn", "deleted"}
  BY DEF StoryInv, PipelineInv, ContentInv, TypeOK, RowsOK, PipelineAssumption
<1>2. \A x \in Episodes : x # e => status'[x] = status[x]
  BY <1>1, CommandStatus
<1>3. CASE Poll(e) \/ Retry(e) \/ Start(e)
  <2>1. UNCHANGED <<turns, script, linked, media>>
    BY <1>3 DEF Poll, Retry, Start, content, objects
  <2>2. \A x \in Episodes : x # e => Unseen(x)
    BY <1>2, <2>1, SameSight
  <2>3. \/ status[e] = "unborn" /\ status'[e] = "queued"
        \/ status[e] = "failed" /\ status'[e] = "queued"
        \/ status[e] \in {"queued", "failed"} /\ status'[e] \in Busy
    BY <1>1, <1>3 DEF Poll, Retry, Start, StageStatus, Busy, RowsOK
  <2>4. status[e] # "published" /\ status'[e] # "published"
    BY <2>3 DEF Busy
  <2> QED
    BY <2>1, <2>2, <2>3, <2>4, Sight DEF Visible, Shown
<1>4. CASE SelectForDelete(e)
  <2>1. UNCHANGED <<status, turns, script, linked, media>>
    BY <1>4 DEF SelectForDelete, content, objects
  <2> QED
    BY <2>1, SameSight DEF Visible
<1>5. ASSUME NEW keys, NEW composed, RemoveObjects(e, keys, composed)
      PROVE  /\ \A x \in Episodes : x # e => media'[x] = media[x]
             /\ ~composed => media'[e] = media[e]
  BY <1>1, <1>5 DEF RemoveObjects, ObjectsOK
<1>6. ~deleting[e].media
  BY <1>1 DEF EpisodeOK
<1>7. CASE RollBackDelete(e)
  <2>1. PICK gone, composed :
          /\ RemoveObjects(e, gone, composed)
          /\ composed => deleting[e].media
    BY <1>7 DEF RollBackDelete
  <2>2. UNCHANGED <<status, turns, script, linked>> /\ UNCHANGED media[e]
    BY <1>5, <1>6, <1>7, <2>1 DEF RollBackDelete, content
  <2>3. \A x \in Episodes : x # e => media'[x] = media[x]
    BY <1>5, <2>1
  <2> QED
    BY <2>2, <2>3, SameSight DEF Visible
<1>8. ASSUME DropRows(e), Exists(e), \A x \in Episodes : x # e => media'[x] = media[x]
      PROVE  Visible(e) /\ \A x \in Episodes : x # e => Unseen(x)
  <2>1. /\ status'[e] = "deleted" /\ turns'[e] = 0
        /\ \A x \in Episodes : x # e =>
             /\ status'[x] = status[x] /\ turns'[x] = turns[x]
             /\ script'[x] = script[x] /\ linked'[x] = linked[x]
    BY <1>1, <1>8 DEF DropRows, RowsOK
  <2>2. \A x \in Episodes : x # e => Unseen(x)
    BY <1>8, <2>1, SameSight
  <2>3. TextOf(e)' = 0 /\ status[e] \in Statuses
    BY <1>1, <1>8, <2>1 DEF TextOf, Exists
  <2> QED
    BY <2>1, <2>2, <2>3, Sight DEF Visible, Removed
<1>9. CASE CommitDelete(e)
  <2>1. /\ RemoveObjects(e, deleting[e].keys, deleting[e].media)
        /\ IF Exists(e) THEN DropRows(e) ELSE UNCHANGED <<status, content>>
    BY <1>9 DEF CommitDelete
  <2>2. media'[e] = media[e] /\ \A x \in Episodes : x # e => media'[x] = media[x]
    BY <1>5, <1>6, <2>1
  <2>3. CASE ~Exists(e)
    BY <2>1, <2>2, <2>3, SameSight DEF Visible, content
  <2> QED
    BY <1>8, <2>1, <2>2, <2>3
<1>10. CASE Expire(e)
  BY <1>8, <1>10 DEF Expire, objects
<1> QED
  BY <1>3, <1>4, <1>7, <1>9, <1>10 DEF EpisodeCommand, DeleteCommand

\* Every step of the pipeline is one of the lifecycle, or is not seen.
LEMMA StepSimulated ==
  ASSUME PipelineAssumption, Orderly, StoryInv, [Next]_vars
  PROVE  [Lifecycle!Next]_(Lifecycle!lifecycle)
<1>1. TypeOK /\ Undisturbed /\ Calm
  BY DEF StoryInv, PipelineInv, CarrierInv, Orderly
<1>2. ASSUME \A x \in Episodes : Unseen(x)
      PROVE  [Lifecycle!Next]_(Lifecycle!lifecycle)
  BY <1>2 DEF Lifecycle!lifecycle, Unseen, TextOf, VoiceOf
<1>3. ASSUME UNCHANGED <<status, turns, script, linked, media>>
      PROVE  \A x \in Episodes : Unseen(x)
  BY <1>3, SameSight
<1>4. ASSUME NEW j \in JobIds, WorkerStep(j)
      PROVE  [Lifecycle!Next]_(Lifecycle!lifecycle)
  <2>1. PICK e : e = Episode(j)
    OBVIOUS
  <2>2. e \in Episodes
    BY <1>1, <1>4, <2>1, ActsAlive
  <2> QED
    BY <1>4, <2>1, <2>2, PipelineAssumption, WorkerSeen, Simulates
<1>5. ASSUME NEW j \in JobIds, QueueStep(j) \/ Disturbance(j)
      PROVE  [Lifecycle!Next]_(Lifecycle!lifecycle)
  <2>1. UNCHANGED <<status, turns, script, linked, media>>
    BY <1>1, <1>5, PipelineAssumption, QueueCalm DEF content, objects
  <2> QED
    BY <1>2, <1>3, <2>1
<1>6. ASSUME NEW e \in Episodes, EpisodeCommand(e)
      PROVE  [Lifecycle!Next]_(Lifecycle!lifecycle)
  BY <1>6, PipelineAssumption, CommandSeen, Simulates
<1>7. CASE UNCHANGED vars
  BY <1>2, <1>3, <1>7 DEF vars
<1> QED
  BY <1>1, <1>4, <1>5, <1>6, <1>7, NoStop DEF Next, JobStep

LEMMA InitSimulated == Init => Lifecycle!Init
<1> SUFFICES ASSUME Init PROVE Lifecycle!Init
  OBVIOUS
<1>1. \A e \in Episodes : PlayerState(e) = "absent" /\ TextOf(e) = 0 /\ VoiceOf(e) = {}
  <2>1. \A e \in Episodes : status[e] = "unborn" /\ turns[e] = 0
    BY DEF Init
  <2> QED
    BY <2>1, Sight DEF TextOf
<1> QED
  BY <1>1 DEF Lifecycle!Init, TextOf, VoiceOf

\* As long as nothing disturbs the worker process, what a listener sees is the
\* lifecycle of EpisodeLifecycle: every statement and transaction of the
\* workers, the poll, the commands and the cleanup changes what is shown of at
\* most one episode, in one of the ways the lifecycle allows.
THEOREM LifecycleFollowed == Orderly => (Spec => FollowsLifecycle)
<1> SUFFICES ASSUME Orderly
             PROVE  Spec => FollowsLifecycle
  OBVIOUS
<1>1. StoryInv /\ [Next]_vars => [Lifecycle!Next]_(Lifecycle!lifecycle)
  BY PipelineAssumption, StepSimulated
<1> QED
  BY <1>1, InitSimulated, StoryHolds, PTL DEF Spec, FollowsLifecycle
=============================================================================
