-------------------------- MODULE SourceRunsProofs --------------------------
(***************************************************************************)
(* The theorems about SourceRuns: types, and that no episode is skipped    *)
(* while pages are long enough, for every value of the constants and every *)
(* set of Events.                                                          *)
(***************************************************************************)
EXTENDS SourceRuns, FiniteSetTheorems, TLAPS

-----------------------------------------------------------------------------
(* The queue *)

\* What an insertion does: one free id becomes a waiting job.
LEMMA InsertedFacts ==
  ASSUME JobsOK, Room, NEW k \in Kinds, NEW r \in Runs, jobs' = Inserted(k, r)
  PROVE  /\ FreeId \in JobIds
         /\ jobs'[FreeId] = NewJob(k, r)
         /\ \A j \in JobIds : j # FreeId => jobs'[j] = jobs[j]
         /\ JobsOK'
<1>1. FreeId \in JobIds
  BY DEF Room, FreeId
<1>2. NewJob(k, r) \in Job
  BY DEF NewJob, Job, Contexts
<1>3. /\ JobsTypeOK' /\ jobs'[FreeId] = NewJob(k, r)
      /\ \A j \in JobIds : j # FreeId => jobs'[j] = jobs[j]
  BY <1>1, <1>2 DEF JobsOK, JobsTypeOK, Inserted
<1>4. \A j \in JobIds : /\ InFlight(j)' => jobs'[j].kind \in Kinds /\ Run(j)' \in Runs
                        /\ Running(j)' => jobs'[j].attempt > 0
  BY <1>3 DEF JobsOK, InFlight, Running, Run, NewJob
<1> QED
  BY <1>1, <1>3, <1>4 DEF JobsOK

\* The jobs after a step are those of before; only j may move, or leave.
JobsKept(j) ==
  /\ \A i \in JobIds \ {j} : jobs'[i] = jobs[i]
  /\ InFlight(j)' => /\ InFlight(j)
                     /\ jobs'[j].subject = jobs[j].subject
                     /\ jobs'[j].kind = jobs[j].kind

\* A job that moves with its kind and its run keeps the queue well formed.
LEMMA MovedOK ==
  ASSUME JobsOK, NEW j \in JobIds, InFlight(j),
         NEW s \in {"waiting", "running"}, NEW n \in Nat, NEW c \in Contexts,
         s = "running" => n > 0,
         jobs' = [jobs EXCEPT ![j] = Moved(j, s, n, c)]
  PROVE  JobsOK' /\ JobsKept(j)
<1>1. Moved(j, s, n, c) \in Job
  BY DEF Moved, Job, JobsOK, JobsTypeOK
<1>2. JobsTypeOK' /\ jobs'[j] = Moved(j, s, n, c) /\ \A i \in JobIds \ {j} : jobs'[i] = jobs[i]
  BY <1>1 DEF JobsOK, JobsTypeOK
<1>3. \A i \in JobIds : /\ InFlight(i)' => jobs'[i].kind \in Kinds /\ Run(i)' \in Runs
                        /\ Running(i)' => jobs'[i].attempt > 0
  BY <1>2 DEF JobsOK, InFlight, Running, Run, Moved
<1> QED
  BY <1>2, <1>3 DEF JobsOK, JobsKept, Moved

LEMMA FinishOK ==
  ASSUME JobsOK, NEW j \in JobIds, Finish(j)
  PROVE  JobsOK' /\ JobsKept(j) /\ ~InFlight(j)'
<1>1. FreeJob \in Job
  BY DEF FreeJob, Job, Contexts
<1>2. JobsTypeOK' /\ jobs'[j] = FreeJob /\ \A i \in JobIds \ {j} : jobs'[i] = jobs[i]
  BY <1>1 DEF JobsOK, JobsTypeOK, Finish
<1>3. \A i \in JobIds : /\ InFlight(i)' => jobs'[i].kind \in Kinds /\ Run(i)' \in Runs
                        /\ Running(i)' => jobs'[i].attempt > 0
  BY <1>2 DEF JobsOK, InFlight, Running, Run, FreeJob
<1> QED
  BY <1>2, <1>3 DEF JobsOK, JobsKept, InFlight, FreeJob

\* Every step of the queue on one job keeps it well formed.
LEMMA QueueActionOK ==
  ASSUME RunsAssumption, JobsOK, NEW j \in JobIds,
         \/ Fetch(j) \/ Die(j) \/ Rescue(j) \/ InterruptBySoftStop(j)
         \/ Running(j) /\ (RecordError(j) \/ Finish(j))
  PROVE  /\ JobsOK' /\ JobsKept(j)
         /\ Rescue(j) => ~Running(j)'
<1>1. jobs[j].attempt \in Nat /\ jobs[j].ctx \in Contexts
  BY DEF JobsOK, JobsTypeOK, Job
<1>2. CASE Fetch(j)
  <2>1. /\ InFlight(j) /\ jobs[j].attempt + 1 \in Nat /\ jobs[j].attempt + 1 > 0
        /\ jobs' = [jobs EXCEPT ![j] = Moved(j, "running", jobs[j].attempt + 1, "live")]
    BY <1>1, <1>2 DEF Fetch, Waiting, InFlight
  <2>2. ~Rescue(j)
    BY <1>2 DEF Fetch, Waiting, Rescue, Running
  <2> QED
    BY <2>1, <2>2, MovedOK DEF Contexts
<1>3. ASSUME Running(j), NEW n \in Nat, Requeue(j, n)
      PROVE  JobsOK' /\ JobsKept(j) /\ ~Running(j)'
  <2>1. JobsOK' /\ JobsKept(j)
    BY <1>3, MovedOK DEF Requeue, Running, InFlight, Contexts
  <2>2. jobs'[j].state = "waiting"
    BY <1>3 DEF Requeue, Moved, JobsOK, JobsTypeOK
  <2> QED
    BY <2>1, <2>2 DEF Running
<1>4. ASSUME Finish(j)
      PROVE  JobsOK' /\ JobsKept(j) /\ ~Running(j)'
  BY <1>4, FinishOK DEF InFlight, Running
<1>5. CASE Running(j) /\ (RecordError(j) \/ Finish(j))
  <2>1. jobs[j].attempt > 0 /\ jobs[j].attempt - 1 \in Nat
    BY <1>1, <1>5 DEF JobsOK
  <2> QED
    BY <1>1, <1>3, <1>4, <1>5, <2>1 DEF RecordError
<1>6. CASE Rescue(j)
  BY <1>1, <1>3, <1>4, <1>6 DEF Rescue
<1>7. ASSUME NEW c \in Contexts, Running(j), jobs' = [jobs EXCEPT ![j].ctx = c]
      PROVE  JobsOK' /\ JobsKept(j)
  BY <1>7 DEF JobsOK, JobsTypeOK, Job, InFlight, Running, Run, JobsKept
<1>8. CASE (Die(j) \/ InterruptBySoftStop(j)) /\ ~Rescue(j)
  BY <1>7, <1>8 DEF Die, Attended, InterruptBySoftStop, Contexts
<1> QED
  BY <1>2, <1>5, <1>6, <1>8

-----------------------------------------------------------------------------
(* Runs and workers *)

\* A run that is not new keeps its owner; none comes back.
RunsKept ==
  \A r \in Runs : /\ runs'[r].owner = runs[r].owner
                  /\ (runs'[r].status = "none") <=> (runs[r].status = "none")
                  /\ Exists(r)' => Exists(r)
                  /\ runs'[r].started = runs[r].started \/ (Exists(r) /\ runs[r].started = 0)

\* A status update keeps the rows well typed and what identifies them.
LEMMA SetStatusOK ==
  ASSUME RunsOK, NEW r \in Runs, NEW s \in RunStatuses, SetStatus(r, s)
  PROVE  /\ RunsOK' /\ RunsKept
         /\ \A q \in Runs : runs'[q].started = runs[q].started
         /\ \A q \in Runs : q # r \/ ~Exists(r) => runs'[q] = runs[q]
         /\ Exists(r) => runs'[r].status = s
<1>1. runs \in [Runs -> RunType]
  BY DEF RunsOK
<1>2. runs' = [runs EXCEPT ![r].status = IF Exists(r) THEN s ELSE @]
  BY DEF SetStatus
<1>3. CASE Exists(r)
  <2>1. runs' = [runs EXCEPT ![r].status = s]
    BY <1>2, <1>3
  <2> QED
    BY <1>1, <1>3, <2>1 DEF RunsOK, RunType, RunStatuses, InProgress, RunsKept, Exists
<1>4. CASE ~Exists(r)
  <2>1. runs' = runs
    BY <1>1, <1>2, <1>4 DEF RunType
  <2> QED
    BY <1>4, <2>1 DEF RunsOK, RunsKept, Exists
<1> QED
  BY <1>3, <1>4

\* Removing rows does the same.
LEMMA WithoutOK ==
  ASSUME RunsOK, NEW R \in SUBSET Runs, \A r \in R : Exists(r), runs' = Without(R)
  PROVE  /\ RunsOK' /\ RunsKept
         /\ \A q \in Runs : runs'[q].started = runs[q].started
         /\ \A q \in Runs : runs'[q].status = runs[q].status \/ runs'[q].status = "gone"
<1>1. /\ runs' \in [Runs -> RunType]
      /\ \A q \in Runs : /\ runs'[q].owner = runs[q].owner
                         /\ runs'[q].started = runs[q].started
                         /\ runs'[q].status = IF q \in R THEN "gone" ELSE runs[q].status
  BY DEF RunsOK, RunType, Without
<1> QED
  BY <1>1 DEF RunsOK, RunsKept, Exists, RunStatuses, InProgress

LEMMA ReachedType ==
  ASSUME NEW pc \in {"idle", "mark"} \cup PollSteps \cup Returned,
         NEW since \in Times, NEW before \in Times, NEW lookback \in BOOLEAN,
         NEW page \in SUBSET Remote
  PROVE  Reached(pc, since, before, lookback, page) \in WorkType
BY DEF Reached, WorkType

LEMMA StepType ==
  ASSUME RunsAssumption, NEW pc \in {"idle", "mark"} \cup PollSteps \cup Returned
  PROVE  Step(pc) \in WorkType /\ Step(pc).pc = pc /\ Idle \in WorkType /\ Idle.pc = "idle"
<1>1. 0 \in Times /\ FALSE \in BOOLEAN /\ {} \in SUBSET Remote
  BY DEF RunsAssumption, Times
<1>2. Step(pc) \in WorkType /\ Step("idle") \in WorkType
  BY <1>1, ReachedType DEF Step
<1> QED
  BY <1>2 DEF Step, Reached, Idle

\* Jobs that stay, or leave, keep a run as long as the runs keep their owners.
LEMMA JobsHaveRunsKept ==
  ASSUME JobsOK, JobsHaveRuns, NEW j \in JobIds, JobsKept(j), RunsKept
  PROVE  JobsHaveRuns'
<1> SUFFICES ASSUME NEW i \in JobIds, InFlight(i)'
             PROVE  /\ runs'[Run(i)'].status # "none"
                    /\ jobs'[i].kind = KindOf(runs'[Run(i)'].owner)
  BY DEF JobsHaveRuns
<1>1. InFlight(i) /\ Run(i)' = Run(i) /\ jobs'[i].kind = jobs[i].kind
  BY DEF JobsKept, InFlight, Run
<1>2. Run(i) \in Runs /\ runs[Run(i)].status # "none" /\ jobs[i].kind = KindOf(runs[Run(i)].owner)
  BY <1>1 DEF JobsOK, JobsHaveRuns
<1> QED
  BY <1>1, <1>2 DEF RunsKept, KindOf

\* The variables that a step leaves alone.
LEMMA Unchanged ==
  ASSUME TypeOK
  PROVE  /\ UNCHANGED jobs => JobsOK' /\ \A j \in JobIds : JobsKept(j)
         /\ UNCHANGED runs => RunsOK' /\ RunsKept
         /\ UNCHANGED <<jobs, runs>> => JobsHaveRuns'
         /\ UNCHANGED clock => (clock \in 1..MaxClock)'
         /\ UNCHANGED stamp => (stamp \in [Remote -> Nat])'
         /\ UNCHANGED mirrored => (mirrored \subseteq Remote)'
         /\ UNCHANGED work => (work \in [JobIds -> WorkType])'
         /\ UNCHANGED behind => (behind \in [Owners -> Times])'
<1>1. UNCHANGED jobs => JobsOK' /\ \A j \in JobIds : JobsKept(j)
  BY DEF TypeOK, JobsOK, JobsTypeOK, InFlight, Running, Run, JobsKept
<1>2. UNCHANGED runs => RunsOK' /\ RunsKept
  BY DEF TypeOK, RunsOK, RunsKept, Exists
<1>3. UNCHANGED <<jobs, runs>> => JobsHaveRuns'
  BY DEF TypeOK, JobsHaveRuns, InFlight, Run
<1> QED
  BY <1>1, <1>2, <1>3 DEF TypeOK

-----------------------------------------------------------------------------
(* Type correctness *)

LEMMA InitType == RunsAssumption /\ Init => TypeOK
<1> SUFFICES ASSUME RunsAssumption, Init PROVE TypeOK
  OBVIOUS
<1>1. JobsOK /\ JobsHaveRuns
  BY DEF Init, JobsInit, JobsOK, JobsTypeOK, JobsHaveRuns, FreeJob, Job, Contexts, InFlight, Running
<1>2. NoRun \in RunType
  BY DEF NoRun, RunType, RunsAssumption, Times
<1>3. RunsOK
  BY <1>2 DEF Init, RunsOK, NoRun
<1>4. work \in [JobIds -> WorkType]
  BY StepType DEF Init, Returned
<1> QED
  BY <1>1, <1>3, <1>4 DEF Init, TypeOK, RunsAssumption, Times

\* A new run and its job.
LEMMA QueueFacts ==
  ASSUME RunsAssumption, TypeOK, NEW o \in Owners, NEW t \in Times, NEW n \in Limits \cup {0},
         Queue(o, t, n)
  PROVE  /\ TypeOK'
         /\ FreeId \in JobIds /\ jobs'[FreeId].state = "waiting"
         /\ \A j \in JobIds : j # FreeId => jobs'[j] = jobs[j]
         /\ FreeRun \in Runs /\ runs[FreeRun] = NoRun
         /\ runs'[FreeRun] = NewRun(o, t, n)
         /\ \A r \in Runs : r # FreeRun => runs'[r] = runs[r]
<1>1. FreeRun \in Runs /\ runs[FreeRun] = NoRun
  BY DEF Queue, FreeRun
<1>2. NewRun(o, t, n) \in RunType
  BY DEF NewRun, RunType, RunStatuses, InProgress, RunsAssumption, Times
<1>3. /\ runs'[FreeRun] = NewRun(o, t, n)
      /\ \A r \in Runs : r # FreeRun => runs'[r] = runs[r]
      /\ RunsOK'
  BY <1>1, <1>2 DEF Queue, TypeOK, RunsOK, NewRun
<1>4. KindOf(o) \in Kinds
  BY DEF KindOf, Kinds
<1>5. /\ FreeId \in JobIds /\ jobs'[FreeId] = NewJob(KindOf(o), FreeRun)
      /\ \A j \in JobIds : j # FreeId => jobs'[j] = jobs[j]
      /\ JobsOK'
  BY <1>1, <1>4, InsertedFacts DEF Queue, TypeOK
<1>6. JobsHaveRuns'
  <2> SUFFICES ASSUME NEW i \in JobIds, InFlight(i)'
               PROVE  /\ runs'[Run(i)'].status # "none"
                      /\ jobs'[i].kind = KindOf(runs'[Run(i)'].owner)
    BY DEF JobsHaveRuns
  <2>1. CASE i = FreeId
    BY <1>1, <1>3, <1>5, <2>1 DEF Run, NewJob, NewRun
  <2>2. CASE i # FreeId
    <3>1. InFlight(i) /\ Run(i)' = Run(i) /\ jobs'[i] = jobs[i]
      BY <1>5, <2>2 DEF InFlight, Run
    <3>2. Run(i) \in Runs /\ runs[Run(i)].status # "none" /\ jobs[i].kind = KindOf(runs[Run(i)].owner)
      BY <3>1 DEF TypeOK, JobsOK, JobsHaveRuns
    <3>3. Run(i) # FreeRun
      BY <1>1, <3>2 DEF NoRun
    <3> QED
      BY <1>3, <3>1, <3>2, <3>3 DEF KindOf
  <2> QED
    BY <2>1, <2>2
<1>7. jobs'[FreeId].state = "waiting"
  BY <1>5 DEF NewJob
<1>8. TypeOK'
  BY <1>3, <1>5, <1>6, Unchanged DEF Queue, TypeOK
<1> QED
  BY <1>1, <1>3, <1>5, <1>7, <1>8

\* The queue's own steps.
LEMMA QueueType ==
  ASSUME RunsAssumption, TypeOK, NEW j \in JobIds, QueueStep(j) \/ Disturbance(j)
  PROVE  /\ TypeOK' /\ JobsKept(j)
         /\ UNCHANGED <<clock, stamp, mirrored, runs, behind>>
         /\ \A i \in JobIds : i # j => work'[i] = work[i]
         /\ Running(j)' => work'[j].pc \in {"mark", "idle"} \/ (Running(j) /\ work'[j] = work[j])
<1>1. work \in [JobIds -> WorkType] /\ JobsOK /\ JobsHaveRuns
  BY DEF TypeOK
<1>2. UNCHANGED <<clock, stamp, mirrored, runs, behind>>
  BY DEF QueueStep, Disturbance, Take, Record, RescueStuck, Crash, SoftStop, remote
<1>3. JobsOK' /\ JobsKept(j) /\ (Rescue(j) => ~Running(j)')
  BY <1>1, QueueActionOK
     DEF QueueStep, Disturbance, Take, Record, RescueStuck, Crash, SoftStop, Attended
<1>4. \/ Goto(j, Step("mark")) \/ Goto(j, Idle)
      \/ Rescue(j) /\ UNCHANGED work
      \/ Running(j) /\ UNCHANGED work
  BY DEF QueueStep, Disturbance, Take, Record, RescueStuck, Crash, SoftStop, InterruptBySoftStop
<1>5. /\ work' \in [JobIds -> WorkType]
      /\ \A i \in JobIds : i # j => work'[i] = work[i]
      /\ Running(j)' => work'[j].pc \in {"mark", "idle"} \/ (Running(j) /\ work'[j] = work[j])
  BY <1>1, <1>3, <1>4, StepType DEF Goto
<1>6. JobsHaveRuns'
  BY <1>1, <1>2, <1>3, JobsHaveRunsKept, Unchanged
<1> QED
  BY <1>2, <1>3, <1>5, <1>6, Unchanged DEF TypeOK

\* Commands and retention.
LEMMA RemovalType ==
  ASSUME RunsAssumption, TypeOK,
         (\E o \in Owners : DeleteRuns(o)) \/ (\E r \in Runs : ExpireRun(r))
  PROVE  /\ TypeOK' /\ RunsKept
         /\ \A q \in Runs : runs'[q].started = runs[q].started
         /\ \A q \in Runs : runs'[q].status = runs[q].status \/ runs'[q].status = "gone"
         /\ UNCHANGED <<clock, stamp, mirrored, jobs, work, behind>>
<1>1. PICK R \in SUBSET Runs : (\A r \in R : Exists(r)) /\ runs' = Without(R)
  <2>1. ASSUME NEW o \in Owners, DeleteRuns(o)
        PROVE  \E R \in SUBSET Runs : (\A r \in R : Exists(r)) /\ runs' = Without(R)
    BY <2>1 DEF DeleteRuns, Exists, RunStatuses
  <2>2. ASSUME NEW r \in Runs, ExpireRun(r)
        PROVE  \E R \in SUBSET Runs : (\A q \in R : Exists(q)) /\ runs' = Without(R)
    BY <2>2 DEF ExpireRun
  <2> QED
    BY <2>1, <2>2
<1>2. UNCHANGED <<clock, stamp, mirrored, jobs, work, behind>>
  BY DEF DeleteRuns, ExpireRun, remote
<1>3. /\ RunsOK' /\ RunsKept
      /\ \A q \in Runs : runs'[q].started = runs[q].started
      /\ \A q \in Runs : runs'[q].status = runs[q].status \/ runs'[q].status = "gone"
  BY <1>1, WithoutOK DEF TypeOK
<1>4. JobsHaveRuns'
  <2> SUFFICES ASSUME NEW i \in JobIds, InFlight(i)
               PROVE  /\ runs'[Run(i)].status # "none"
                      /\ jobs[i].kind = KindOf(runs'[Run(i)].owner)
    BY <1>2 DEF JobsHaveRuns, InFlight, Run
  <2> QED
    BY <1>3 DEF TypeOK, JobsOK, JobsHaveRuns, RunsKept, KindOf
<1> QED
  BY <1>2, <1>3, <1>4, Unchanged DEF TypeOK

\* A step of a worker: its job is running, and it moves nobody else's work.
LEMMA WorkerType ==
  ASSUME RunsAssumption, TypeOK, NEW j \in JobIds, WorkerStep(j)
  PROVE  /\ TypeOK' /\ RunsKept /\ Running(j)
         /\ UNCHANGED <<clock, stamp, jobs>>
         /\ \A i \in JobIds : i # j => work'[i] = work[i]
         /\ mirrored \subseteq mirrored'
         /\ \A o \in Owners : behind[o] <= behind'[o]
<1> DEFINE r == Run(j)
<1>1. Running(j)
  BY DEF WorkerStep, MarkRunning, MarkFails, StoreItems, ReadClock, OpenWindow, FetchEpisodes,
         StoreMirrored, FailPoll, FailUnrecorded, At, Attended
<1>2. /\ r \in Runs /\ runs[r].status # "none" /\ runs[r].owner \in Owners
      /\ runs[r] \in RunType /\ RunsOK
      /\ work \in [JobIds -> WorkType] /\ work[j] \in WorkType
      /\ clock \in Times /\ clock \in Nat /\ clock > 0
      /\ behind \in [Owners -> Times]
  BY <1>1 DEF TypeOK, JobsOK, JobsHaveRuns, RunsOK, Running, InFlight, Times, RunsAssumption
<1>3. UNCHANGED <<clock, stamp, jobs>>
  BY DEF WorkerStep, MarkRunning, MarkFails, StoreItems, ReadClock, OpenWindow, FetchEpisodes,
         StoreMirrored, FailPoll, FailUnrecorded, remote
<1> HIDE DEF r
<1>4. RunsOK' /\ RunsKept
  <2>1. CASE MarkRunning(j)
    <3>1. CASE Exists(r)
      <4>1. runs' = [runs EXCEPT ![r] = Started(runs[r])]
        BY <2>1, <3>1 DEF MarkRunning, r
      <4>2. /\ runs'[r] \in RunType /\ runs'[r].owner = runs[r].owner
            /\ runs'[r].status = "running"
            /\ runs'[r].started = IF runs[r].started = 0 THEN clock ELSE runs[r].started
            /\ \A q \in Runs : q # r => runs'[q] = runs[q]
            /\ runs' \in [Runs -> RunType]
        BY <1>2, <4>1 DEF Started, RunsOK, RunType, RunStatuses, InProgress
      <4> QED
        BY <1>2, <3>1, <4>2 DEF RunsOK, RunsKept, Exists, RunStatuses, InProgress
    <3>2. CASE ~Exists(r)
      <4>1. runs' = [runs EXCEPT ![r] = @]
        BY <2>1, <3>2 DEF MarkRunning, r
      <4>2. runs' = runs
        BY <1>2, <4>1 DEF RunsOK
      <4> QED
        BY <4>2, Unchanged
    <3> QED
      BY <3>1, <3>2
  <2>2. CASE StoreItems(j) \/ StoreMirrored(j)
    <3>1. SetStatus(r, "completed")
      BY <2>2 DEF StoreItems, StoreMirrored, r
    <3> QED
      BY <1>2, <3>1, SetStatusOK DEF RunStatuses
  <2>3. CASE \E permanent \in BOOLEAN : FailPoll(j, permanent)
    <3>1. \E s \in {"failed", "retrying"} : SetStatus(r, s)
      BY <2>3 DEF FailPoll, FailStatus, r
    <3> QED
      BY <1>2, <3>1, SetStatusOK DEF RunStatuses, InProgress
  <2>4. CASE UNCHANGED runs
    BY <2>4, Unchanged
  <2> QED
    BY <2>1, <2>2, <2>3, <2>4
       DEF WorkerStep, MarkFails, ReadClock, OpenWindow, FetchEpisodes, FailUnrecorded
<1>5. \E w \in WorkType : Goto(j, w)
  <2>1. CASE ReadClock(j)
    <3>1. 0 \in Times /\ FALSE \in BOOLEAN /\ {} \in SUBSET Remote
      BY DEF Times, RunsAssumption
    <3>2. Reached("window", 0, clock, FALSE, {}) \in WorkType
      BY <1>2, <3>1, ReachedType DEF PollSteps
    <3> QED
      BY <2>1, <3>2 DEF ReadClock
  <2>2. CASE OpenWindow(j)
    <3>1. PICK since \in Times, lookback \in BOOLEAN :
            Goto(j, Reached("fetch", since, work[j].before, lookback, {}))
      BY <2>2 DEF OpenWindow, Times
    <3>2. work[j].before \in Times
      BY <1>2 DEF WorkType
    <3> QED
      BY <3>1, <3>2, ReachedType DEF PollSteps
  <2>3. CASE FetchEpisodes(j)
    <3>1. PICK P \in SUBSET Remote :
            Goto(j, Reached("store", work[j].since, work[j].before, work[j].lookback, P))
      BY <2>3 DEF FetchEpisodes
    <3>2. work[j].before \in Times /\ work[j].since \in Times /\ work[j].lookback \in BOOLEAN
      BY <1>2 DEF WorkType
    <3> QED
      BY <3>1, <3>2, ReachedType DEF PollSteps
  <2>4. CASE \E pc \in {"poll", "begin", "ok", "error"} : Goto(j, Step(pc))
    BY <2>4, StepType DEF PollSteps, Returned
  <2>5. WorkerStep(j) => \/ ReadClock(j) \/ OpenWindow(j) \/ FetchEpisodes(j)
                         \/ \E pc \in {"poll", "begin", "ok", "error"} : Goto(j, Step(pc))
    BY DEF WorkerStep, MarkRunning, MarkFails, StoreItems, StoreMirrored, FailPoll, FailUnrecorded
  <2> QED
    BY <2>1, <2>2, <2>3, <2>4, <2>5
<1>6. /\ work' \in [JobIds -> WorkType]
      /\ \A i \in JobIds : i # j => work'[i] = work[i]
  BY <1>2, <1>5 DEF Goto
<1>7. /\ mirrored \subseteq mirrored' /\ (mirrored \subseteq Remote)'
      /\ behind' \in [Owners -> Times] /\ \A o \in Owners : behind[o] <= behind'[o]
  <2>1. CASE StoreMirrored(j)
    <3>1. mirrored' = mirrored \cup work[j].page /\ work[j].page \subseteq Remote
      BY <1>2, <2>1 DEF StoreMirrored, WorkType
    <3>2. /\ behind' = [behind EXCEPT ![runs[r].owner] =
                          IF work[j].lookback THEN Later(@, work[j].since) ELSE @]
          /\ work[j].since \in Times
      BY <1>2, <2>1 DEF StoreMirrored, WorkType, r
    <3>3. behind' \in [Owners -> Times] /\ \A o \in Owners : behind[o] <= behind'[o]
      BY <1>2, <3>2 DEF Later, Times, RunsAssumption
    <3> QED
      BY <3>1, <3>3 DEF TypeOK
  <2>2. CASE UNCHANGED <<mirrored, behind>>
    BY <1>2, <2>2 DEF TypeOK, Times, RunsAssumption
  <2> QED
    BY <2>1, <2>2
       DEF WorkerStep, MarkRunning, MarkFails, StoreItems, ReadClock, OpenWindow, FetchEpisodes,
           FailPoll, FailUnrecorded
<1>8. JobsHaveRuns'
  BY <1>3, <1>4, JobsHaveRunsKept, Unchanged DEF TypeOK
<1> QED
  BY <1>1, <1>3, <1>4, <1>6, <1>7, <1>8, Unchanged DEF TypeOK

\* Time, and what the other deployment publishes.
LEMMA WorldType ==
  ASSUME RunsAssumption, TypeOK, Tick \/ \E e \in Remote : Publish(e)
  PROVE  TypeOK' /\ UNCHANGED <<mirrored, runs, jobs, work, behind>>
<1>1. UNCHANGED <<mirrored, runs, jobs, work, behind>>
  BY DEF Tick, Publish
<1>2. (clock \in 1..MaxClock)'
  BY DEF Tick, Publish, TypeOK, RunsAssumption
<1>3. (stamp \in [Remote -> Nat])'
  BY DEF Tick, Publish, TypeOK, RunsAssumption
<1> QED
  BY <1>1, <1>2, <1>3, Unchanged DEF TypeOK

\* What an operator or the scheduler queues.
LEMMA QueuedRun ==
  ASSUME RunsAssumption, TypeOK, NEW o \in Owners, Schedule(o) \/ Enqueue(o)
  PROVE  \E t \in Times, n \in Limits \cup {0} : Queue(o, t, n)
BY DEF Schedule, Enqueue, TypeOK, Times, RunsAssumption

LEMMA NextType == RunsAssumption /\ TypeOK /\ [Next]_vars => TypeOK'
<1> SUFFICES ASSUME RunsAssumption, TypeOK, [Next]_vars PROVE TypeOK'
  OBVIOUS
<1>1. CASE Tick \/ \E e \in Remote : Publish(e)
  BY <1>1, WorldType
<1>2. ASSUME NEW o \in Owners, Schedule(o) \/ Enqueue(o)
      PROVE  TypeOK'
  BY <1>2, QueuedRun, QueueFacts
<1>3. CASE (\E o \in Owners : DeleteRuns(o)) \/ \E r \in Runs : ExpireRun(r)
  BY <1>3, RemovalType
<1>4. ASSUME NEW j \in JobIds, QueueStep(j) \/ Disturbance(j)
      PROVE  TypeOK'
  BY <1>4, QueueType
<1>5. ASSUME NEW j \in JobIds, WorkerStep(j)
      PROVE  TypeOK'
  BY <1>5, WorkerType
<1>6. CASE UNCHANGED vars
  BY <1>6, Unchanged DEF vars, TypeOK
<1> QED
  BY <1>1, <1>2, <1>3, <1>4, <1>5, <1>6 DEF Next, OwnerStep

\* In every behaviour every variable keeps its type: a job in the queue is for
\* a run that was queued and has an owner, whatever was deleted or expired.
THEOREM TypeCorrect == Spec => []TypeOK
<1>1. Init => TypeOK
  BY RunsAssumption, InitType
<1>2. TypeOK /\ [Next]_vars => TypeOK'
  BY RunsAssumption, NextType
<1> QED
  BY <1>1, <1>2, PTL DEF Spec

-----------------------------------------------------------------------------
(* No episode is skipped *)

\* A page can hold everything the other deployments publish: without it a pull
\* that is cut off moves the window past what it left out.
PagesSuffice ==
  /\ IsFiniteSet(Remote) /\ PageLimit >= Cardinality(Remote)
  /\ \A n \in Limits : n = 0 \/ n >= Cardinality(Remote)

LEMMA MinusFacts ==
  ASSUME NEW a \in Nat, NEW b \in Nat, NEW c \in Nat, a <= b
  PROVE  /\ Minus(a, c) \in Nat /\ Minus(a, c) <= Minus(b, c)
         /\ Minus(a, c) <= a
BY DEF Minus

\* What the types say of the numbers.
LEMMA Numbers ==
  ASSUME RunsAssumption, TypeOK
  PROVE  /\ clock \in Nat /\ clock > 0 /\ Overlap \in Nat /\ Skew \in Nat /\ Skew <= Overlap
         /\ Subscriptions \subseteq Owners
         /\ \A e \in Remote : stamp[e] \in Nat /\ Origin[e] \in Subscriptions
         /\ \A r \in Runs : runs[r].started \in Nat
         /\ \A o \in Owners : behind[o] \in Nat
         /\ \A j \in JobIds : work[j].since \in Nat /\ work[j].before \in Nat
                              /\ work[j].lookback \in BOOLEAN
         /\ \A j \in JobIds : Running(j) => /\ Run(j) \in Runs /\ runs[Run(j)].owner \in Owners
                                            /\ runs[Run(j)].status # "none"
                                            /\ jobs[j].kind = KindOf(runs[Run(j)].owner)
<1>1. \A j \in JobIds : /\ work[j].since \in Times /\ work[j].before \in Times
                        /\ work[j].lookback \in BOOLEAN
  BY DEF TypeOK, WorkType
<1>2. \A r \in Runs : runs[r].started \in Times
  BY DEF TypeOK, RunsOK, RunType
<1>3. \A j \in JobIds : Running(j) => /\ Run(j) \in Runs /\ runs[Run(j)].owner \in Owners
                                      /\ runs[Run(j)].status # "none"
                                      /\ jobs[j].kind = KindOf(runs[Run(j)].owner)
  BY DEF TypeOK, RunsOK, JobsOK, JobsHaveRuns, Running, InFlight
<1>4. \A t \in Times : t \in Nat
  BY DEF Times, RunsAssumption
<1> QED
  BY <1>1, <1>2, <1>3, <1>4 DEF TypeOK, RunsAssumption

\* Storing and looking back only ever take episodes off what is owed.
OwedKept == \A o \in Owners : Owed(o)' \subseteq Owed(o)

LEMMA OwedShrinks ==
  ASSUME RunsAssumption, TypeOK, TypeOK', stamp' = stamp, mirrored \subseteq mirrored',
         \A o \in Owners : behind[o] <= behind'[o]
  PROVE  OwedKept
<1>1. /\ \A e \in Remote : stamp[e] \in Nat
      /\ \A o \in Owners : behind[o] \in Nat /\ behind'[o] \in Nat
  BY Numbers DEF TypeOK, Times, RunsAssumption
<1> QED
  BY <1>1 DEF OwedKept, Owed

\* A worker that a step passes by keeps what it knows of its window.
LEMMA PollFrame ==
  ASSUME RunsAssumption, TypeOK, TypeOK', RunsKept, OwedKept, stamp' = stamp, clock <= clock',
         NEW j \in JobIds, Running(j), Dated(j), Opened(j), Fetched(j),
         jobs'[j].subject = jobs[j].subject, jobs'[j].kind = jobs[j].kind, work'[j] = work[j]
  PROVE  Dated(j)' /\ Opened(j)' /\ Fetched(j)'
<1> DEFINE r == Run(j)
<1>1. /\ Run(j)' = r /\ r \in Runs /\ runs'[r].owner = runs[r].owner
      /\ Exists(r)' => Exists(r)
      /\ runs'[r].started = runs[r].started \/ (Exists(r) /\ runs[r].started = 0)
  BY Numbers DEF Run, RunsKept
<1>2. Minus(clock, Overlap) <= Minus(clock', Overlap)
      /\ Minus(clock, Overlap) \in Nat /\ Minus(clock', Overlap) \in Nat
  <2>1. clock \in Nat /\ Overlap \in Nat
    BY Numbers
  <2>2. clock' \in Nat
    BY DEF TypeOK
  <2> QED
    BY <2>1, <2>2, MinusFacts
<1>3. Owed(runs[r].owner)' \subseteq Owed(runs[r].owner)
  <2>1. runs[r].owner \in Owners
    BY Numbers
  <2>2. \A e \in Owed(runs[r].owner)' : e \in Remote /\ stamp'[e] # 0
    BY DEF Owed
  <2> QED
    BY <1>1, <2>1 DEF OwedKept, Owed
<1>4. /\ work[j].since \in Nat /\ work[j].before \in Nat
      /\ runs[r].started \in Nat /\ clock \in Nat /\ clock' \in Nat
  BY <1>1, Numbers DEF TypeOK
<1>5. Dated(j)'
  <2>1. work[j].pc = "poll" => jobs[j].kind = "poll_source"
    BY DEF Dated
  <2>2. work[j].pc \in PollSteps => runs'[r].started = runs[r].started
    BY <1>1 DEF Dated
  <2>3. work[j].pc \in PollSteps /\ Exists(r)' => runs'[r].started > 0
    BY <1>1, <2>2 DEF Dated
  <2>4. work[j].pc \in {"window", "fetch", "store"} =>
          runs'[r].started <= work[j].before /\ work[j].before <= clock'
    BY <1>1, <1>4, <2>2 DEF Dated, PollSteps
  <2> QED
    BY <1>1, <2>1, <2>3, <2>4 DEF Dated, Exists
<1>6. Opened(j)'
  BY <1>1, <1>2, <1>3, <1>4 DEF Opened
<1>7. Fetched(j)'
  BY <1>1, <1>3 DEF Fetched
<1> QED
  BY <1>5, <1>6, <1>7

\* No run of a subscription completes, and what is complete keeps its start.
CompletedKept ==
  \A o \in Subscriptions : \A r \in Runs :
    runs'[r].owner = o /\ runs'[r].status = "completed" =>
      /\ runs[r].owner = o /\ runs[r].status = "completed"
      /\ runs'[r].started = runs[r].started

LEMMA SkipFrame ==
  ASSUME RunsAssumption, NothingSkipped, OwedKept, stamp' = stamp, CompletedKept
  PROVE  NothingSkipped'
<1> SUFFICES ASSUME NEW o \in Subscriptions, NEW e \in Owed(o)', NEW r \in Completed(o)'
             PROVE  stamp'[e] >= Minus(runs'[r].started, Overlap)
  BY DEF NothingSkipped
<1>1. e \in Owed(o)
  BY DEF OwedKept, RunsAssumption
<1>2. r \in Completed(o) /\ runs'[r].started = runs[r].started
  BY DEF CompletedKept, Completed
<1> QED
  BY <1>1, <1>2 DEF NothingSkipped

\* What holds when the rows and the workers stay as they are.
LEMMA Still ==
  ASSUME RunsAssumption, TypeOK, TypeOK', NothingSkipped, WindowInv,
         UNCHANGED <<stamp, mirrored, runs, jobs, work, behind>>, clock <= clock'
  PROVE  NothingSkipped' /\ WindowInv'
<1>1. OwedKept /\ CompletedKept /\ RunsKept
  BY DEF OwedKept, Owed, CompletedKept, RunsKept, Exists
<1>2. \A r \in Runs : runs'[r].started <= clock'
  BY Numbers DEF WindowInv, TypeOK, RunsAssumption
<1>3. \A j \in JobIds : Running(j)' => Dated(j)' /\ Opened(j)' /\ Fetched(j)'
  BY <1>1, PollFrame DEF WindowInv, Running
<1> QED
  BY <1>1, <1>2, <1>3, SkipFrame DEF WindowInv

\* An episode that is published now lies in every window that is still open.
LEMMA PublishKeeps ==
  ASSUME RunsAssumption, TypeOK, TypeOK', NothingSkipped, WindowInv,
         NEW x \in Remote, Publish(x)
  PROVE  NothingSkipped' /\ WindowInv'
<1>1. UNCHANGED <<clock, mirrored, runs, jobs, work, behind>>
  BY DEF Publish
<1>2. PICK t \in 1..(clock + Skew) : clock <= t + Skew /\ stamp' = [stamp EXCEPT ![x] = t]
  BY DEF Publish
<1>3. t \in Nat /\ clock \in Nat /\ Overlap \in Nat /\ Skew \in Nat /\ Skew <= Overlap
  BY Numbers
<1>4. \A n \in Nat : n <= clock => t >= Minus(n, Overlap)
  BY <1>2, <1>3 DEF Minus
<1>5. \A o \in Owners : \A e \in Owed(o)' : \/ stamp'[e] = t
                                            \/ e \in Owed(o) /\ stamp'[e] = stamp[e]
  BY <1>1, <1>2 DEF Owed, TypeOK
<1>6. NothingSkipped'
  <2> SUFFICES ASSUME NEW o \in Subscriptions, NEW e \in Owed(o)', NEW r \in Completed(o)
               PROVE  stamp'[e] >= Minus(runs[r].started, Overlap)
    BY <1>1 DEF NothingSkipped, Completed
  <2>1. runs[r].started \in Nat /\ runs[r].started <= clock /\ o \in Owners
    BY Numbers DEF Completed, WindowInv
  <2>2. CASE stamp'[e] = t
    BY <1>4, <2>1, <2>2
  <2>3. CASE e \in Owed(o) /\ stamp'[e] = stamp[e]
    BY <2>3 DEF NothingSkipped
  <2> QED
    BY <1>5, <2>1, <2>2, <2>3
<1>7. ASSUME NEW j \in JobIds, Running(j)
      PROVE  Dated(j)' /\ Opened(j)' /\ Fetched(j)'
  <2>0. PICK o \in Owners : o = runs[Run(j)].owner
    BY <1>7, Numbers
  <2>1. Dated(j) /\ Opened(j) /\ Fetched(j)
        /\ work[j].since \in Nat /\ work[j].before \in Nat
    BY <1>7, Numbers DEF WindowInv
  <2>2. Owed(runs[Run(j)].owner)' = Owed(o)'
    BY <1>1, <2>0 DEF Run
  <2>3. Dated(j)'
    BY <1>1, <2>1 DEF Dated, Run, Exists
  <2>4. Opened(j)'
    <3> SUFFICES ASSUME work[j].pc = "fetch", ~work[j].lookback
                 PROVE  /\ work[j].since <= Minus(clock, Overlap)
                        /\ \A e \in Owed(o)' : stamp'[e] >= work[j].since
      BY <1>1, <2>2 DEF Opened
    <3>1. work[j].since <= Minus(clock, Overlap) /\ \A e \in Owed(o) : stamp[e] >= work[j].since
      BY <2>0, <2>1 DEF Opened
    <3>2. t >= Minus(clock, Overlap) /\ Minus(clock, Overlap) \in Nat
      BY <1>3, <1>4, MinusFacts
    <3>3. t >= work[j].since
      BY <1>3, <2>1, <3>1, <3>2
    <3> QED
      BY <1>5, <3>1, <3>3
  <2>5. Fetched(j)'
    <3> SUFFICES ASSUME work[j].pc = "store", NEW e \in Owed(o)' \ work[j].page
                 PROVE  \/ stamp'[e] >= Minus(work[j].before, Overlap)
                        \/ work[j].lookback /\ stamp'[e] < work[j].since
      BY <1>1, <2>2 DEF Fetched
    <3>1. work[j].before <= clock
      BY <2>1 DEF Dated
    <3> QED
      BY <1>4, <1>5, <2>0, <2>1, <3>1 DEF Fetched
  <2> QED
    BY <2>3, <2>4, <2>5
<1> QED
  BY <1>1, <1>6, <1>7 DEF WindowInv, Running

-----------------------------------------------------------------------------
(* The steps of a poll *)

\* After any step of j the other workers keep what they know, and so do the
\* runs: what is left to show is what j itself knows then.
LEMMA OthersKeep ==
  ASSUME RunsAssumption, TypeOK, TypeOK', WindowInv, RunsKept, OwedKept,
         UNCHANGED <<clock, stamp>>, \A r \in Runs : runs'[r].started <= clock,
         NEW j \in JobIds, JobsKept(j), \A i \in JobIds : i # j => work'[i] = work[i],
         Running(j)' => Dated(j)' /\ Opened(j)' /\ Fetched(j)'
  PROVE  WindowInv'
<1> SUFFICES ASSUME NEW i \in JobIds, Running(i)', i # j
             PROVE  Dated(i)' /\ Opened(i)' /\ Fetched(i)'
  BY DEF WindowInv
<1>1. jobs'[i] = jobs[i] /\ work'[i] = work[i] /\ Running(i)
  BY DEF JobsKept, Running
<1>2. clock <= clock'
  BY Numbers
<1>3. Dated(i) /\ Opened(i) /\ Fetched(i)
  BY <1>1 DEF WindowInv
<1> QED
  BY <1>1, <1>2, <1>3, PollFrame

\* A worker whose poll is over, or has not begun, knows nothing.
LEMMA KnowsNothing ==
  ASSUME NEW j, work'[j].pc \notin PollSteps
  PROVE  Dated(j)' /\ Opened(j)' /\ Fetched(j)'
BY DEF PollSteps, Dated, Opened, Fetched

\* The first attempt starts the run now.
LEMMA MarkKeeps ==
  ASSUME RunsAssumption, TypeOK, TypeOK', NothingSkipped, WindowInv, OwedKept, RunsKept,
         NEW j \in JobIds, MarkRunning(j)
  PROVE  /\ CompletedKept
         /\ \A r \in Runs : runs'[r].started <= clock
         /\ Dated(j)' /\ Opened(j)' /\ Fetched(j)'
<1> DEFINE r == Run(j)
<1>1. /\ r \in Runs /\ runs \in [Runs -> RunType] /\ clock \in Nat /\ clock > 0
      /\ jobs[j].kind \in Kinds /\ work \in [JobIds -> WorkType] /\ UNCHANGED jobs
      /\ \A q \in Runs : runs[q].started \in Nat /\ runs[q].started <= clock
  BY Numbers DEF MarkRunning, At, TypeOK, RunsOK, JobsOK, Running, InFlight, WindowInv
<1> HIDE DEF r
<1>2. \A q \in Runs : \/ runs'[q] = runs[q] /\ (q = r => ~Exists(r))
                      \/ /\ q = r /\ runs'[q].status = "running" 
                         /\ runs'[q].started = IF runs[q].started = 0 THEN clock ELSE runs[q].started
  <2>1. runs' = [runs EXCEPT ![r] = IF Exists(r) THEN Started(runs[r]) ELSE @]
    BY DEF MarkRunning, r
  <2>2. /\ Started(runs[r]).status = "running"
        /\ Started(runs[r]).started = IF runs[r].started = 0 THEN clock ELSE runs[r].started
    BY <1>1 DEF Started, RunType
  <2> QED
    BY <1>1, <2>1, <2>2
<1>3. CompletedKept
  BY <1>2 DEF CompletedKept
<1>4. \A q \in Runs : runs'[q].started <= clock
  BY <1>1, <1>2
<1>5. runs'[r].status \in RunStatuses => runs'[r].started > 0
  BY <1>1, <1>2 DEF Exists
<1>6. /\ work'[j].pc \in {"poll", "begin"}
      /\ work'[j].pc = "poll" => jobs[j].kind = "poll_source"
  BY <1>1 DEF MarkRunning, Goto, Step, Reached
<1>7. Dated(j)'
  BY <1>1, <1>5, <1>6 DEF Dated, Run, Exists, r
<1>8. Opened(j)' /\ Fetched(j)'
  BY <1>6 DEF Opened, Fetched
<1> QED
  BY <1>3, <1>4, <1>7, <1>8

\* A pull's steps that read: the rows stay, and what is read holds.
LEMMA ReadKeeps ==
  ASSUME RunsAssumption, PagesSuffice, TypeOK, NothingSkipped, WindowInv, NEW j \in JobIds,
         ReadClock(j) \/ OpenWindow(j) \/ FetchEpisodes(j)
  PROVE  Dated(j)' /\ Opened(j)' /\ Fetched(j)'
<1>1. /\ Running(j) /\ UNCHANGED <<clock, stamp, mirrored, runs, jobs, behind>>
      /\ Dated(j) /\ Opened(j) /\ Fetched(j)
  BY DEF ReadClock, OpenWindow, FetchEpisodes, At, remote, WindowInv
<1>2. PICK r \in Runs : r = Run(j) /\ runs[r].started \in Nat /\ runs[r].started <= clock
  BY <1>1, Numbers DEF WindowInv
<1>3. PICK o \in Owners : o = runs[r].owner
  BY <1>1, <1>2, Numbers
<1>4. /\ Run(j)' = r /\ runs' = runs /\ Owed(runs[Run(j)].owner)' = Owed(o)
      /\ clock \in Nat /\ Overlap \in Nat
      /\ work[j].since \in Nat /\ work[j].before \in Nat /\ work[j].lookback \in BOOLEAN
      /\ work \in [JobIds -> WorkType]
  BY <1>1, <1>2, <1>3, Numbers DEF Run, Owed, TypeOK
<1>5. \A e \in Owed(o) : e \in Remote /\ Origin[e] = o /\ o \in Subscriptions /\ stamp[e] \in Nat
  BY Numbers DEF Owed
<1>6. CASE ReadClock(j)
  <2>1. work'[j].pc = "window" /\ work'[j].before = clock
    BY <1>4, <1>6 DEF ReadClock, Goto, Reached
  <2>2. Exists(r) => runs[r].started > 0
    BY <1>1, <1>2, <1>6 DEF ReadClock, At, Dated, PollSteps
  <2> QED
    BY <1>1, <1>2, <1>4, <2>1, <2>2 DEF Dated, Opened, Fetched, Exists
<1>7. CASE OpenWindow(j)
  <2>1. PICK since \in 0..MaxClock, lookback \in BOOLEAN :
          /\ WindowStart(j, since, lookback)
          /\ Goto(j, Reached("fetch", since, work[j].before, lookback, {}))
    BY <1>7 DEF OpenWindow
  <2>2. /\ work'[j].pc = "fetch" /\ work'[j].since = since /\ work'[j].lookback = lookback
        /\ work'[j].before = work[j].before
    BY <1>4, <2>1 DEF Goto, Reached
  <2>3. Dated(j)'
    BY <1>1, <1>2, <1>4, <1>7, <2>2 DEF OpenWindow, At, Dated, PollSteps, Exists
  <2>4. ~lookback => /\ since <= Minus(clock, Overlap)
                     /\ \A e \in Owed(o) : stamp[e] >= since
    <3> SUFFICES ASSUME ~lookback
                 PROVE  /\ since <= Minus(clock, Overlap)
                        /\ \A e \in Owed(o) : stamp[e] >= since
      OBVIOUS
    <3>1. PICK q \in Completed(o) : since = Minus(runs[q].started, Overlap)
      BY <1>2, <1>3, <2>1 DEF WindowStart
    <3>2. runs[q].started \in Nat /\ runs[q].started <= clock
      BY <3>1, Numbers DEF Completed, WindowInv
    <3>3. since <= Minus(clock, Overlap)
      BY <1>4, <3>1, <3>2, MinusFacts
    <3>4. \A e \in Owed(o) : stamp[e] >= since
      BY <1>5, <3>1 DEF NothingSkipped
    <3> QED
      BY <3>3, <3>4
  <2> QED
    BY <1>1, <1>4, <2>2, <2>3, <2>4 DEF Opened, Fetched
<1>8. CASE FetchEpisodes(j)
  <2>1. PICK P \in SUBSET Remote :
          /\ IsNewest(P, InWindow(o, work[j].since, work[j].before), Page(r))
          /\ Goto(j, Reached("store", work[j].since, work[j].before, work[j].lookback, P))
    BY <1>2, <1>3, <1>8 DEF FetchEpisodes
  <2>2. /\ work'[j].pc = "store" /\ work'[j].since = work[j].since /\ work'[j].page = P
        /\ work'[j].before = work[j].before /\ work'[j].lookback = work[j].lookback
    BY <1>4, <2>1 DEF Goto, Reached
  <2>3. Dated(j)'
    BY <1>1, <1>2, <1>4, <1>8, <2>2 DEF FetchEpisodes, At, Dated, PollSteps, Exists
  <2> DEFINE S == InWindow(o, work[j].since, work[j].before)
  <2>4. P = S
    <3>1. /\ S \subseteq Remote /\ IsFiniteSet(Remote) /\ P \subseteq S
          /\ P # S => Cardinality(P) = Page(r)
      BY <2>1 DEF IsNewest, InWindow, Published, PagesSuffice
    <3>2. Page(r) >= Cardinality(Remote)
      <4>1. runs[r].limit \in Limits \cup {0} /\ Cardinality(Remote) \in Nat
        BY <1>2, <3>1, FS_CardinalityType DEF TypeOK, RunsOK, RunType
      <4> QED
        BY <4>1 DEF Page, PagesSuffice
    <3>3. /\ IsFiniteSet(S) /\ Cardinality(S) <= Cardinality(Remote)
          /\ Cardinality(S) \in Nat /\ Cardinality(Remote) \in Nat
      BY <3>1, FS_Subset, FS_CardinalityType
    <3>4. P # S => Cardinality(P) < Cardinality(S) /\ Cardinality(P) \in Nat
      BY <3>1, <3>3, FS_Subset, FS_CardinalityType
    <3> QED
      BY <3>1, <3>2, <3>3, <3>4 DEF Page, RunsAssumption
  <2>5. Fetched(j)'
    <3> SUFFICES ASSUME NEW e \in Owed(o) \ P
                 PROVE  \/ stamp[e] >= Minus(work[j].before, Overlap)
                        \/ work[j].lookback /\ stamp[e] < work[j].since
      BY <1>1, <1>4, <2>2 DEF Fetched
    <3>1. ~(work[j].since <= stamp[e] /\ stamp[e] < work[j].before)
      BY <1>5, <2>4 DEF InWindow, Published, Owed
    <3>2. CASE stamp[e] >= work[j].before
      BY <1>4, <1>5, <3>2 DEF Minus
    <3>3. CASE stamp[e] < work[j].since
      BY <1>1, <1>2, <1>3, <1>4, <1>5, <1>8, <3>3 DEF FetchEpisodes, At, Opened
    <3> QED
      BY <1>4, <1>5, <3>1, <3>2, <3>3
  <2> QED
    BY <2>2, <2>3, <2>5 DEF Opened
<1> QED
  BY <1>6, <1>7, <1>8

\* A page is stored and its run completes: what is still owed is late enough.
LEMMA StoreKeeps ==
  ASSUME RunsAssumption, TypeOK, TypeOK', NothingSkipped, WindowInv, OwedKept,
         NEW j \in JobIds, StoreMirrored(j)
  PROVE  NothingSkipped'
<1>1. /\ Running(j) /\ work[j].pc = "store" /\ UNCHANGED stamp
      /\ Dated(j) /\ Fetched(j)
  BY DEF StoreMirrored, At, remote, WindowInv
<1>2. PICK r \in Runs : r = Run(j) /\ runs[r].started \in Nat
  BY <1>1, Numbers
<1>3. PICK o \in Owners : o = runs[r].owner
  BY <1>1, <1>2, Numbers
<1>4. /\ \A q \in Runs : /\ runs'[q].started = runs[q].started
                         /\ runs'[q].owner = runs[q].owner
                         /\ q # r => runs'[q] = runs[q]
  BY <1>2, SetStatusOK DEF StoreMirrored, TypeOK, RunStatuses, RunsKept
<1>5. /\ runs[r].started <= work[j].before /\ work[j].before \in Nat /\ work[j].since \in Nat
      /\ Overlap \in Nat
  BY <1>1, <1>2, Numbers DEF Dated
<1>6. behind'[o] = IF work[j].lookback THEN Later(behind[o], work[j].since) ELSE behind[o]
  BY <1>2, <1>3 DEF StoreMirrored, TypeOK
<1>7. \A e \in Owed(o)' : e \in Owed(o) /\ e \notin work[j].page
                          /\ stamp[e] \in Nat /\ stamp[e] >= behind'[o]
  BY <1>1, <1>3, Numbers DEF OwedKept, Owed, StoreMirrored
<1>8. \A e \in Owed(o)' : stamp[e] >= Minus(runs[r].started, Overlap)
  <2> SUFFICES ASSUME NEW e \in Owed(o)'
               PROVE  stamp[e] >= Minus(runs[r].started, Overlap)
    OBVIOUS
  <2>1. CASE stamp[e] >= Minus(work[j].before, Overlap)
    BY <1>2, <1>5, <1>7, <2>1, MinusFacts
  <2>2. ~(work[j].lookback /\ stamp[e] < work[j].since)
    <3>1. behind[o] \in Nat
      BY Numbers
    <3> QED
      BY <1>5, <1>6, <1>7, <3>1 DEF Later
  <2> QED
    BY <1>1, <1>2, <1>3, <1>7, <2>1, <2>2 DEF Fetched
<1> SUFFICES ASSUME NEW p \in Subscriptions, NEW e \in Owed(p)', NEW q \in Completed(p)'
             PROVE  stamp[e] >= Minus(runs[q].started, Overlap)
  BY <1>1, <1>4 DEF NothingSkipped, Completed
<1>9. CASE q = r
  BY <1>3, <1>4, <1>8, <1>9 DEF Completed
<1>10. CASE q # r
  BY <1>4, <1>10 DEF NothingSkipped, Completed, OwedKept, RunsAssumption
<1> QED
  BY <1>9, <1>10

\* Every step of a worker.
LEMMA WorkerKeeps ==
  ASSUME RunsAssumption, PagesSuffice, TypeOK, NothingSkipped, WindowInv,
         NEW j \in JobIds, WorkerStep(j)
  PROVE  NothingSkipped' /\ WindowInv'
<1>1. /\ TypeOK' /\ RunsKept /\ Running(j)
      /\ UNCHANGED <<clock, stamp, jobs>>
      /\ \A i \in JobIds : i # j => work'[i] = work[i]
      /\ OwedKept /\ JobsKept(j)
  BY WorkerType, OwedShrinks, Unchanged
<1>2. /\ Run(j) \in Runs /\ jobs[j].kind = KindOf(runs[Run(j)].owner)
      /\ work \in [JobIds -> WorkType] /\ RunsOK
      /\ \A r \in Runs : runs[r].started <= clock
  BY <1>1, Numbers DEF TypeOK, WindowInv
<1>3. CASE MarkRunning(j)
  <2>1. /\ CompletedKept /\ \A r \in Runs : runs'[r].started <= clock
        /\ Dated(j)' /\ Opened(j)' /\ Fetched(j)'
    BY <1>1, <1>3, MarkKeeps
  <2> QED
    BY <1>1, <2>1, SkipFrame, OthersKeep
<1>4. CASE ReadClock(j) \/ OpenWindow(j) \/ FetchEpisodes(j)
  <2>1. Dated(j)' /\ Opened(j)' /\ Fetched(j)'
    BY <1>4, ReadKeeps
  <2>2. UNCHANGED runs
    BY <1>4 DEF ReadClock, OpenWindow, FetchEpisodes
  <2>3. CompletedKept
    BY <2>2 DEF CompletedKept
  <2> QED
    BY <1>1, <1>2, <2>1, <2>2, <2>3, SkipFrame, OthersKeep
<1>5. ASSUME NEW s \in RunStatuses, SetStatus(Run(j), s), work'[j].pc \notin PollSteps
      PROVE  WindowInv'
  <2>1. \A r \in Runs : runs'[r].started <= clock
    BY <1>2, <1>5, SetStatusOK
  <2> QED
    BY <1>1, <1>5, <2>1, KnowsNothing, OthersKeep
<1>6. ASSUME NEW s \in {"failed", "retrying"}, SetStatus(Run(j), s)
      PROVE  CompletedKept
  <2>1. s \in RunStatuses
    BY DEF RunStatuses, InProgress
  <2> QED
    BY <1>2, <1>6, <2>1, SetStatusOK DEF CompletedKept
<1>7. CASE StoreItems(j)
  <2>1. /\ SetStatus(Run(j), "completed") /\ "completed" \in RunStatuses
        /\ work'[j].pc \notin PollSteps
    BY <1>2, <1>7 DEF StoreItems, Goto, Step, Reached, PollSteps, RunStatuses
  <2>2. runs[Run(j)].owner \notin Subscriptions
    BY <1>1, <1>2, <1>7 DEF StoreItems, At, WindowInv, Dated, KindOf
  <2>3. CompletedKept
    BY <1>2, <2>1, <2>2, SetStatusOK DEF CompletedKept, RunsKept
  <2> QED
    BY <1>1, <1>5, <2>1, <2>3, SkipFrame
<1>8. CASE StoreMirrored(j)
  <2>1. /\ SetStatus(Run(j), "completed") /\ "completed" \in RunStatuses
        /\ work'[j].pc \notin PollSteps
    BY <1>2, <1>8 DEF StoreMirrored, Goto, Step, Reached, PollSteps, RunStatuses
  <2> QED
    BY <1>1, <1>5, <1>8, <2>1, StoreKeeps
<1>9. CASE \E permanent \in BOOLEAN : FailPoll(j, permanent)
  <2>1. /\ \E s \in {"failed", "retrying"} : SetStatus(Run(j), s)
        /\ work'[j].pc \notin PollSteps
    BY <1>2, <1>9 DEF FailPoll, FailStatus, Goto, Step, Reached, PollSteps
  <2>2. {"failed", "retrying"} \subseteq RunStatuses
    BY DEF RunStatuses, InProgress
  <2> QED
    BY <1>1, <1>5, <1>6, <2>1, <2>2, SkipFrame
<1>10. CASE MarkFails(j) \/ FailUnrecorded(j)
  <2>1. UNCHANGED runs /\ work'[j].pc \notin PollSteps
    BY <1>2, <1>10 DEF MarkFails, FailUnrecorded, Goto, Step, Reached, PollSteps
  <2>2. CompletedKept
    BY <2>1 DEF CompletedKept
  <2> QED
    BY <1>1, <1>2, <2>1, <2>2, KnowsNothing, SkipFrame, OthersKeep
<1> QED
  BY <1>3, <1>4, <1>7, <1>8, <1>9, <1>10 DEF WorkerStep

\* The queue hands out, records, loses and rescues jobs.
LEMMA QueueKeeps ==
  ASSUME RunsAssumption, TypeOK, NothingSkipped, WindowInv,
         NEW j \in JobIds, QueueStep(j) \/ Disturbance(j)
  PROVE  NothingSkipped' /\ WindowInv'
<1>1. /\ TypeOK' /\ JobsKept(j)
      /\ UNCHANGED <<clock, stamp, mirrored, runs, behind>>
      /\ \A i \in JobIds : i # j => work'[i] = work[i]
      /\ Running(j)' => work'[j].pc \in {"mark", "idle"} \/ (Running(j) /\ work'[j] = work[j])
  BY QueueType
<1>2. RunsKept /\ CompletedKept /\ OwedKept
  BY <1>1, Unchanged DEF CompletedKept, OwedKept, Owed
<1>3. \A r \in Runs : runs'[r].started <= clock
  BY <1>1 DEF WindowInv
<1>4. ASSUME Running(j)'
      PROVE  Dated(j)' /\ Opened(j)' /\ Fetched(j)'
  <2>1. CASE work'[j].pc \in {"mark", "idle"}
    BY <2>1, KnowsNothing DEF PollSteps
  <2>2. CASE Running(j) /\ work'[j] = work[j]
    <3>1. /\ jobs'[j].subject = jobs[j].subject /\ jobs'[j].kind = jobs[j].kind
          /\ clock <= clock' /\ Dated(j) /\ Opened(j) /\ Fetched(j)
      BY <1>1, <1>4, <2>2, Numbers DEF JobsKept, InFlight, Running, WindowInv
    <3> QED
      BY <1>1, <1>2, <2>2, <3>1, PollFrame
  <2> QED
    BY <1>1, <1>4, <2>1, <2>2
<1> QED
  BY <1>1, <1>2, <1>3, <1>4, SkipFrame, OthersKeep

\* A run that is queued has not started, and no worker knows of it.
LEMMA QueuedKeeps ==
  ASSUME RunsAssumption, TypeOK, NothingSkipped, WindowInv,
         NEW o \in Owners, Schedule(o) \/ Enqueue(o)
  PROVE  NothingSkipped' /\ WindowInv'
<1>1. PICK t \in Times, n \in Limits \cup {0} : Queue(o, t, n)
  BY QueuedRun
<1>2. PICK f \in JobIds, q \in Runs :
        /\ jobs'[f].state = "waiting" /\ \A j \in JobIds : j # f => jobs'[j] = jobs[j]
        /\ runs[q] = NoRun /\ runs'[q] = NewRun(o, t, n)
        /\ \A r \in Runs : r # q => runs'[r] = runs[r]
  BY <1>1, QueueFacts
<1>3. TypeOK' /\ UNCHANGED <<clock, stamp, mirrored, work, behind>> /\ clock <= clock'
  <2>1. TypeOK'
    BY <1>1, QueueFacts
  <2>2. UNCHANGED <<clock, stamp, mirrored, work, behind>>
    BY <1>1 DEF Queue
  <2>3. clock \in Nat
    BY Numbers
  <2> QED
    BY <2>1, <2>2, <2>3
<1>4. CompletedKept /\ OwedKept
  BY <1>2, <1>3 DEF CompletedKept, OwedKept, Owed, NewRun
<1>5. \A r \in Runs : runs'[r].started <= clock'
  BY <1>2, <1>3, Numbers DEF WindowInv, NewRun
<1>6. ASSUME NEW j \in JobIds, Running(j)'
      PROVE  Dated(j)' /\ Opened(j)' /\ Fetched(j)'
  <2>1. Running(j) /\ jobs'[j] = jobs[j] /\ Dated(j) /\ Opened(j) /\ Fetched(j)
    BY <1>2, <1>6 DEF Running, WindowInv
  <2>2. PICK r \in Runs : r = Run(j) /\ r # q
    BY <1>2, <2>1, Numbers DEF NoRun
  <2>3. /\ Run(j)' = r /\ runs'[r] = runs[r] /\ work'[j] = work[j]
        /\ clock' = clock /\ stamp' = stamp
    BY <1>2, <1>3, <2>1, <2>2 DEF Run
  <2>4. Owed(runs[Run(j)].owner)' = Owed(runs[Run(j)].owner)
    BY <1>3, <2>2, <2>3 DEF Owed
  <2> QED
    BY <2>1, <2>2, <2>3, <2>4 DEF Dated, Opened, Fetched, Exists
<1> QED
  BY <1>3, <1>4, <1>5, <1>6, SkipFrame DEF WindowInv

\* Rows that are deleted are no longer completed, and keep their start.
LEMMA RemovalKeeps ==
  ASSUME RunsAssumption, TypeOK, NothingSkipped, WindowInv,
         (\E o \in Owners : DeleteRuns(o)) \/ (\E r \in Runs : ExpireRun(r))
  PROVE  NothingSkipped' /\ WindowInv'
<1>1. /\ TypeOK' /\ RunsKept
      /\ \A q \in Runs : runs'[q].started = runs[q].started
      /\ \A q \in Runs : runs'[q].status = runs[q].status \/ runs'[q].status = "gone"
      /\ UNCHANGED <<clock, stamp, mirrored, jobs, work, behind>>
  BY RemovalType
<1>2. CompletedKept /\ OwedKept /\ clock <= clock'
  BY <1>1, Numbers DEF CompletedKept, OwedKept, Owed, RunsKept
<1>3. \A r \in Runs : runs'[r].started <= clock'
  BY <1>1 DEF WindowInv
<1>4. \A j \in JobIds : Running(j)' => Dated(j)' /\ Opened(j)' /\ Fetched(j)'
  BY <1>1, <1>2, PollFrame DEF WindowInv, Running
<1> QED
  BY <1>1, <1>2, <1>3, <1>4, SkipFrame DEF WindowInv

LEMMA NextKeeps ==
  ASSUME RunsAssumption, PagesSuffice, TypeOK, NothingSkipped, WindowInv, [Next]_vars
  PROVE  NothingSkipped' /\ WindowInv'
<1>1. TypeOK'
  BY NextType
<1>2. CASE Tick \/ UNCHANGED vars
  <2>1. UNCHANGED <<stamp, mirrored, runs, jobs, work, behind>> /\ clock <= clock'
    BY <1>2, Numbers DEF Tick, vars
  <2> QED
    BY <1>1, <2>1, Still
<1>3. ASSUME NEW e \in Remote, Publish(e)
      PROVE  NothingSkipped' /\ WindowInv'
  BY <1>1, <1>3, PublishKeeps
<1>4. ASSUME NEW o \in Owners, Schedule(o) \/ Enqueue(o)
      PROVE  NothingSkipped' /\ WindowInv'
  BY <1>4, QueuedKeeps
<1>5. CASE (\E o \in Owners : DeleteRuns(o)) \/ \E r \in Runs : ExpireRun(r)
  BY <1>5, RemovalKeeps
<1>6. ASSUME NEW j \in JobIds, QueueStep(j) \/ Disturbance(j)
      PROVE  NothingSkipped' /\ WindowInv'
  BY <1>6, QueueKeeps
<1>7. ASSUME NEW j \in JobIds, WorkerStep(j)
      PROVE  NothingSkipped' /\ WindowInv'
  BY <1>7, WorkerKeeps
<1> QED
  BY <1>2, <1>3, <1>4, <1>5, <1>6, <1>7 DEF Next, OwnerStep

LEMMA InitKeeps == RunsAssumption /\ Init => NothingSkipped /\ WindowInv
<1> SUFFICES ASSUME RunsAssumption, Init PROVE NothingSkipped /\ WindowInv
  OBVIOUS
<1>1. \A r \in Runs : runs[r].started = 0 /\ runs[r].status = "none"
  BY DEF Init, NoRun
<1>2. \A j \in JobIds : ~Running(j)
  BY DEF Init, JobsInit, Running, FreeJob
<1> QED
  BY <1>1, <1>2 DEF Init, NothingSkipped, Completed, WindowInv

\* While a page can hold what the remotes publish, no episode ever falls behind
\* the window of the next pull, for any number of runs, pulls under way,
\* failures, crashes and redeliveries, and any clock difference that the
\* overlap covers; and every pull under way knows its window as WindowInv says.
THEOREM NoneSkipped == PagesSuffice => (Spec => []NothingSkipped /\ []WindowInv)
<1> SUFFICES ASSUME PagesSuffice PROVE Spec => []NothingSkipped /\ []WindowInv
  OBVIOUS
<1>1. Init => TypeOK /\ NothingSkipped /\ WindowInv
  BY RunsAssumption, InitType, InitKeeps
<1>2. TypeOK /\ NothingSkipped /\ WindowInv /\ [Next]_vars
        => TypeOK' /\ NothingSkipped' /\ WindowInv'
  BY RunsAssumption, NextType, NextKeeps
<1> QED
  BY <1>1, <1>2, PTL DEF Spec
\* WindowInv by itself: what a pull under way knows of its window holds in
\* every state of such a system, between any two steps of its worker.
THEOREM WindowsKnown == PagesSuffice => (Spec => []WindowInv)
BY NoneSkipped, PTL

-----------------------------------------------------------------------------
(* Runs and the jobs that end them *)

\* What a job is depends on its record and on its worker alone.
LEMMA SameJob ==
  ASSUME NEW i, jobs'[i] = jobs[i], work'[i] = work[i]
  PROVE  /\ WillRun(i)' = WillRun(i) /\ InFlight(i)' = InFlight(i)
         /\ Running(i)' = Running(i) /\ Run(i)' = Run(i) /\ RunsAgain(i)' = RunsAgain(i)
BY DEF WillRun, RunsAgain, LastAttempt, InFlight, Running, Run

\* The job after each step of the queue.  Its cancel flag is never touched.
LEMMA QueueShape ==
  ASSUME RunsAssumption, TypeOK, NEW j \in JobIds, QueueStep(j) \/ Disturbance(j)
  PROVE  \/ /\ Waiting(j) /\ jobs'[j] = Moved(j, "running", jobs[j].attempt + 1, "live")
            /\ work'[j].pc = "mark"
         \/ /\ Attended(j) /\ work[j].pc \in Returned /\ work'[j].pc = "idle"
            /\ jobs'[j] = FreeJob /\ (work[j].pc = "error" => ~RunsAgain(j))
         \/ /\ Attended(j) /\ work[j].pc = "error" /\ RunsAgain(j) /\ work'[j].pc = "idle"
            /\ \E n \in Int : jobs'[j] = Moved(j, "waiting", n, "none")
         \/ /\ "crash" \in Events /\ Running(j) /\ work'[j].pc = "idle"
            /\ jobs'[j] = [jobs[j] EXCEPT !.ctx = "dead"]
         \/ /\ Running(j) /\ jobs[j].ctx = "dead" /\ work'[j] = work[j]
            /\ IF RunsAgain(j) THEN jobs'[j] = Moved(j, "waiting", jobs[j].attempt, "none")
                               ELSE jobs'[j] = FreeJob
         \/ /\ "softstop" \in Events /\ Running(j) /\ jobs[j].ctx = "live" /\ work'[j] = work[j]
            /\ jobs'[j] = [jobs[j] EXCEPT !.ctx = "softstop"]
<1>1. /\ jobs \in [JobIds -> Job] /\ work \in [JobIds -> WorkType]
      /\ jobs[j].attempt \in Int /\ jobs[j].attempt - 1 \in Int
      /\ Step("mark").pc = "mark" /\ Idle.pc = "idle"
  <2>1. jobs \in [JobIds -> Job] /\ work \in [JobIds -> WorkType]
    BY DEF TypeOK, JobsOK, JobsTypeOK
  <2>2. jobs[j].attempt \in Nat
    BY <2>1 DEF Job
  <2> QED
    BY <2>1, <2>2 DEF Step, Reached, Idle
<1>2. CASE Take(j)
  BY <1>1, <1>2 DEF Take, Fetch, Goto
<1>3. CASE Record(j)
  <2>1. Attended(j) /\ work[j].pc \in Returned /\ work'[j].pc = "idle"
    BY <1>1, <1>3 DEF Record, Goto
  <2>2. CASE work[j].pc = "error"
    BY <1>1, <1>3, <2>1, <2>2 DEF Record, RecordError, Requeue, Finish
  <2>3. CASE work[j].pc # "error"
    BY <1>1, <1>3, <2>1, <2>3 DEF Record, Finish
  <2> QED
    BY <2>2, <2>3
<1>4. CASE RescueStuck(j)
  BY <1>1, <1>4 DEF RescueStuck, Rescue, Requeue, Finish
<1>5. CASE Crash(j)
  BY <1>1, <1>5 DEF Crash, Die, Attended, Goto
<1>6. CASE SoftStop(j)
  BY <1>1, <1>6 DEF SoftStop, InterruptBySoftStop
<1> QED
  BY <1>2, <1>3, <1>4, <1>5, <1>6 DEF QueueStep, Disturbance

\* What each step of a worker writes: its own run, and where it has got to.
LEMMA WorkerShape ==
  ASSUME RunsAssumption, TypeOK, NEW j \in JobIds, WorkerStep(j)
  PROVE  /\ Attended(j) /\ work[j].pc \in {"mark"} \cup PollSteps
         /\ \A r \in Runs : r # Run(j) => runs'[r] = runs[r]
         /\ \/ /\ work'[j].pc \in PollSteps
               /\ UNCHANGED runs \/ runs'[Run(j)].status \notin {"failed", "completed"}
            \/ /\ work'[j].pc = "ok"
               /\ runs'[Run(j)].status \notin {"failed", "queued", "running", "retrying"}
            \/ /\ work'[j].pc = "error"
               /\ \/ /\ "outage" \in Events \/ jobs[j].ctx # "live"
                     /\ UNCHANGED runs
                  \/ /\ jobs[j].ctx = "live" /\ ~LastAttempt(j)
                     /\ "rejected" \in Events \/ runs'[Run(j)].status # "failed"
                  \/ /\ jobs[j].ctx = "live" /\ LastAttempt(j)
                     /\ runs'[Run(j)].status \notin InProgress
<1>1. /\ Run(j) \in Runs /\ RunsOK /\ runs \in [Runs -> RunType] /\ work \in [JobIds -> WorkType]
      /\ work[j] \in WorkType /\ RunsKept
  BY WorkerType DEF TypeOK, RunsOK, JobsOK, Running, InFlight
<1>2. Attended(j) /\ work[j].pc \in {"mark"} \cup PollSteps
  BY DEF WorkerStep, MarkRunning, MarkFails, StoreItems, ReadClock, OpenWindow, FetchEpisodes,
         StoreMirrored, FailPoll, FailUnrecorded, At, Attended, PollSteps
<1>3. ASSUME NEW w, Goto(j, w)
      PROVE  work'[j] = w
  BY <1>1, <1>3 DEF Goto
<1>4. ASSUME NEW s \in RunStatuses, SetStatus(Run(j), s)
      PROVE  /\ \A r \in Runs : r # Run(j) => runs'[r] = runs[r]
             /\ IF Exists(Run(j)) THEN runs'[Run(j)].status = s
                ELSE runs'[Run(j)] = runs[Run(j)] /\ runs[Run(j)].status \notin RunStatuses
  BY <1>1, <1>4, SetStatusOK DEF Exists
<1>5. CASE MarkRunning(j)
  <2>1. work'[j].pc \in PollSteps
    BY <1>3, <1>5 DEF MarkRunning, Step, Reached, PollSteps
  <2>2. /\ \A r \in Runs : r # Run(j) => runs'[r] = runs[r]
        /\ runs'[Run(j)] = IF Exists(Run(j)) THEN Started(runs[Run(j)]) ELSE runs[Run(j)]
    BY <1>1, <1>5 DEF MarkRunning
  <2>3. Started(runs[Run(j)]).status = "running"
    BY <1>1 DEF Started, RunType
  <2> QED
    BY <1>2, <2>1, <2>2, <2>3 DEF Exists, RunStatuses
<1>6. CASE ReadClock(j) \/ OpenWindow(j) \/ FetchEpisodes(j)
  <2>1. \E pc \in PollSteps : \E since, before, lookback, page :
          Goto(j, Reached(pc, since, before, lookback, page))
    BY <1>6 DEF ReadClock, OpenWindow, FetchEpisodes, PollSteps
  <2>2. work'[j].pc \in PollSteps
    BY <1>3, <2>1 DEF Reached
  <2>3. UNCHANGED runs
    BY <1>6 DEF ReadClock, OpenWindow, FetchEpisodes
  <2> QED
    BY <1>2, <2>2, <2>3
<1>7. CASE StoreItems(j) \/ StoreMirrored(j)
  <2>1. work'[j].pc = "ok" /\ SetStatus(Run(j), "completed") /\ "completed" \in RunStatuses
    BY <1>3, <1>7 DEF StoreItems, StoreMirrored, Step, Reached, RunStatuses
  <2>2. /\ \A r \in Runs : r # Run(j) => runs'[r] = runs[r]
        /\ runs'[Run(j)].status = "completed" \/ runs'[Run(j)].status \notin RunStatuses
    BY <1>4, <2>1
  <2> QED
    BY <1>2, <2>1, <2>2 DEF RunStatuses, InProgress
<1>8. CASE MarkFails(j) \/ FailUnrecorded(j)
  <2>1. work'[j].pc = "error" /\ UNCHANGED runs /\ ("outage" \in Events \/ jobs[j].ctx # "live")
    BY <1>3, <1>8 DEF MarkFails, FailUnrecorded, Step, Reached
  <2> QED
    BY <1>2, <2>1
<1>9. CASE \E permanent \in BOOLEAN : FailPoll(j, permanent)
  <2>1. PICK permanent \in BOOLEAN : FailPoll(j, permanent)
    BY <1>9
  <2>2. /\ work'[j].pc = "error" /\ jobs[j].ctx = "live"
        /\ permanent => "rejected" \in Events
        /\ SetStatus(Run(j), FailStatus(j, permanent))
    BY <1>3, <2>1 DEF FailPoll, MayBePermanent, Step, Reached
  <2>3. /\ FailStatus(j, permanent) \in RunStatuses
        /\ LastAttempt(j) => FailStatus(j, permanent) = "failed"
        /\ ~permanent /\ ~LastAttempt(j) => FailStatus(j, permanent) = "retrying"
    BY DEF FailStatus, RunStatuses, InProgress
  <2>4. /\ \A r \in Runs : r # Run(j) => runs'[r] = runs[r]
        /\ Exists(Run(j)) => runs'[Run(j)].status = FailStatus(j, permanent)
        /\ ~Exists(Run(j)) => runs'[Run(j)].status \notin RunStatuses
    BY <1>4, <2>2, <2>3
  <2>5. LastAttempt(j) => runs'[Run(j)].status \notin InProgress
    BY <2>3, <2>4 DEF RunStatuses, InProgress
  <2>6. ~LastAttempt(j) => "rejected" \in Events \/ runs'[Run(j)].status # "failed"
    BY <2>2, <2>3, <2>4 DEF RunStatuses
  <2> QED
    BY <1>2, <2>2, <2>4, <2>5, <2>6
<1> QED
  BY <1>5, <1>6, <1>7, <1>8, <1>9 DEF WorkerStep
\* Without crashes every worker ends what it began; nobody cancels a poll.
Attentive == \A j \in JobIds :
  /\ ~jobs[j].cancel
  /\ Running(j) => jobs[j].ctx \in {"live", "softstop"}
  /\ ~Running(j) => work[j].pc = "idle"

\* A step of one job leaves no run behind if that job still runs, or was not to.
LEMMA StillEnded ==
  ASSUME RunNeverStranded, NEW j \in JobIds,
         \A i \in JobIds : i # j => jobs'[i] = jobs[i] /\ work'[i] = work[i],
         \A r \in Runs : r # Run(j) => runs'[r] = runs[r],
         WillRun(j) => \/ WillRun(j)' /\ Run(j)' = Run(j)
                       \/ runs'[Run(j)].status \notin InProgress,
         Run(j) \in Runs,
         runs'[Run(j)].status \in InProgress =>
           \/ runs[Run(j)].status \in InProgress
           \/ WillRun(j)' /\ Run(j)' = Run(j)
  PROVE  RunNeverStranded'
<1> SUFFICES ASSUME NEW r \in Runs, runs'[r].status \in InProgress
             PROVE  \E i \in JobIds : WillRun(i)' /\ Run(i)' = r
  BY DEF RunNeverStranded
<1>1. CASE r = Run(j) /\ WillRun(j)' /\ Run(j)' = Run(j)
  BY <1>1
<1>2. CASE ~(r = Run(j) /\ WillRun(j)' /\ Run(j)' = Run(j))
  <2>1. runs[r].status \in InProgress
    BY <1>2
  <2>2. PICK i \in JobIds : WillRun(i) /\ Run(i) = r
    BY <2>1 DEF RunNeverStranded
  <2>3. i # j
    BY <1>2, <2>2
  <2> QED
    BY <2>2, <2>3, SameJob
<1> QED
  BY <1>1, <1>2

LEMMA QueueEnds ==
  ASSUME RunsAssumption, "crash" \notin Events, TypeOK, Attentive, RunNeverStranded,
         NEW j \in JobIds, QueueStep(j) \/ Disturbance(j)
  PROVE  Attentive' /\ RunNeverStranded'
<1>1. /\ JobsKept(j) /\ UNCHANGED runs
      /\ \A i \in JobIds : i # j => jobs'[i] = jobs[i] /\ work'[i] = work[i]
  BY QueueType DEF JobsKept
<1>2. /\ ~jobs[j].cancel
      /\ Running(j) => jobs[j].ctx \in {"live", "softstop"}
      /\ jobs[j] = [state |-> jobs[j].state, kind |-> jobs[j].kind, subject |-> jobs[j].subject,
                    attempt |-> jobs[j].attempt, cancel |-> jobs[j].cancel, ctx |-> jobs[j].ctx]
  BY DEF Attentive, TypeOK, JobsOK, JobsTypeOK, Job
<1>3. /\ ~jobs'[j].cancel
      /\ Running(j)' => jobs'[j].ctx \in {"live", "softstop"}
      /\ ~Running(j)' => work'[j].pc = "idle"
      /\ WillRun(j) => WillRun(j)' /\ Run(j)' = Run(j)
      /\ InFlight(j)
  <2>1. CASE /\ Waiting(j) /\ jobs'[j] = Moved(j, "running", jobs[j].attempt + 1, "live")
             /\ work'[j].pc = "mark"
    BY <1>2, <2>1 DEF Moved, Running, Waiting, WillRun, InFlight, Run, Returned
  <2>2. CASE /\ Attended(j) /\ work[j].pc \in Returned /\ work'[j].pc = "idle"
             /\ jobs'[j] = FreeJob /\ (work[j].pc = "error" => ~RunsAgain(j))
    BY <1>2, <2>2 DEF FreeJob, Running, Attended, WillRun, InFlight
  <2>3. CASE /\ Attended(j) /\ work[j].pc = "error" /\ RunsAgain(j) /\ work'[j].pc = "idle"
             /\ \E n \in Int : jobs'[j] = Moved(j, "waiting", n, "none")
    BY <1>2, <2>3 DEF Moved, Running, Attended, WillRun, InFlight, Run, Returned
  <2>4. CASE /\ Running(j) /\ jobs[j].ctx = "live" /\ work'[j] = work[j]
             /\ jobs'[j] = [jobs[j] EXCEPT !.ctx = "softstop"]
    BY <1>2, <2>4 DEF Running, WillRun, InFlight, Run, RunsAgain
  <2>5. ~(Running(j) /\ jobs[j].ctx = "dead")
    BY <1>2
  <2> QED
    BY <2>1, <2>2, <2>3, <2>4, <2>5, QueueShape
<1>4. Attentive'
  BY <1>1, <1>3 DEF Attentive, Running
<1>5. RunNeverStranded'
  BY <1>1, <1>3, StillEnded DEF TypeOK, JobsOK
<1> QED
  BY <1>4, <1>5

LEMMA WorkerEnds ==
  ASSUME RunsAssumption, Events \cap {"crash", "outage"} = {}, TypeOK, Attentive, RunNeverStranded,
         NEW j \in JobIds, WorkerStep(j)
  PROVE  Attentive' /\ RunNeverStranded'
<1>1. /\ UNCHANGED jobs /\ Running(j) /\ InFlight(j) /\ Run(j) \in Runs
      /\ \A i \in JobIds : i # j => work'[i] = work[i]
  BY WorkerType DEF TypeOK, JobsOK, InFlight, Running
<1>2. Attentive'
  BY <1>1 DEF Attentive, Running
<1>3. ~jobs[j].cancel /\ jobs[j].ctx \in {"live", "softstop"}
  BY <1>1 DEF Attentive
<1>4. /\ Run(j)' = Run(j) /\ \A r \in Runs : r # Run(j) => runs'[r] = runs[r]
  BY <1>1, WorkerShape DEF Run
<1>5. WillRun(j)' \/ runs'[Run(j)].status \notin InProgress
  <2>1. CASE work'[j].pc \in PollSteps
    BY <1>1, <1>3, <2>1 DEF WillRun, PollSteps, Returned, InFlight
  <2>2. ASSUME work'[j].pc = "error", jobs[j].ctx # "live" \/ ~LastAttempt(j)
        PROVE  WillRun(j)'
    BY <1>1, <1>3, <2>2 DEF WillRun, RunsAgain, LastAttempt, Returned, InFlight
  <2> QED
    BY <2>1, <2>2, WorkerShape DEF InProgress
<1>6. RunNeverStranded'
  BY <1>1, <1>4, <1>5, StillEnded
<1> QED
  BY <1>2, <1>6

\* What is queued, removed or published meanwhile.
LEMMA OthersEnd ==
  ASSUME RunsAssumption, TypeOK, Attentive, RunNeverStranded,
         \/ Tick \/ UNCHANGED vars \/ \E e \in Remote : Publish(e)
         \/ \E o \in Owners : OwnerStep(o)
         \/ \E r \in Runs : ExpireRun(r)
  PROVE  Attentive' /\ RunNeverStranded'
<1>1. ASSUME UNCHANGED <<jobs, work>>, \A r \in Runs : runs'[r].status \in InProgress => runs[r].status \in InProgress
      PROVE  Attentive' /\ RunNeverStranded'
  <2>1. \A j \in JobIds : WillRun(j)' = WillRun(j) /\ Run(j)' = Run(j)
    BY <1>1, SameJob
  <2> QED
    BY <1>1, <2>1 DEF Attentive, RunNeverStranded, Running
<1>2. CASE Tick \/ UNCHANGED vars \/ \E e \in Remote : Publish(e)
  BY <1>1, <1>2 DEF Tick, Publish, vars
<1>3. CASE (\E o \in Owners : DeleteRuns(o)) \/ \E r \in Runs : ExpireRun(r)
  BY <1>1, <1>3, RemovalType DEF InProgress
<1>4. ASSUME NEW o \in Owners, Schedule(o) \/ Enqueue(o)
      PROVE  Attentive' /\ RunNeverStranded'
  <2>1. PICK t \in Times, n \in Limits \cup {0} : Queue(o, t, n)
    BY <1>4, QueuedRun
  <2>2. PICK f \in JobIds : /\ f = FreeId /\ ~InFlight(f)
                            /\ jobs'[f] = NewJob(KindOf(o), FreeRun)
                            /\ \A j \in JobIds : j # f => jobs'[j] = jobs[j]
    <3>1. Room /\ jobs' = Inserted(KindOf(o), FreeRun) /\ jobs \in [JobIds -> Job]
      BY <2>1 DEF Queue, TypeOK, JobsOK, JobsTypeOK
    <3>2. FreeId \in JobIds /\ ~InFlight(FreeId)
      BY <3>1 DEF Room, FreeId
    <3> QED
      BY <3>1, <3>2 DEF Inserted
  <2>3. UNCHANGED work /\ FreeRun \in Runs /\ \A r \in Runs : r # FreeRun => runs'[r] = runs[r]
    BY <2>1, QueueFacts DEF Queue
  <2>4. work[f].pc = "idle" /\ ~WillRun(f)
    BY <2>2 DEF Attentive, Running, InFlight, WillRun
  <2>5. WillRun(f)' /\ Run(f)' = FreeRun /\ ~Running(f)' /\ ~jobs'[f].cancel
    BY <2>2, <2>3, <2>4 DEF NewJob, WillRun, InFlight, Running, Run, Returned
  <2>6. Attentive'
    BY <2>2, <2>3, <2>4, <2>5 DEF Attentive, Running
  <2>7. RunNeverStranded'
    <3> SUFFICES ASSUME NEW r \in Runs, runs'[r].status \in InProgress
                 PROVE  \E i \in JobIds : WillRun(i)' /\ Run(i)' = r
      BY DEF RunNeverStranded
    <3>1. CASE r = FreeRun
      BY <2>5, <3>1
    <3>2. CASE r # FreeRun
      <4>1. PICK i \in JobIds : WillRun(i) /\ Run(i) = r
        BY <2>3, <3>2 DEF RunNeverStranded
      <4> QED
        BY <2>2, <2>3, <2>4, <4>1, SameJob
    <3> QED
      BY <3>1, <3>2
  <2> QED
    BY <2>6, <2>7
<1> QED
  BY <1>2, <1>3, <1>4 DEF OwnerStep

\* While worker processes do not die and the database answers, every run in
\* progress has a job that will end it: each attempt that is not followed by
\* another has recorded the end of the run.  Shutdowns are harmless, since the
\* queue runs what they interrupt again; permanent errors, deletions and
\* retention are, too.
THEOREM RunsEnded ==
  Events \cap {"crash", "outage"} = {} => (Spec => []RunNeverStranded)
<1> SUFFICES ASSUME Events \cap {"crash", "outage"} = {} PROVE Spec => []RunNeverStranded
  OBVIOUS
<1>1. Init => TypeOK /\ Attentive /\ RunNeverStranded
  <2> SUFFICES ASSUME Init PROVE TypeOK /\ Attentive /\ RunNeverStranded
    OBVIOUS
  <2>1. TypeOK
    BY RunsAssumption, InitType
  <2>2. /\ \A j \in JobIds : jobs[j] = FreeJob /\ work[j].pc = "idle"
        /\ \A r \in Runs : runs[r].status = "none"
    BY DEF Init, JobsInit, NoRun, Idle, Step, Reached
  <2> QED
    BY <2>1, <2>2 DEF Attentive, RunNeverStranded, FreeJob, Running, InProgress
<1>2. TypeOK /\ Attentive /\ RunNeverStranded /\ [Next]_vars
        => TypeOK' /\ Attentive' /\ RunNeverStranded'
  <2> SUFFICES ASSUME TypeOK, Attentive, RunNeverStranded, [Next]_vars
               PROVE  TypeOK' /\ Attentive' /\ RunNeverStranded'
    OBVIOUS
  <2>1. TypeOK'
    BY RunsAssumption, NextType
  <2>2. ASSUME NEW j \in JobIds, QueueStep(j) \/ WorkerStep(j) \/ Disturbance(j)
        PROVE  Attentive' /\ RunNeverStranded'
    BY <2>2, RunsAssumption, QueueEnds, WorkerEnds
  <2> QED
    BY <2>1, <2>2, RunsAssumption, OthersEnd DEF Next
<1> QED
  BY <1>1, <1>2, PTL DEF Spec

-----------------------------------------------------------------------------
(* Failed runs *)

\* The last attempt of a job, which has recorded its failure or lost its worker.
Final(j) == /\ Running(j) /\ ~RunsAgain(j)
            /\ work[j].pc = "error" \/ jobs[j].ctx = "dead"

\* No run has two jobs, and a failed one only the job that failed it.
SettledInv ==
  /\ \A i, j \in JobIds : InFlight(i) /\ InFlight(j) /\ Run(i) = Run(j) => i = j
  /\ \A j \in JobIds : InFlight(j) /\ runs[Run(j)].status = "failed" => Final(j)

LEMMA FinalIsOver == SettledInv => FailedRunIsSettled
  BY DEF SettledInv, FailedRunIsSettled, Final, WillRun, Returned

\* A step of one job, which may change the run of that job alone.
LEMMA OthersSettled ==
  ASSUME TypeOK, SettledInv, NEW j \in JobIds, JobsKept(j),
         \A i \in JobIds : i # j => work'[i] = work[i],
         \A r \in Runs : (InFlight(j) => r # Run(j)) => runs'[r] = runs[r],
         InFlight(j)' /\ runs'[Run(j)].status = "failed" => Final(j)'
  PROVE  SettledInv'
<1>1. \A i \in JobIds : /\ InFlight(i)' => InFlight(i) /\ Run(i)' = Run(i)
                        /\ i # j => Final(i)' = Final(i)
  BY DEF JobsKept, InFlight, Run, Final, Running, RunsAgain, LastAttempt
<1>2. \A i, k \in JobIds : InFlight(i)' /\ InFlight(k)' /\ Run(i)' = Run(k)' => i = k
  BY <1>1 DEF SettledInv
<1>3. ASSUME NEW i \in JobIds, InFlight(i)', runs'[Run(i)'].status = "failed"
      PROVE  Final(i)'
  <2>1. CASE i = j
    BY <1>1, <1>3, <2>1
  <2>2. CASE i # j
    <3>1. InFlight(i) /\ Run(i) \in Runs /\ (InFlight(j) => Run(i) # Run(j))
      BY <1>1, <1>3, <2>2 DEF SettledInv, TypeOK, JobsOK
    <3> QED
      BY <1>1, <1>3, <2>2, <3>1 DEF SettledInv
  <2> QED
    BY <2>1, <2>2
<1> QED
  BY <1>2, <1>3 DEF SettledInv

LEMMA QueueSettles ==
  ASSUME RunsAssumption, "softstop" \notin Events, TypeOK, SettledInv,
         NEW j \in JobIds, QueueStep(j) \/ Disturbance(j)
  PROVE  SettledInv'
<1>1. /\ JobsKept(j) /\ UNCHANGED runs
      /\ \A i \in JobIds : i # j => work'[i] = work[i]
  BY QueueType
<1>2. ASSUME InFlight(j)', runs[Run(j)].status = "failed"
      PROVE  Final(j)'
  <2>1. InFlight(j) /\ Final(j)
    BY <1>1, <1>2 DEF JobsKept, SettledInv
  <2>2. ~Waiting(j) /\ jobs'[j] # FreeJob /\ ~RunsAgain(j)
    BY <1>2, <2>1 DEF Final, Running, Waiting, InFlight, FreeJob
  <2>3. Running(j) /\ jobs'[j] = [jobs[j] EXCEPT !.ctx = "dead"]
    BY <2>2, QueueShape
  <2>4. /\ jobs'[j].state = "running" /\ jobs'[j].ctx = "dead" /\ jobs'[j].cancel = jobs[j].cancel
        /\ jobs'[j].attempt = jobs[j].attempt /\ jobs'[j].kind = jobs[j].kind
    BY <2>3 DEF TypeOK, JobsOK, JobsTypeOK, Job, Running
  <2> QED
    BY <2>2, <2>4 DEF Final, Running, RunsAgain, LastAttempt
<1> QED
  BY <1>1, <1>2, OthersSettled

LEMMA WorkerSettles ==
  ASSUME RunsAssumption, "rejected" \notin Events, TypeOK, SettledInv,
         NEW j \in JobIds, WorkerStep(j)
  PROVE  SettledInv'
<1>1. /\ UNCHANGED jobs /\ Running(j) /\ InFlight(j) /\ Run(j) \in Runs
      /\ \A i \in JobIds : i # j => work'[i] = work[i]
      /\ JobsKept(j)
  BY WorkerType, Unchanged DEF TypeOK, JobsOK, InFlight, Running
<1>2. ~Final(j) /\ runs[Run(j)].status # "failed"
  <2>1. Attended(j) /\ work[j].pc # "error"
    BY WorkerShape DEF PollSteps
  <2> QED
    BY <1>1, <2>1 DEF Final, Attended, SettledInv
<1>3. ASSUME runs'[Run(j)].status = "failed"
      PROVE  Final(j)'
  <2>1. work'[j].pc = "error" /\ jobs[j].ctx = "live" /\ LastAttempt(j)
    BY <1>2, <1>3, WorkerShape
  <2> QED
    BY <1>1, <2>1 DEF Final, Running, RunsAgain, LastAttempt
<1> QED
  BY <1>1, <1>3, WorkerShape, OthersSettled

LEMMA OtherStepsSettle ==
  ASSUME RunsAssumption, TypeOK, SettledInv,
         \/ Tick \/ UNCHANGED vars \/ \E e \in Remote : Publish(e)
         \/ \E o \in Owners : OwnerStep(o)
         \/ \E r \in Runs : ExpireRun(r)
  PROVE  SettledInv'
<1>1. ASSUME UNCHANGED <<jobs, work>>, \A r \in Runs : runs'[r].status = "failed" => runs[r].status = "failed"
      PROVE  SettledInv'
  BY <1>1 DEF SettledInv, TypeOK, JobsOK, InFlight, Run, Final, Running, RunsAgain, LastAttempt
<1>2. CASE Tick \/ UNCHANGED vars \/ \E e \in Remote : Publish(e)
  BY <1>1, <1>2 DEF Tick, Publish, vars
<1>3. CASE (\E o \in Owners : DeleteRuns(o)) \/ \E r \in Runs : ExpireRun(r)
  BY <1>1, <1>3, RemovalType
<1>4. ASSUME NEW o \in Owners, Schedule(o) \/ Enqueue(o)
      PROVE  SettledInv'
  <2>1. PICK t \in Times, n \in Limits \cup {0} : Queue(o, t, n)
    BY <1>4, QueuedRun
  <2>2. PICK f \in JobIds, q \in Runs :
          /\ jobs'[f] = NewJob(KindOf(o), q)
          /\ \A j \in JobIds : j # f => jobs'[j] = jobs[j]
          /\ runs[q] = NoRun /\ runs'[q].status # "failed"
          /\ \A r \in Runs : r # q => runs'[r] = runs[r]
    <3>1. Room /\ jobs' = Inserted(KindOf(o), FreeRun) /\ jobs \in [JobIds -> Job]
      BY <2>1 DEF Queue, TypeOK, JobsOK, JobsTypeOK
    <3>2. /\ FreeId \in JobIds /\ FreeRun \in Runs /\ runs[FreeRun] = NoRun
          /\ runs'[FreeRun] = NewRun(o, t, n)
          /\ \A r \in Runs : r # FreeRun => runs'[r] = runs[r]
      BY <2>1, QueueFacts
    <3>3. NewRun(o, t, n).status # "failed"
      BY DEF NewRun
    <3> QED
      BY <3>1, <3>2, <3>3 DEF Inserted
  <2>3. UNCHANGED work
    BY <2>1 DEF Queue
  <2>4. Run(f)' = q
    BY <2>2 DEF Run, NewJob
  <2>5. ASSUME NEW i \in JobIds, i # f, InFlight(i)'
        PROVE  /\ InFlight(i) /\ Run(i)' = Run(i) /\ Run(i) \in Runs /\ Run(i) # q
               /\ Final(i)' = Final(i)
    <3>1. InFlight(i) /\ Run(i)' = Run(i) /\ Final(i)' = Final(i)
      BY <2>2, <2>3, <2>5 DEF InFlight, Run, Final, Running, RunsAgain, LastAttempt
    <3>2. Run(i) \in Runs /\ runs[Run(i)].status # "none"
      BY <3>1 DEF TypeOK, JobsOK, JobsHaveRuns
    <3> QED
      BY <2>2, <3>1, <3>2 DEF NoRun
  <2>6. \A i, j \in JobIds : InFlight(i)' /\ InFlight(j)' /\ Run(i)' = Run(j)' => i = j
    BY <2>4, <2>5 DEF SettledInv
  <2>7. \A i \in JobIds : InFlight(i)' /\ runs'[Run(i)'].status = "failed" => Final(i)'
    BY <2>2, <2>4, <2>5 DEF SettledInv
  <2> QED
    BY <2>6, <2>7 DEF SettledInv
<1> QED
  BY <1>2, <1>3, <1>4 DEF OwnerStep

\* A run that is recorded as failed does not run again: only the last attempt
\* of its one job records it, also when workers die, the database fails and
\* runs are deleted.  Permanent errors break this, since the poll returns them
\* like any other, and so do shutdowns, since an interrupted last attempt is
\* repeated.
THEOREM FailedRunsRest ==
  Events \cap {"rejected", "softstop"} = {} => (Spec => []FailedRunIsSettled)
<1> SUFFICES ASSUME Events \cap {"rejected", "softstop"} = {} PROVE Spec => []FailedRunIsSettled
  OBVIOUS
<1>1. Init => TypeOK /\ SettledInv
  <2> SUFFICES ASSUME Init PROVE TypeOK /\ SettledInv
    OBVIOUS
  <2>1. TypeOK /\ \A j \in JobIds : ~InFlight(j)
    BY RunsAssumption, InitType DEF Init, JobsInit, FreeJob, InFlight
  <2> QED
    BY <2>1 DEF SettledInv
<1>2. TypeOK /\ SettledInv /\ [Next]_vars => TypeOK' /\ SettledInv'
  <2> SUFFICES ASSUME TypeOK, SettledInv, [Next]_vars PROVE TypeOK' /\ SettledInv'
    OBVIOUS
  <2>1. TypeOK'
    BY RunsAssumption, NextType
  <2>2. ASSUME NEW j \in JobIds, QueueStep(j) \/ WorkerStep(j) \/ Disturbance(j)
        PROVE  SettledInv'
    BY <2>2, RunsAssumption, QueueSettles, WorkerSettles
  <2> QED
    BY <2>1, <2>2, RunsAssumption, OtherStepsSettle DEF Next
<1> QED
  BY <1>1, <1>2, FinalIsOver, PTL DEF Spec
=============================================================================
