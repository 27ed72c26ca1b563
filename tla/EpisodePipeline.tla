--------------------------- MODULE EpisodePipeline ---------------------------
(***************************************************************************)
(* The life of an episode: a poll creates it, four kinds of jobs carry it  *)
(* from stage to stage (internal/jobs), and the operator's commands retry, *)
(* start, stop and delete it (internal/jobs, internal/app).                *)
(*                                                                         *)
(* One action is one atomic step of the code: a statement, a transaction   *)
(* or an object-store call.  Everything another worker, a command or a     *)
(* crash can come between is a separate action.                            *)
(***************************************************************************)
EXTENDS Naturals

CONSTANTS
  Episodes,     \* episode ids
  PollOnly,     \* episodes of poll-only sources: a listener starts them
  MultiTalker,  \* episodes voiced in one call for the whole script
  MaxJobs,      \* bound: unfinished jobs at one time
  MaxAttempts,  \* job kind -> attempts (InsertOpts)
  MaxTurns,     \* bound: turns of a script
  MaxScripts,   \* bound: scripts ever stored for one episode
  Events        \* the failures and commands this environment has

Stages == {"resolve_content", "generate_script", "generate_tts", "compose_episode"}

AllEvents == {"crash", "softstop", "outage", "retry", "start", "stop", "delete", "cleanup"}

ASSUME PipelineAssumption ==
  /\ PollOnly \subseteq Episodes
  /\ MultiTalker \subseteq Episodes
  /\ MaxAttempts \in [Stages -> Nat \ {0}]
  /\ MaxJobs \in Nat
  /\ MaxTurns \in Nat \ {0}
  /\ MaxScripts \in Nat
  /\ Events \subseteq AllEvents

VARIABLES
  jobs,      \* the job queue (JobQueue)
  work,      \* what the worker of each job has reached and read
  status,    \* episodes.status, and "unborn"/"deleted" when there is no row
  docs,      \* whether documents are stored
  turns,     \* number of script turns stored
  script,    \* how many scripts were stored so far: names the current one
  rows,      \* positions with an audio_segments row
  linked,    \* whether audio_url and audio_object_key are set
  objs,      \* private bucket: the script each segment object voices, or 0
  media,     \* media bucket: the scripts the composed object voices
  stop,      \* the stop command: its step and the listed jobs left to cancel
  deleting   \* per episode, the delete command that has selected it

vars == <<jobs, work, status, docs, turns, script, rows, linked, objs, media, stop, deleting>>

INSTANCE JobQueue WITH Kinds <- Stages, Subjects <- Episodes

-----------------------------------------------------------------------------
Positions == 0..(MaxTurns - 1)
Parts     == [Positions -> 0..MaxScripts]
Silence   == [p \in Positions |-> 0]

Busy     == {"resolving_content", "content_ready", "generating_script",
             "script_ready", "generating_tts", "composing", "retrying"}
Statuses == Busy \cup {"queued", "published", "failed"}

Exists(e) == status[e] \notin {"unborn", "deleted"}

\* UPDATE episodes SET status = s WHERE id = e: no row, no effect.
SetStatus(e, s) == status' = [status EXCEPT ![e] = IF Exists(e) THEN s ELSE @]

Kind(j)    == jobs[j].kind
Episode(j) == jobs[j].subject

StageStatus(k) == CASE k = "generate_script" -> "generating_script"
                    [] k = "generate_tts"    -> "generating_tts"
                    [] OTHER                 -> "resolving_content"

\* Mutant of Wanted: positions counted from one.
WantedFromOne(e, n) == IF e \in MultiTalker THEN {0} ELSE (1..n) \cap Positions

\* The positions a stored script of n turns asks to be voiced.
Wanted(e, n) == IF e \in MultiTalker THEN {0} ELSE 0..(n - 1)

Prefix(S) == \A p \in S : \A q \in Positions : q < p => q \in S

-----------------------------------------------------------------------------
(* Workers *)

StageSteps == {"stage", "existing", "voice", "record", "upload", "publish"}
Returned   == {"ok", "error", "permanent"}

\* A worker at step pc that has read no more than the given values: the
\* script it voices, the positions left to voice, the composed audio.
Reached(pc, ver, todo, audio) == [pc |-> pc, ver |-> ver, todo |-> todo, audio |-> audio]

Idle == Reached("idle", 0, {}, Silence)

\* Every Work method but compose's first marks the stage.
FirstStep(k) == IF k = "compose_episode" THEN "stage" ELSE "mark"

At(j, k, pc) == /\ Running(j) /\ jobs[j].ctx = "live"
                /\ Kind(j) = k /\ work[j].pc = pc

Goto(j, pc) == work' = [work EXCEPT ![j].pc = pc]

\* The jobs the stop command still holds are the ones that are unfinished.
Relist == stop' = [stop EXCEPT !.ids = {i \in @ : jobs'[i].state # "free"}]

content  == <<docs, turns, script, rows, linked>>
objects  == <<objs, media>>
commands == <<stop, deleting>>

Take(j) ==
  /\ Fetch(j)
  /\ work' = [work EXCEPT ![j] = Reached(FirstStep(Kind(j)), 0, {}, Silence)]
  /\ UNCHANGED <<status, content, objects, commands>>

MarkStage(j) ==
  /\ \E k \in Stages : At(j, k, "mark")
  /\ SetStatus(Episode(j), StageStatus(Kind(j)))
  /\ Goto(j, "stage")
  /\ UNCHANGED <<jobs, content, objects, commands>>

\* The first update failed: the error goes to the queue, not to the episode.
MarkFails(j) ==
  /\ Attended(j) /\ work[j].pc = "mark"
  /\ "outage" \in Events \/ jobs[j].ctx # "live"
  /\ Goto(j, "error")
  /\ UNCHANGED <<jobs, status, content, objects, commands>>

\* A stage's closing transaction: new status and the job of the next stage.
Advance(j, s, k) ==
  /\ Room
  /\ SetStatus(Episode(j), s)
  /\ jobs' = Inserted(k, Episode(j))
  /\ Goto(j, "ok")

StoreDocuments(j) ==
  /\ At(j, "resolve_content", "stage") /\ Exists(Episode(j))
  /\ Advance(j, "content_ready", "generate_script")
  /\ docs' = [docs EXCEPT ![Episode(j)] = TRUE]
  /\ UNCHANGED <<turns, script, rows, linked, objects, commands>>

StoreScript(j) ==
  LET e == Episode(j) IN
  /\ At(j, "generate_script", "stage") /\ Exists(e) /\ docs[e]
  /\ script[e] < MaxScripts
  /\ Advance(j, "script_ready", "generate_tts")
  /\ script' = [script EXCEPT ![e] = @ + 1]
  /\ \E n \in 1..MaxTurns : turns' = [turns EXCEPT ![e] = n]
  /\ UNCHANGED <<docs, rows, linked, objects, commands>>

LoadTurns(j) ==
  LET e == Episode(j) IN
  /\ At(j, "generate_tts", "stage") /\ turns[e] > 0
  /\ work' = [work EXCEPT ![j] = Reached("existing", script[e], Wanted(e, turns[e]), Silence)]
  /\ UNCHANGED <<jobs, status, content, objects, commands>>

\* Segments are recognised by position alone.
SkipExisting(j) ==
  /\ At(j, "generate_tts", "existing")
  /\ work' = [work EXCEPT ![j] =
       Reached("voice", @.ver, @.todo \ rows[Episode(j)], Silence)]
  /\ UNCHANGED <<jobs, status, content, objects, commands>>

\* Mutant of FirstTodo: segments are voiced in any order.
AnyTodo(j, p) == p \in work[j].todo

FirstTodo(j, p) == /\ p \in work[j].todo
                   /\ \A q \in work[j].todo : p <= q

\* Mutant of PutSegment: a failed upload is not noticed.
PutSegmentUnnoticed(j) ==
  /\ At(j, "generate_tts", "voice") /\ work[j].todo # {}
  /\ Goto(j, "record")
  /\ UNCHANGED <<jobs, status, content, objects, commands>>

PutSegment(j) ==
  /\ At(j, "generate_tts", "voice")
  /\ \E p \in Positions :
       /\ FirstTodo(j, p)
       /\ objs' = [objs EXCEPT ![Episode(j)][p] = work[j].ver]
  /\ Goto(j, "record")
  /\ UNCHANGED <<jobs, status, content, media, commands>>

\* Mutant of RecordSegment: segments do not reference their episode.
RecordSegmentUnchecked(j) ==
  /\ At(j, "generate_tts", "record")
  /\ \E p \in Positions :
       /\ FirstTodo(j, p)
       /\ rows' = [rows EXCEPT ![Episode(j)] = @ \cup {p}]
       /\ work' = [work EXCEPT ![j] = Reached("voice", @.ver, @.todo \ {p}, Silence)]
  /\ UNCHANGED <<jobs, status, docs, turns, script, linked, objects, commands>>

RecordSegment(j) ==
  /\ At(j, "generate_tts", "record") /\ Exists(Episode(j))
  /\ \E p \in Positions :
       /\ FirstTodo(j, p)
       /\ rows' = [rows EXCEPT ![Episode(j)] = @ \cup {p}]
       /\ work' = [work EXCEPT ![j] = Reached("voice", @.ver, @.todo \ {p}, Silence)]
  /\ UNCHANGED <<jobs, status, docs, turns, script, linked, objects, commands>>

\* Mutant of FinishTTS: the episode is published before it is composed.
FinishTTSPublished(j) ==
  /\ At(j, "generate_tts", "voice") /\ work[j].todo = {}
  /\ Advance(j, "published", "compose_episode")
  /\ UNCHANGED <<content, objects, commands>>

\* The status update finds no row when the episode is gone, the job is
\* inserted all the same.
FinishTTS(j) ==
  /\ At(j, "generate_tts", "voice") /\ work[j].todo = {}
  /\ Advance(j, "composing", "compose_episode")
  /\ UNCHANGED <<content, objects, commands>>

\* The segments in order, refused on a gap or a missing object.
ReadSegments(j) ==
  LET e == Episode(j) IN
  /\ At(j, "compose_episode", "stage")
  /\ rows[e] # {} /\ Prefix(rows[e]) /\ \A p \in rows[e] : objs[e][p] # 0
  /\ work' = [work EXCEPT ![j] = Reached("upload", 0, {},
       [p \in Positions |-> IF p \in rows[e] THEN objs[e][p] ELSE 0])]
  /\ UNCHANGED <<jobs, status, content, objects, commands>>

\* Mutant of PutMedia: a failed upload is not noticed.
PutMediaUnnoticed(j) ==
  /\ At(j, "compose_episode", "upload")
  /\ Goto(j, "publish")
  /\ UNCHANGED <<jobs, status, content, objects, commands>>

PutMedia(j) ==
  /\ At(j, "compose_episode", "upload")
  /\ media' = [media EXCEPT ![Episode(j)] = work[j].audio]
  /\ Goto(j, "publish")
  /\ UNCHANGED <<jobs, status, content, objs, commands>>

Publish(j) ==
  LET e == Episode(j) IN
  /\ At(j, "compose_episode", "publish")
  /\ SetStatus(e, "published")
  /\ linked' = [linked EXCEPT ![e] = @ \/ Exists(e)]
  /\ Goto(j, "ok")
  /\ UNCHANGED <<jobs, docs, turns, script, rows, objects, commands>>

MayBePermanent(j) == Kind(j) # "compose_episode" /\ work[j].pc \in {"stage", "voice"}

\* Mutants of AttemptStatus: the last attempt counts as any other; every
\* failure is final; the queue's word is stored instead of the schema's.
AttemptStatusEndless(j, permanent) == IF permanent THEN "failed" ELSE "retrying"

AttemptStatusFinal(j, permanent) == "failed"

AttemptStatusOfJob(j, permanent) ==
  IF permanent \/ LastAttempt(j) \/ jobs[j].ctx # "live" THEN "failed" ELSE "retryable"

AttemptStatus(j, permanent) ==
  IF permanent \/ LastAttempt(j) \/ jobs[j].ctx # "live" THEN "failed" ELSE "retrying"

\* A stage fails at any point; finishEpisodeAttempt records it ...
Fail(j, permanent) ==
  /\ Attended(j) /\ work[j].pc \in StageSteps
  /\ permanent => MayBePermanent(j)
  /\ SetStatus(Episode(j), AttemptStatus(j, permanent))
  /\ Goto(j, IF permanent THEN "permanent" ELSE "error")
  /\ UNCHANGED <<jobs, content, objects, commands>>

\* ... or cannot reach the database, and the error is an ordinary one.
FailUnrecorded(j) ==
  /\ "outage" \in Events
  /\ Attended(j) /\ work[j].pc \in StageSteps
  /\ Goto(j, "error")
  /\ UNCHANGED <<jobs, status, content, objects, commands>>

\* The queue records what Work returned.
Record(j) ==
  /\ Attended(j) /\ work[j].pc \in Returned
  /\ IF work[j].pc = "error" THEN RecordError(j) ELSE Finish(j)
  /\ work' = [work EXCEPT ![j] = Idle]
  /\ Relist
  /\ UNCHANGED <<status, content, objects, deleting>>

-----------------------------------------------------------------------------
(* Process failures and shutdown *)

Crash(j) ==
  /\ "crash" \in Events
  /\ Die(j)
  /\ work' = [work EXCEPT ![j] = Idle]
  /\ UNCHANGED <<status, content, objects, commands>>

RescueStuck(j) ==
  /\ Rescue(j)
  /\ Relist
  /\ UNCHANGED <<work, status, content, objects, deleting>>

SoftStop(j) ==
  /\ "softstop" \in Events
  /\ InterruptBySoftStop(j)
  /\ UNCHANGED <<work, status, content, objects, commands>>

HearCancel(j) ==
  /\ DeliverCancel(j)
  /\ UNCHANGED <<work, status, content, objects, commands>>

-----------------------------------------------------------------------------
(* Poll and the operator's commands *)

Poll(e) ==
  /\ status[e] = "unborn"
  /\ status' = [status EXCEPT ![e] = "queued"]
  /\ IF e \in PollOnly THEN jobs' = jobs
                       ELSE Room /\ jobs' = Inserted("resolve_content", e)
  /\ UNCHANGED <<work, content, objects, commands>>

\* Mutants of ResumeKind: the documents are taken for granted; a stored script
\* is written anew.
ResumeKindUnread(e) == IF turns[e] = 0 THEN "generate_script" ELSE "generate_tts"

ResumeKindRewrite(e) == IF ~docs[e] THEN "resolve_content" ELSE "generate_script"

\* The stage a failed episode resumes at.
ResumeKind(e) == IF ~docs[e]          THEN "resolve_content"
                 ELSE IF turns[e] = 0 THEN "generate_script"
                                      ELSE "generate_tts"

\* Mutant of Retry: an episode whose job will be retried by the queue is
\* accepted as well.
RetryRetrying(e) ==
  /\ "retry" \in Events
  /\ status[e] \in {"failed", "retrying"} /\ Room
  /\ jobs' = Inserted(ResumeKind(e), e)
  /\ status' = [status EXCEPT ![e] = "queued"]
  /\ UNCHANGED <<work, content, objects, commands>>

Retry(e) ==
  /\ "retry" \in Events
  /\ status[e] = "failed" /\ Room
  /\ jobs' = Inserted(ResumeKind(e), e)
  /\ status' = [status EXCEPT ![e] = "queued"]
  /\ UNCHANGED <<work, content, objects, commands>>

\* Mutants of Start: the status stays, or becomes "queued" as in Retry, until
\* the job's first stage marks it.
StartUnmarked(e) ==
  /\ "start" \in Events
  /\ e \in PollOnly /\ status[e] \in {"queued", "failed"} /\ Room
  /\ jobs' = Inserted(IF status[e] = "queued" THEN "resolve_content" ELSE ResumeKind(e), e)
  /\ UNCHANGED <<work, status, content, objects, commands>>

StartQueued(e) ==
  /\ "start" \in Events
  /\ e \in PollOnly /\ status[e] \in {"queued", "failed"} /\ Room
  /\ jobs' = Inserted(IF status[e] = "queued" THEN "resolve_content" ELSE ResumeKind(e), e)
  /\ status' = [status EXCEPT ![e] = "queued"]
  /\ UNCHANGED <<work, content, objects, commands>>

\* Only poll-only episodes; any other status is reported as generating.
Start(e) ==
  /\ "start" \in Events
  /\ e \in PollOnly /\ status[e] \in {"queued", "failed"} /\ Room
  /\ LET k == IF status[e] = "queued" THEN "resolve_content" ELSE ResumeKind(e)
     IN  /\ jobs' = Inserted(k, e)
         /\ status' = [status EXCEPT ![e] = StageStatus(k)]
  /\ UNCHANGED <<work, content, objects, commands>>

\* The stop command lists the unfinished jobs, ...
StopList ==
  /\ "stop" \in Events
  /\ stop.pc = "idle"
  /\ stop' = [pc |-> "cancelling", ids |-> {j \in JobIds : InFlight(j)}]
  /\ UNCHANGED <<jobs, work, status, content, objects, deleting>>

\* ... cancels them one by one, ...
StopCancel(j) ==
  /\ j \in stop.ids
  /\ RequestCancel(j)
  /\ stop' = [stop EXCEPT !.ids = @ \ {j}]
  /\ UNCHANGED <<work, status, content, objects, deleting>>

\* ... and fails the episodes, except those that wait for a listener.
StopFail ==
  /\ stop.pc = "cancelling" /\ stop.ids = {}
  /\ status' = [e \in Episodes |->
       IF status[e] \in Busy \/ (status[e] = "queued" /\ e \notin PollOnly)
       THEN "failed" ELSE status[e]]
  /\ stop' = [stop EXCEPT !.pc = "idle"]
  /\ UNCHANGED <<jobs, work, content, objects, deleting>>

\* A cancellation that the queue refuses, or an update that is rolled back,
\* ends the command.
StopAborts ==
  /\ stop.pc = "cancelling"
  /\ stop' = [pc |-> "idle", ids |-> {}]
  /\ UNCHANGED <<jobs, work, status, content, objects, deleting>>

-----------------------------------------------------------------------------
(* Deletion *)

NoDelete == [on |-> FALSE, keys |-> {}, media |-> FALSE]

\* The row of e and, by cascade, everything stored under it.
DropRows(e) ==
  /\ status' = [status EXCEPT ![e] = "deleted"]
  /\ docs'   = [docs   EXCEPT ![e] = FALSE]
  /\ turns'  = [turns  EXCEPT ![e] = 0]
  /\ rows'   = [rows   EXCEPT ![e] = {}]
  /\ linked' = [linked EXCEPT ![e] = FALSE]
  /\ UNCHANGED script

RemoveObjects(e, keys, composed) ==
  /\ objs'  = [objs  EXCEPT ![e] = [p \in Positions |-> IF p \in keys THEN 0 ELSE @[p]]]
  /\ media' = [media EXCEPT ![e] = IF composed THEN Silence ELSE @]

\* The delete command selects failed (and waiting) episodes and notes their
\* object keys without locking the rows ...
SelectForDelete(e) ==
  /\ "delete" \in Events
  /\ ~deleting[e].on
  /\ status[e] = "failed" \/ (status[e] = "queued" /\ e \in PollOnly)
  /\ deleting' = [deleting EXCEPT ![e] = [on |-> TRUE, keys |-> rows[e], media |-> linked[e]]]
  /\ UNCHANGED <<jobs, work, status, content, objects, stop>>

\* ... and deletes what it selected, whatever has become of it.
CommitDelete(e) ==
  /\ deleting[e].on
  /\ IF Exists(e) THEN DropRows(e) ELSE UNCHANGED <<status, content>>
  /\ RemoveObjects(e, deleting[e].keys, deleting[e].media)
  /\ deleting' = [deleting EXCEPT ![e] = NoDelete]
  /\ UNCHANGED <<jobs, work, stop>>

\* The transaction fails after some objects were removed; the rows stay.
\* Segments are removed before the composed object.
RollBackDelete(e) ==
  /\ deleting[e].on
  /\ \E gone \in SUBSET deleting[e].keys : \E composed \in BOOLEAN :
       /\ composed => gone = deleting[e].keys /\ deleting[e].media
       /\ RemoveObjects(e, gone, composed)
  /\ deleting' = [deleting EXCEPT ![e] = NoDelete]
  /\ UNCHANGED <<jobs, work, status, content, stop>>

\* The daily cleanup drops the feed items past their retention, in whatever
\* status their episodes are, and leaves the object store alone.
Expire(e) ==
  /\ "cleanup" \in Events
  /\ Exists(e)
  /\ DropRows(e)
  /\ UNCHANGED <<jobs, work, objects, commands>>

-----------------------------------------------------------------------------
Init ==
  /\ JobsInit
  /\ work     = [j \in JobIds |-> Idle]
  /\ status   = [e \in Episodes |-> "unborn"]
  /\ docs     = [e \in Episodes |-> FALSE]
  /\ turns    = [e \in Episodes |-> 0]
  /\ script   = [e \in Episodes |-> 0]
  /\ rows     = [e \in Episodes |-> {}]
  /\ linked   = [e \in Episodes |-> FALSE]
  /\ objs     = [e \in Episodes |-> Silence]
  /\ media    = [e \in Episodes |-> Silence]
  /\ stop     = [pc |-> "idle", ids |-> {}]
  /\ deleting = [e \in Episodes |-> NoDelete]

\* What a live worker does next; a step that cannot succeed fails.
WorkerStep(j) ==
  \/ MarkStage(j) \/ MarkFails(j)
  \/ StoreDocuments(j) \/ StoreScript(j)
  \/ LoadTurns(j) \/ SkipExisting(j) \/ PutSegment(j) \/ RecordSegment(j) \/ FinishTTS(j)
  \/ ReadSegments(j) \/ PutMedia(j) \/ Publish(j)
  \/ \E permanent \in BOOLEAN : Fail(j, permanent)
  \/ FailUnrecorded(j)

QueueStep(j) == Take(j) \/ Record(j) \/ RescueStuck(j)

JobStep(j) == QueueStep(j) \/ WorkerStep(j)

Disturbance(j) == Crash(j) \/ SoftStop(j) \/ HearCancel(j)

StopCommand == StopList \/ StopFail \/ StopAborts \/ \E j \in JobIds : StopCancel(j)

DeleteCommand(e) == SelectForDelete(e) \/ CommitDelete(e) \/ RollBackDelete(e)

EpisodeCommand(e) == Poll(e) \/ Retry(e) \/ Start(e) \/ DeleteCommand(e) \/ Expire(e)

Next ==
  \/ \E j \in JobIds : JobStep(j) \/ Disturbance(j)
  \/ \E e \in Episodes : EpisodeCommand(e)
  \/ StopCommand

Spec == Init /\ [][Next]_vars

\* The worker process fetches and runs jobs and the rescuer runs; no failure
\* and no command has to happen.
Fairness == \A j \in JobIds : WF_vars(QueueStep(j)) /\ WF_vars(WorkerStep(j))

FairSpec == Spec /\ Fairness

-----------------------------------------------------------------------------
(* Properties *)

WorkType == [pc : {"idle", "mark"} \cup StageSteps \cup Returned,
             ver : 0..MaxScripts, todo : SUBSET Positions, audio : Parts]

StopType == [pc : {"idle", "cancelling"}, ids : SUBSET JobIds]

DeleteType == [on : BOOLEAN, keys : SUBSET Positions, media : BOOLEAN]

\* A job in the queue has a kind and an episode, a running one has consumed
\* an attempt.
JobsOK ==
  /\ JobsTypeOK
  /\ \A j \in JobIds : InFlight(j) => Kind(j) \in Stages /\ Episode(j) \in Episodes
  /\ \A j \in JobIds : Running(j) => jobs[j].attempt > 0

RowsOK ==
  /\ status \in [Episodes -> Statuses \cup {"unborn", "deleted"}]
  /\ docs   \in [Episodes -> BOOLEAN]
  /\ turns  \in [Episodes -> 0..MaxTurns]
  /\ script \in [Episodes -> 0..MaxScripts]
  /\ rows   \in [Episodes -> SUBSET Positions]
  /\ linked \in [Episodes -> BOOLEAN]

ObjectsOK == objs \in [Episodes -> Parts] /\ media \in [Episodes -> Parts]

\* The values every variable takes.
TypeOK ==
  /\ JobsOK
  /\ work \in [JobIds -> WorkType]
  /\ RowsOK
  /\ ObjectsOK
  /\ stop \in StopType
  /\ deleting \in [Episodes -> DeleteType]

\* The input of stage k is stored for e.
HasInput(k, e) ==
  /\ k = "generate_script" => docs[e]
  /\ k = "generate_tts"    => turns[e] > 0
  /\ k = "compose_episode" => rows[e] # {}

\* A job of a stage only exists when the input of the stage is stored:
\* documents for the script (loadDocuments), turns for TTS (loadTurns),
\* segments for composition.  So the permanent errors "no documents" and "no
\* script turns" never hit an episode that still exists, whatever crashes,
\* redeliveries, stops and retries did before.
StageInputs ==
  \A j \in JobIds :
    InFlight(j) /\ Exists(Episode(j)) => HasInput(Kind(j), Episode(j))

\* The segment positions of an episode never have a gap, although workers of
\* duplicate jobs with scripts of different lengths fill them at the same
\* time: compose's "audio segment position gap" cannot happen.
SegmentsContiguous == \A e \in Episodes : Prefix(rows[e])

\* No job works on an episode that was never created.
JobsBorn == \A j \in JobIds : InFlight(j) => status[Episode(j)] # "unborn"

VoicingSteps == {"existing", "voice", "record"}

\* What makes the segments contiguous: while a worker voices, every position
\* below one it still has to voice is recorded already or on its own list,
\* and the list is never empty unless something is recorded.
Voicing ==
  \A j \in JobIds :
    Running(j) /\ work[j].pc \in VoicingSteps =>
      /\ Kind(j) = "generate_tts"
      /\ Exists(Episode(j)) =>
           /\ work[j].todo \cup rows[Episode(j)] # {}
           /\ \A p \in work[j].todo : \A q \in Positions :
                q < p => q \in work[j].todo \cup rows[Episode(j)]

\* The inductive invariant behind StageInputs and SegmentsContiguous.
PipelineInv == TypeOK /\ JobsBorn /\ Voicing /\ StageInputs /\ SegmentsContiguous

\* A job that some worker is running or will run.
WillRun(j) ==
  /\ InFlight(j)
  /\ IF work[j].pc \in Returned THEN work[j].pc = "error" /\ RunsAgain(j)
     ELSE jobs[j].ctx = "dead" => RunsAgain(j)

\* At most one job carries an episode at a time: what "episodes.status is the
\* single source of truth for whether a stage is already running" is for.
OneCarrier ==
  \A i, j \in JobIds :
    i # j /\ WillRun(i) /\ WillRun(j) => Episode(i) # Episode(j)

\* A published episode plays the script it shows, in full and nothing else,
\* even when segments of an earlier attempt were reused.
PublishedVoicesScript ==
  \A e \in Episodes : status[e] = "published" =>
    media[e] = [p \in Positions |-> IF p \in Wanted(e, turns[e]) THEN script[e] ELSE 0]

\* An episode in progress always has a job that will carry it on; without
\* one nothing moves it and neither retry, start nor delete accepts it.
NeverStranded ==
  \A e \in Episodes :
    status[e] \in Busy \/ (status[e] = "queued" /\ e \notin PollOnly) =>
      \E j \in JobIds : WillRun(j) /\ Episode(j) = e

\* Nothing in the queue will run a failed episode again: it waits for retry.
FailedIsSettled ==
  \A j \in JobIds : Waiting(j) => status[Episode(j)] # "failed"

\* A queued episode of a poll-only source has no job behind it.
ListenerQueueIsIdle ==
  \A e \in PollOnly : status[e] = "queued" =>
    ~ \E j \in JobIds : WillRun(j) /\ Episode(j) = e

\* Every recorded segment has its object in the private bucket, so the reuse
\* of a segment by position never leads compose to a missing object.
SegmentObjectsExist ==
  \A e \in Episodes : \A p \in rows[e] : objs[e][p] # 0

\* An episode that carries an audio URL has an object behind it.
LinkedAudioExists == \A e \in Episodes : linked[e] => media[e] # Silence

\* A stored script is never generated a second time: a retry or a redelivery
\* resumes after the completed stage.
CompletedStagesKept ==
  [][\A e \in Episodes : turns[e] > 0 /\ Exists(e)' => script'[e] = script[e]]_vars

\* Every episode the pipeline has started ends published, failed or deleted.
Settles ==
  \A e \in Episodes :
    (status[e] \in Busy \/ (status[e] = "queued" /\ e \notin PollOnly))
      ~> status[e] \in {"published", "failed", "deleted"}

\* What the player shows of a status (playerEpisodeState).
PlayerState(e) ==
  CASE status[e] = "unborn"    -> "absent"
    [] status[e] = "deleted"   -> "gone"
    [] status[e] = "queued"    -> "pending"
    [] status[e] = "published" -> IF linked[e] THEN "ready" ELSE "failed"
    [] status[e] \in Busy      -> "processing"
    [] OTHER                   -> "failed"

Lifecycle == INSTANCE EpisodeLifecycle WITH
  Automatic <- Episodes \ PollOnly,
  Texts     <- 1..MaxScripts,
  view      <- [e \in Episodes |-> PlayerState(e)],
  text      <- [e \in Episodes |-> IF turns[e] > 0 THEN script[e] ELSE 0],
  voice     <- [e \in Episodes |-> IF status[e] = "published"
                                  THEN {media[e][p] : p \in Wanted(e, turns[e])}
                                  ELSE {}]

\* Whatever the workers, the poll and the commands do to an episode, a listener
\* sees the steps of its lifecycle and no others: none is left out, and nothing
\* goes back on a state, a script or the audio that was shown.
FollowsLifecycle == Lifecycle!Init /\ [][Lifecycle!Next]_(Lifecycle!lifecycle)

\* Workers, queue and retries together behave like the listener's lifecycle:
\* the script is written once, a ready episode plays that script and stays
\* ready, and everything that starts settles.
ImplementsLifecycle == Lifecycle!Spec
=============================================================================
