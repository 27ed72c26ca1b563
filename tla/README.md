# rss-pod in TLA+

rss-pod turns feed items into podcast episodes. Polls discover items, four
kinds of background jobs carry an episode from its article to published audio,
and an operator or a listener may retry, start, stop or delete it at any
moment. Business state lives in PostgreSQL, jobs in River on the same database,
audio in an S3 object store. None of these is updated atomically with the
others except where one database transaction spans rows and jobs. This project
models that interplay, checks it with TLC and proves part of it with TLAPS.
Polls are jobs too, each with a run that records its outcome; a subscription's
poll mirrors another deployment window by window. Around this core stand the
administrator's login, the intake of feed items, the scheduler, the algorithms
that turn model output into a script and a script into audio, the views that
listeners get, and the life of a process: each has a module of its own.

## 1. Inventory

| Component | Source | State it keeps | Operations |
| --- | --- | --- | --- |
| pipeline workers | `internal/jobs/{resolve_content,generate_script,generate_tts,compose_episode,common}.go` | `episodes.status`, `documents`, `script_turns`, `audio_segments`, audio URL; segment and media objects | one `Work` per stage; `finishEpisodeAttempt` on failure |
| job queue (River) | configured in `internal/app/app.go` | `river_job`: state, attempt, cancellation mark | transactional insert, fetch, complete, retry, discard, rescue, soft stop, cancel |
| retry | `jobs/retry.go`, `app/retry.go` | - | re-queue a failed episode at the stage whose input is the last stored |
| start | `jobs/start.go`, `app/start.go`, `httpapi/player.go` | - | a listener starts an episode of a poll-only source |
| stop | `app/stop.go` | a list of job ids while it runs | list, cancel one by one, fail what is in flight |
| delete | `app/delete.go` | selected episodes and object keys while it runs; `ignored_feed_items` | select, delete rows, remove objects, commit or roll back |
| cleanup | `jobs/cleanup_data.go` | - | drop feed items and runs past retention, daily |
| polling | `jobs/{poll_source,enqueue_poll}.go`, `app/poll.go` | `feed_items`, `episodes`, `source_runs` | enqueue a run, poll a feed |
| scheduler | `jobs/schedule_sources.go` | `source_runs.scheduled_for`, `scheduler_state` | queue the sources due this minute |
| subscription mirror | `jobs/poll_subscription.go` | mirrored episodes, window of the last completed run | pull a window from another deployment |
| storage, schema | `storage/storage.go`, `database/database.go` | buckets, constraints and cascades | put, get, remove |
| process | `app/app.go`, `httpapi/server.go` (`Run`) | pool, job client, two servers and their error channel | `serve`, `worker`, `run`; signal, shutdown, deferred calls |
| administration | `httpapi/admin.go`, `config/admin.go` | `admin_auth_state` (attempts, window, last step), `admin_sessions`, `hidden_at` | login, logout, hide, show, change of the key |
| player, feeds | `httpapi/{player,server}.go` | none: queries over episodes and the configuration | list, start, podcast feed, media address |
| script generation | `jobs/{generate_script,script_json}.go` | none | prompt limit, services in turn, strict decoding, repair, validation |
| content fetchers | `jobs/{resolve_content,crawl4ai_content,v2ex_content}.go` | pages and documents of one item | fetch, batches of pages, replies in order |
| speech services | `tts/{edge,azure}.go`, `jobs/generate_tts.go` | buffer of one synthesis | retry of refused connections, statuses |
| audio information | `audioinfo/mp3.go` | none | duration of an MP3 file |
| configuration | `config/config.go` | none after start | validation, order of the filter, voices, hosts |
| checker, command line | `checker/checker.go`, `cmd/rss-pod/main.go` | none | probes of services; dispatch |
| web and Android player | `web/app.js`, `android/` | queue, cached audio, position | playback |

How they interact: jobs are the only messages, and a stage inserts the job of
the next stage in the transaction that stores its own result. Commands are
separate processes that see the workers only through the same tables.
`episodes.status` is what start and retry lock and test. Objects are written
before the rows that point at them and removed inside the deleting
transaction.

What makes each part correct:

* *workers* - a stage finds its input; segments leave no gap; published audio
  voices the stored script; completed work is not repeated; every failure ends
  in a status somebody acts on.
* *queue and workers together* - an episode in progress has a job, a failed one
  has none, and never two jobs carry the same episode.
* *commands* - they take only episodes in the status they mean, and leave no
  state in which no command applies.
* *storage* - a row never points at a missing object.
* *polling, scheduler, mirror* - a minute is polled once, every run ends, a
  failed run stays failed, no remote episode falls behind the window of the next
  pull, an ignored item does not come back, an item has one job.
* *administration* - attempts are limited however many logins race, a one-time
  code opens one session.
* *script, speech, audio* - repair never joins or loses turns; what validation
  accepts is never refused later; no bytes of a failed synthesis stay; whole
  frames are counted and nothing else.
* *views* - what the player offers is accepted; feed, list and addresses agree;
  what was hidden stays hidden.
* *process* - no job is fetched and no request accepted once the pool is closed,
  and no goroutine is left waiting.

The hard behaviours are at-least-once redelivery after a committed stage, the
rescue of a dead worker's job beside the job of the next stage, cancellation
that a running worker hears late or never, attempts that end in a shutdown, a
selection that is read without locks, and object-store calls inside a
transaction. `PROJECT.json` lists each at the line where it bites.

## 2. Modules

| Module | Models |
| --- | --- |
| `JobQueue` | River as the code uses it (external): ids, states, attempts, contexts, cancellation, rescue |
| `EpisodePipeline` | the four workers, failure handling, process deaths and shutdowns, poll, retry, start, stop, delete, cleanup; instantiates `JobQueue` |
| `EpisodeLifecycle` | abstract: what the player shows of an episode (`playerEpisodeState`) and what a listener may rely on |
| `EpisodePipelineProofs` | theorems about `EpisodePipeline` that hold for every set of events, or for every set without one command |
| `EpisodeStoryProofs` | theorems about `EpisodePipeline` while its worker process is left in peace, and that it follows `EpisodeLifecycle` |
| `SourceRuns` | runs and their jobs: scheduler, operators' polls, feed polls, subscription pulls with their windows, deletion and retention of runs; instantiates `JobQueue` |
| `SourceRunsProofs` | theorems about `SourceRuns` |
| `FeedIntake` | the transaction of a poll on items, episodes and ignored items, beside other polls and the delete command |
| `Scheduler` | ticks, due owners, the unique index on runs |
| `AdminSession` | logins, one-time codes, attempts, sessions, change of the key |
| `Library` | what the player, the podcast feed and the start request make of the rows |
| `ScriptGeneration` | prompt, services in turn, decoder, repair, validation |
| `Speech` | dialogue profiles and voices, synthesis of a turn with its retry |
| `Mp3Frames` | the walk over frames and the arithmetic of headers |
| `Content` | content settings and the fetch they lead to, topics of many pages |
| `FilterOrder` | the order of the player's source filter |
| `Process` | a process from its start to its end |
| `PollingProofs` | theorems about `Scheduler` and `FeedIntake` |
| `ServerProofs` | theorems about `AdminSession` and `Process` |
| `StageProofs` | theorems about `Content`, `ScriptGeneration`, `Speech` and `Mp3Frames`, what the stages work with |
| `LibraryProofs`, `FilterOrderProofs` | theorems about `Library` and `FilterOrder` |
| `MCEpisodePipeline`, `MCSourceRuns`, `MCServices` | constants for TLC; `MCServices` instantiates the ten modules above in one run |

`EpisodePipeline` and `SourceRuns` share the queue's definitions, not its jobs:
a poll hands an episode over by inserting it with its first job, which is `Poll`
of `EpisodePipeline` and, seen from the feed, `CommitIntake` of `FeedIntake`;
the run of that poll is `StoreItems` of `SourceRuns`, and the tick that queued
it is `CommitTick` of `Scheduler`, or `Schedule` of `SourceRuns`. `Library`
takes the statuses that the pipeline writes in any order, which includes every
order the pipeline can produce.

### EpisodePipeline: state

`status`, `docs`, `turns`, `script`, `rows` and `linked` are the rows of one
episode: its status (with `"unborn"` and `"deleted"` for no row), whether it
has documents, how many turns, the number of scripts stored so far (a name for
the current script, which the schema does not have), the positions of its
segments, and whether its audio URL is set. `objs` and `media` are the two
buckets: for each position the script that the segment object, or that part of
the composed object, voices. `jobs` is `river_job`; a finished job's id becomes
free and may be handed out again, as nothing in the code refers to a finished
job. `work` is what the worker of a job holds in local variables between two
steps: the script it voices, the positions left, the composed audio. `stop` and
`deleting` are the local variables of the two commands that take several steps.

### EpisodePipeline: actions

One action is one statement, transaction or object-store call; between two of
them anything else may happen. `Work` of a stage is `Take`, `MarkStage`, then
the stage's own steps, then `Record`:

| Code | Actions |
| --- | --- |
| `ResolveContentWorker.Work` | `MarkStage`, `StoreDocuments` |
| `GenerateScriptWorker.Work` | `MarkStage`, `StoreScript` |
| `GenerateTTSWorker.Work` | `MarkStage`, `LoadTurns`, `SkipExisting`, then `PutSegment` and `RecordSegment` for each position, `FinishTTS` |
| `ComposeEpisodeWorker.Work` | `ReadSegments`, `PutMedia`, `Publish` |
| `finishEpisodeAttempt` | `Fail`, `FailUnrecorded` (the update itself fails) |
| River | `Record`, `RescueStuck`; `Crash`, `SoftStop`, `HearCancel` |
| `EnqueuePolls` .. `PollSourceWorker` | `Poll`, one episode at a time |
| `RetryEpisodeLocked`, `StartEpisodeLocked` | `Retry`, `Start` (row locked, one transaction) |
| `StopRunningTasks` | `StopList`, `StopCancel` for each job, `StopFail`; `StopAborts` (a cancellation is refused, or the update rolled back) |
| `DeleteFailedTasks` | `SelectForDelete`, `CommitDelete` or `RollBackDelete` |
| `CleanupDataWorker` | `Expire` |

A stage may fail at any of its steps, with a permanent error only where the
code has one. A worker whose context was cancelled can still fail, and reports
it as `episodeAttemptStatus` decides, but performs no further database step.
A segment insert refers to its episode, so it fails when the row is gone; a
status update without a row changes nothing and the next job is inserted all
the same.

Abstractions that the properties do not see through: the text of documents,
turns and errors; voices and speech services (a multi-talker episode has the
single position 0); audio bytes (which script they voice); the job states
`available`, `scheduled` and `retryable`, which are all "waiting"; the time a
retry is delayed, and the age at which a job counts as stuck - a dead worker's
job may be rescued at any later time. `ReadSegments` reads the rows and all
their objects in one step. A rescue never overtakes a live worker: the deadline
of a job passes, and its context ends, five minutes before.

### SourceRuns

State: `runs` is `source_runs` (owner, status, `started_at`, `scheduled_for`,
and the limit that the job's arguments carry; `"none"` for no row yet, `"gone"`
for a deleted one), `jobs` the queue, `work` what a worker has read so far: the
window's end and start, whether it looked back, the page. `stamp` holds the
time at which the other deployment published an episode, `mirrored` what is
stored here, `clock` the time here. `behind` is a history variable: the start of
the latest lookback window an owner stored. What was published before a mirror's
first window is not owed.

| Code | Actions |
| --- | --- |
| `ScheduleSourcesWorker.Work` | `Schedule`, for each owner that is due |
| `EnqueuePolls`, `EnqueuePoll`, `EnqueueSubscriptionPoll` | `Enqueue` |
| `PollSourceWorker.Work` | `MarkRunning`, `StoreItems` |
| `PollSubscriptionWorker.Work` | `MarkRunning`, `ReadClock`, `OpenWindow`, `FetchEpisodes`, `StoreMirrored` |
| both, on an error | `MarkFails`, `FailPoll`, `FailUnrecorded` |
| River | `Take`, `Record`, `RescueStuck`; `Crash`, `SoftStop` |
| `DeleteFailedTasks`, `deleteExpiredSourceRuns` | `DeleteRuns`, `ExpireRun` |
| time, the other deployment | `Tick`, `Publish` |

Assumptions and abstractions: `Skew <= Overlap` (`RunsAssumption`) is what the
comment on `subscriptionWindowOverlap` claims the overlap is for. The worker's
and the database's clock are one. Any minute may be due. An episode has one
publication time and enters the list when it is published; hidden, undated and
unplayable remote rows, which take up room on a page, are left out, and so is a
response that is cut off at its size limit. What a feed poll does to items and
episodes is `FeedIntake`; here it is one step. That the stop command fails the
runs in progress, too, is left out: TLC cannot exhaust overlapping pulls with
it, and a run that is failed while its job goes on is what a permanent error
leaves as well (`rejected_finding`).

### FeedIntake

`episode` is the status of an item's episode (`"none"` where neither item nor
episode has a row), `ignored` the table `ignored_feed_items`, `polls` the
transaction of each poll (what it has read, written and created), `purge` the
delete command's, `queued` counts the first jobs inserted for an item.

| Code | Actions |
| --- | --- |
| `PollSourceWorker.poll` | `FetchFeed` (filter, limit), `BeginIntake` (reads the ignored items), `StoreItem` for each item, `CommitIntake` or `AbortIntake` |
| `DeleteFailedTasks` with its options | `SelectTargets`, `DeleteTargets`, `CommitPurge` or `RollBackPurge` |
| `ForgetIgnoredFeedItems` | `ForgetIgnored` |
| pipeline, listeners | `Settle` |

A statement on a row that another open transaction wrote waits for its end
(`HeldFrom`, PostgreSQL's row lock and unique index); when two wait for each
other one is rolled back, which is `AbortIntake`. Which items a filter accepts
is a constant. All items of a list are of one source.

### Scheduler

`ticks` are the transactions of ticks under way, `scheduled` the minutes that
have a row in `source_runs`, `pollJobs` the minutes of the jobs inserted for
each owner. `BeginTick` reads the clock and truncates it to the minute,
`InsertRun` passes over an owner that is not due or inserts its run `ON CONFLICT
DO NOTHING` with the job, `CommitTick` and `AbortTick` end the transaction. Time
is counted in halves of a minute, so a tick may be late within its minute. Which
minutes an expression selects is a constant; `cronMatches` is translated.
`OnePollPerMinute` holds as long as nobody deletes a run within its own minute:
deletion of runs is in `SourceRuns`.

### AdminSession

`authState` is `admin_auth_state`, a row for each key; `sessions` is
`admin_sessions`; `logins` the transactions under way; `key` the secret of the
running server. `granted` and `answered` are history variables: the logins that
each step of a key opened, and for each code that was answered, when, in which
window and as which attempt of it; `GuessRate` counts those of the latest
`GuessWindow` steps. `BeginLogin`, `LockRow` (insert, `SELECT ... FOR UPDATE`, the decision on window, attempts and
code), `CommitLogin` and `AbortLogin` are `login`; `Logout`, `ChangeKey` (a
restart with another secret; a login of the old process may still be under way)
and `PassTime` are the rest. A code is valid for the steps around the present
one, and several steps may have the same code. The cookie, the origin test and
the digest of tokens change no state and are left out.

### Library

`shelf` is the row of each episode as far as listeners see it, `enabled` and
`waiting` the configuration in force, `concealed` a history variable. `Listed`,
`Podcast`, `ShownState`, `StartAnswer`, `MediaBase` and `AudioURL` are the
queries and functions of `player.go` and `server.go`; the actions write rows as
`Create`, `Mirror`, `Work`, `Compose`, `SetVisibility`, `StartHere`, `RemoveRow`
do, and `Reconfigure` restarts the server with other settings. Time is counted
in days. The `LIMIT`s of the queries (200 and 100 rows), tags, JSON and RSS are
left out.

### ScriptGeneration

A completion is a sequence of tokens: brackets, commas, colons, strings (with a
mark where a raw control character or an escaped underscore makes it malformed)
and prose. `Ask`, `AnswerTurn`, `EndAnswer` and `CutOff` produce an answer with
at most `MaxFlaws` flaws beside `meant`, the turns it was to say; `TakeAnswer`
decodes it with the three repair passes of `script_json.go`
(`WithStringsMended`, `WithTurnsMended`, `WithoutTrailingCommas`) after the
strict decoder (`Strict`), and `NextService` and `NoCompletion` are the loop
over the services. `RenderDocument` builds the prompt within its limit; `docs`
holds where each document so far ends in the text of all of them.
Characters within a string are abstracted to whether it is well-formed. The keys
of a turn are as in the schema, with an escaped underscore, mistyped
(`speer_id`), or in another case, all of them or the speaker's only
(`TurnKeys`): `Folded` is what `encoding/json` matches, while `Repeated` and the
repair compare keys as they are spelled. Other spellings than these, and other
cases of `title` and `turns`, are left out.

### Speech

`profile` is a dialogue profile that `Validate` accepted, `declared` the
services; `speech`, `attempt`, `part` and `audio` follow one turn: the Edge
client connects, hears the pieces of the text one by one and starts over, with
an empty buffer, when a connection is refused (`RetryEdgeHandshake`); Azure
answers with a status (`AzureAnswers`). SSML and bytes are left out: a sound is
the attempt and the piece it belongs to.

### Mp3Frames

A file is a sequence of cells: a stray byte, the header of a frame of `n` cells,
the header of a tag of `n` cells. `AddChunk` puts a file together, piece by
piece, and `OpenFile` adds its tail, which may be a frame that is cut off;
`Mp3Assumption` says what pieces there are. The history variable `expected` has,
for each place where a piece begins or the last one ends, the cells of the whole
frames before. `SkipTag`, `Resync`, `CountFrame` and `EndWalk` are the loop of
`MP3Duration`. `ParseHeader` computes size and samples for each of the fields a
header may have, with the tables of the source.

### Content

`settings` is a source's content configuration after `validateContent`;
`FirstFetch` is what `resolve` makes of it, and `FetchText`, `FetchDerived` and
the topic's actions are the fetchers with their outcomes (stored, asked again
later, given up). `FetchFirstPage`, `FetchBatch` and `EndTopic` follow a V2EX
topic whose pages are fetched in batches while it grows; a reply is its number
and the floor that the page shows. Then `collectV2EXReplies` goes through the
pages, one reply a step (`CollectReply`, `TurnPage`), the replies are put in
their places one by one (`PlaceReply`), and `StoreTopic` stores them. HTML is
left out. `PlaceReply` is the insertion that `sort.SliceStable` does with fewer
than 20 replies; with more the library merges blocks sorted in this way.
The comparison is no order when only some floors are known, so `TopicIsWhole`
claims the order only where all are, and otherwise what any sort gives: every
reply once.

### FilterOrder

`Declare` lists enabled entries with the order each asks for; `SortEntries`,
`Place`, `Placed` and `Fill` are the two loops of `orderEpisodeSources`, one
entry a step.

### Process

`at` is what the main goroutine of `serve`, `worker` or `run` does next; `pool`,
`river`, `server`, `shut` and `errCh` are what it opened. Servers are goroutines
of their own (`Listen`, `Unlisten`, `Send`), a signal or a server's error ends
`Select`, and `Shutdown`, `StopRiver` and `ClosePool` are the deferred calls in
their order.

## 3. Runs

Deadlock is not checked: a system whose work is all settled, or whose bound of
unfinished jobs or of runs is reached, has nothing left to do. `Events` names
what can go wrong in a run.

**EpisodePipeline.** All runs have one episode: no action relates two episodes,
except the stop command, which treats each by itself. `MaxTurns = 2` is the
least with a gap to leave; `MaxScripts = 2` the least with a stale segment; two
attempts tell the last from the others; three jobs are a stage's duplicate, its
successor and the successor's duplicate. Where a second attempt would only
multiply states, stages have one: `redelivery` and `shutdown` repeat the two
middle stages, `listener_start` the script.

| Run | Events | Shows |
| --- | --- | --- |
| `redelivery` | crash | `SegmentsContiguous`, `SegmentObjectsExist`, `Voicing`: several TTS jobs of one episode with scripts of different lengths, stopped anywhere, leave no gap and no row without its object |
| `shutdown` | outage, softstop, stop, retry | `StageInputs`, `LinkedAudioExists`, for an episode voiced in one call: no resumed or cancelled stage runs without its input; no URL without an object |
| `operator_retry` | retry, cleanup | `TypeOK`, `NeverStranded`, `OneCarrier`, `PublishedVoicesScript`, `FailedIsSettled`, `CompletedStagesKept`, `Settles`, and the pipeline implements `EpisodeLifecycle` with its liveness |
| `listener_start` | outage, start, delete, cleanup | `PipelineInv` (which contains `TypeOK`), `ListenerQueueIsIdle` and `FollowsLifecycle` (the steps of `EpisodeLifecycle`, without its liveness), for a poll-only source: listeners start and resume an episode, an operator or retention deletes it under its jobs |

**SourceRuns.** Two runs are the least that overlap, two attempts the least
that repeat one.

| Run | Bounds | Shows |
| --- | --- | --- |
| `mirror` | one subscription, one remote episode, two pulls, three instants, a clock off by the whole overlap; crash, softstop, outage, rejected | `TypeOK`, `NothingSkipped`, `WindowInv`: pulls overlap, fail, die, run twice and complete in either order, and the episode never falls behind the next window |
| `source_runs` | a source and a subscription, two runs, two instants; delete, cleanup | `RunNeverStranded`, `FailedRunIsSettled`, `RunsEnd`, with retention under the jobs; what it does to the windows is left to `NoneSkipped` (section 4), since `mirror` with cleanup has five million states |

**The others.** `services` starts in the initial state of all ten modules and
picks, once, the one it is about (`focus`): they share no variable, so their
state spaces are explored side by side and each bound only concerns its own.

| Properties | Bounds and why they are enough |
| --- | --- |
| `GuessRate`, `CodeUsedOnce` | two logins at one time, two keys, two codes of which one is that of two steps in a row, one attempt in a window of two steps: the least with a race, a change of key, a repeated code and a window's boundary |
| `OneJobPerItem`, `IgnoredStaysAway` | two polls and the delete command; two feeds, one with a rejected item first, one of a poll-only source |
| `OnePollPerMinute` | two ticks at once over five half minutes; a source and a subscription that share a minute and differ in another |
| `WholeFramesCounted`, `FrameHoldsItsSamples` | files of up to three of six chunks (a frame with a header inside, a frame with a tag inside, tags with frames inside, stray bytes) and three tails; every combination of header fields |
| `AudioOfOneAttempt`, `ValidatedIsVoiced` | two pieces and three attempts; profiles of up to three speakers from nine voices, scripts of up to two turns |
| `StoredAsMeant`, `KnownFlawsMended`, `PromptIsPrefix` | two services, answers of up to two turns with up to two flaws of every kind and position, keys in another case among them; up to three documents of up to three runes against a limit of four |
| `ShownIsAccepted`, `PlacesAgree` | an episode of a source and a mirrored one, three days, every pair of host forms |
| `StopsInOrder` | none: the three commands with every order of signal, failing server and deferred call |
| `ContentIsWhole` | settings in every combination; topics of up to five reported pages, of which four may be fetched, in batches of two |
| `NoneOverwritten`, `OrdersHonoured` | up to four entries that ask for places 0 (none) to 5 |

One episode is enough for `NothingSkipped` as long as a page can hold the
window; the theorem (section 4) covers any number.

Fairness (`FairSpec` in both) is weak fairness of each job's queue steps and
worker steps: the `run` and `worker` processes keep fetching, River's rescuer
runs, and every call a worker makes has a timeout, so a step that cannot succeed
fails. No failure, command, crash or shutdown is ever forced to happen, and
none has to stop: a failed episode settles until somebody retries it. Time need
not pass.

### Where code and text disagree

Each of these runs checks one property that a comment or the README states, and
TLC finds the behaviour of the code that breaks it.

* `softstop_finding` - a job that a shutdown interrupts marks its episode
  failed although the queue will run it again.
* `listener_finding` - `retry` leaves a poll-only episode `queued` with a job.
* `mixed_audio_finding` - after a redelivered script job replaced the turns,
  segments that voice the old script are reused and published with new ones.
* `mirror_limit_finding` - a pull that is cut off by its limit (`poll --limit`,
  or more new episodes than the page holds) completes, and the next window
  starts past what it left out.
* `rejected_finding` - a permanent error of a pull records the run as failed
  but does not cancel its job, which runs the failed run again.

The passing runs check the same properties without the event that breaks them,
which is what locates the cause. Limits that the passing runs respect, and that
follow from the design: `SegmentObjectsExist` and `LinkedAudioExists` are not
claimed under `delete` (a transaction that fails after objects were removed
keeps rows without objects, and the operator has to repeat the command); an
episode retried between the selection of a delete command and its commit is
deleted with its job queued, since the selection takes no row lock
(`delete.go:117`); `RunNeverStranded` is not claimed under `crash` and `outage`,
where a run can be stranded as an episode can: a worker that dies on the last
attempt leaves it in progress without a job, and for an episode only `stop`
followed by `retry` frees it (`NeverStranded` is not claimed under `crash`).

Smaller disagreements that the models respect rather than check:
`app/start.go:73` says that `start` takes the oldest waiting episodes, the query
at line 97 takes the newest; a host `name.:8080` keeps its dot in
`normalizeHost` and matches no entry of `public_media_hosts` (`MediaBase`);
`validateContent` accepts a derived feed whose address is not taken from the
item's link, which `fetchDerivedRSS` then refuses for every episode
(`ValidatedIsFetched` excepts it); `rejectDuplicateJSONKeys` compares keys as
they are spelled and the decoder behind it does not, so two turns that a missing
delimiter joins are stored as one when the keys of one have capitals
(`StoredAsMeant` excepts it with `SpeltTwice`), where
`TestDecodeGeneratedScriptDoesNotGuessContent` wants conflicting keys refused;
the timeout of an LLM service is not validated, and an invalid one fails every
script for good.

## 4. Proofs

Every theorem holds for any sets of episodes, owners and remote episodes, any
number of jobs, attempts, turns, scripts and runs, and any clocks and limits,
from the assumption on constants that its module names. Where a theorem is not
true of every set of `Events`, its statement says which events it excludes, and
the paragraph about it says what they break.

### EpisodePipeline, whatever happens

`EpisodePipelineProofs` proves for any set of events, from
`PipelineAssumption` only:

* `TypeCorrect`: `Spec => []TypeOK`;
* `InvHolds`: `Spec => []PipelineInv`;
* `InputsStored` (`StageInputs`), `NoGap` (`SegmentsContiguous`) and
  `ListsComplete` (`Voicing`), its parts.

`SegmentsContiguous` alone is not inductive: a worker records the least
position on its list, and that leaves no gap only if every position below is
recorded already or on the list. That is `Voicing`, which in turn needs that a
TTS job of an existing episode finds turns (`StageInputs`: positions start at 0
and the list is not empty) and that no job works on an episode that is not
created yet (`JobsBorn`), since creation would otherwise hand it an episode
without rows. `PipelineInv` is their conjunction with `TypeOK`.

The induction step is organised by what a step keeps rather than by conjunct:
`RowsKept` (an episode that stays loses nothing), `JobsKept` (a job stays what
it is or is inserted with its input) and `WorkKept` (a voicing worker goes on or
has just loaded its list). `KeptIsEnough` derives the next state's invariant
from the three; `QueueInv`, `WorkerInv` and `CommandInv` then show them for
every action.

The later proofs start from what a step touches: `ClosesShape`, `WorkerShape`,
`CommandShape` and `CommandStatus` say of every action which jobs, workers,
rows and objects it may change, so that an invariant is argued once per shape
(a job is inserted, a job leaves, a worker moves on) and not once per action.

* `ListenersWait`: `"retry" \notin Events => (Spec => []ListenerQueueIsIdle)`.
  Its inductive form `IdleInv` says it of every job in the queue, also of one
  that will not run again. With the retry command it is false:
  `listener_finding`.
* `SegmentsStored` and `AudioStored`:
  `"delete" \notin Events => (Spec => []SegmentObjectsExist)`, and
  `[]LinkedAudioExists`. `ObjectsInv` adds that a worker which is about to
  record or to publish has put the object, and that no deletion is under way.
  The delete command may remove objects in a transaction
  that then fails, and says so to the operator.

### EpisodePipeline, while the worker process is left in peace

`EpisodeStoryProofs` is about `Undisturbed` systems: no crash, no shutdown, no
stop command. Everything else may happen: stages that fail and are retried by
the queue, databases that do not answer, operators' retries, listeners' starts,
deletions and retention, at any moment. The excluded events break one or the
other of these properties: a redelivered job runs beside its successor (`mixed_audio_finding`),
a job that a shutdown interrupts runs again after its episode has failed
(`softstop_finding`), and the stop command fails an episode whose worker has
not yet heard of it. `Orderly` also excludes that operators' retries and
listeners' starts reach the same episodes: a retry leaves a poll-only episode
`queued` with its job, and a start would then insert a second one
(`listener_finding`).

* `Carried`: `Reliable => (Spec => []NeverStranded)`, where `Reliable` also
  excludes outages: an attempt that could not record its own end, as the last
  one, leaves the episode in progress without a job.
* `CarrierHolds`: `Orderly => (Spec => [](TypeOK /\ CarrierInv))`, and from it
  `SingleCarrier` (`OneCarrier`) and `FailedWaits` (`FailedIsSettled`).
  They cover the events of `listener_start` as well as those of
  `operator_retry`. `OneCarrier` is not inductive by itself, because commands
  insert a job by the status alone. `CarrierInv` relates the two: an episode
  whose status a command accepts (`failed`, or `queued` for a start) has no job
  that will run, and every running job has its worker (`Calm`).
* `StoryHolds`: `Orderly => (Spec => []StoryInv)`, and from it `OneScript`
  (`PublishedVoicesScript`) and `ScriptKept` (`CompletedStagesKept`).
  `ContentInv` says, status by status and step by step of the worker, what is
  stored and voices the current script: no segment before the script, segments
  of that script only, every position before composition, the composed audio in
  the worker's hands equal to them. It rests on there being one carrier, as two
  would undo each other's part.
* `LifecycleFollowed`: `Orderly => (Spec => FollowsLifecycle)`, the refinement
  of `EpisodeLifecycle` by the mapping in `EpisodePipeline` (`PlayerState`, the
  script, the scripts heard in the audio). `InitSimulated` maps the initial
  state, `StepSimulated` every step to a step of the lifecycle or to none:
  most actions change nothing that is shown (`Unseen`), and each of the others
  is one of `Shown`, `Written`, `Finished` and `Removed`. That the audio of an
  episode which becomes ready is that of its script is `StoryInv`. The fairness
  of `Lifecycle!Spec`, that what begins settles, is checked by TLC in
  `operator_retry`.

### SourceRuns

`SourceRunsProofs` proves, from `RunsAssumption`:

* `TypeCorrect`: `Spec => []TypeOK`;
* `NoneSkipped`: `PagesSuffice => (Spec => []NothingSkipped /\ []WindowInv)`,
  and `WindowsKnown`, its second half;
* `RunsEnded`:
  `Events \cap {"crash", "outage"} = {} => (Spec => []RunNeverStranded)`;
* `FailedRunsRest`:
  `Events \cap {"rejected", "softstop"} = {} => (Spec => []FailedRunIsSettled)`.

`PagesSuffice` (the remote episodes are finitely many and fit on every page a
pull may ask for) is the condition that `mirror_limit_finding` shows to be
needed. `NothingSkipped` relates the episodes still owed to the starts of the
completed runs; it says nothing of a pull that is under way, whose window may be
stale when it completes. `WindowInv` does: a pull's run started before its
window ends (`Dated`), a window that continues another leaves out nothing that
is owed and ends, less the overlap, before anything that can still be published
(`Opened`), and what a page lacks is late enough for the next window or older
than a first one (`Fetched`). `OwedKept`, `RunsKept` and `CompletedKept` say
what a step keeps; `PollFrame` and `SkipFrame` derive the invariant for
everything a step passes by, so that each action only owes the facts about its
own job.

The last two allow more events than the run `source_runs`, which also checks
that every run ends. `RunNeverStranded` holds under shutdowns and permanent
errors: what a shutdown interrupts runs again, and an attempt that ends for good
has recorded it. It needs that a worker is never lost and nobody cancels its job
(`Attentive`); a crash or an outage in the last attempt strands the run.
`FailedRunIsSettled` holds under crashes and outages. `SettledInv` says that no
two jobs have the same run and that the job of a failed run is in its last
attempt and has returned or lost its worker; a permanent error
(`rejected_finding`) and a shutdown during the last attempt break it.

### The smaller modules

The proofs of the smaller modules each rest on the module's own assumption
(`IntakeAssumption` and so on: the types of the constants, nothing about their
size, except as noted).

`PollingProofs`:

* `OneJobEach` (`IntakeSpec => []OneJobPerItem`) and `IgnoredForGood`
  (`IntakeSpec => IgnoredStaysAway`). The invariant is `RowsHeld`: a row has one
  writing transaction at a time, what a poll created is visible to nobody else,
  and no poll writes an item it read as ignored. Without it two polls could both
  count an insert as theirs.
* `OnceAMinute` (`OnePollPerMinute`). `MinutesHeld` says that of all ticks under
  way one at most has written the run of an owner and a minute, and that nobody
  committed it before; `JobPerMinute` that each job is that of a stored run.

`ServerProofs`:

* `OncePerCode` (`CodeUsedOnce`), for any assignment of codes to steps.
  `RowsLocked` says that what a login read under the lock is still in the row,
  `UsedBelow` that no session was opened by a step after the row's last.
* `FewGuesses` (`GuessRate`), for any number of keys and logins at one time, any
  limit and any length of the window. A bound on a count is not inductive:
  `AnswersInv` says how the answers of a key lie in time instead. One answer
  follows another (`Follows`) as a later attempt of the same window, or in a
  window that began after the answer and a whole `GuessWindow` after the
  other's window. The answers follow each other in their order
  (`AnswersFollow`), the next attempt that the row allows would follow them all
  (`RowFollows`), and so will that of the login which has the row
  (`LoginFollows`). Hence the recent answers lie in two windows at most
  (`TwoWindows`) and each is another attempt, which bounds their number by
  `2 * MaxGuesses`.
* `OrderlyStop` (`StopsInOrder`), for each command with every failure at its
  start, every order of signal, server errors and deferred calls. `ProcessInv`:
  whoever starts the job client comes past the place where it is stopped before
  the pool is closed (`RiverEnds`), the main goroutine goes on only when both
  servers are shut down and what is shut down never listens (`ServersEnd`), and
  each server reports its end once (`ReportedOnce`), so that the channel has
  room for it.

`StageProofs`:

* `ContentWhole` (`ContentIsWhole`), for any number of pages, replies and
  addresses in a request. The pages so far are the first ones (`PagesInv`);
  every reply of the pages gone through is held, and once (`CollectInv`); the
  replies in their places are the first ones held, in order (`ArrangeInv`).
  `AcceptedIsFetched` shows that accepted settings lead to a fetch that does not
  give up.
* `PromptHoldsPrefix` (`PromptIsPrefix`), for any sizes of documents and any
  limit. `RenderedFills` says what one document adds to a prompt that has room,
  is full or was cut, and `DocsInOrder` that no document ends before another
  that it comes after.
* `NoLeftovers` (`AudioOfOneAttempt`), by the buffer's content after each piece
  (`HeardSoFar`), and `AcceptedIsVoiced` (`ValidatedIsVoiced`), which shows for
  each reason the TTS stage has to give up that validation excludes it.
* `DurationIsWhole` (`WholeFramesCounted`), for files of any length made of any
  pieces that `Mp3Assumption` allows: a stray byte, a whole frame or a whole
  tag, whatever cells are inside. `FileInv` says of each place where a piece
  begins what it adds to `expected`; `WalkInv` that the walk is always where a
  piece begins and has counted what was before. That it never takes the inside
  of a frame or a tag for a header is what the two together say.
* `FramesHoldSamples` (`FrameHoldsItsSamples`), by version and layer.

`LibraryProofs`:

* `OffersWork` (`ShownIsAccepted`) and `OnePicture` (`PlacesAgree`). `RowsOK` is
  what every writer keeps: what is published has audio and a day, and what is
  concealed is marked hidden, so that composing it again does not show it.

`FilterOrderProofs`:

* `NoEntryLost` (`NoneOverwritten`) needs `RoomLeft`, that the entries still to
  be placed fit behind the last one; this is the cap that `Latest` puts on a
  position.
* `FilterShowsAll` (`OrdersHonoured`), for any number of entries with any
  orders. `OrderInv` follows the loops: the ordered entries are those that ask
  for a place, sorted (`SortedByOrder`); each is behind those before it, and
  where it asks to be if the orders are apart (`PlacedInOrder`); the others take
  the slots that are left, from the first on (`FilledInOrder`). That every slot
  has an entry at the end is a count of entries and slots.

### Only model-checked

* `Settles`, `RunsEnd` and the fairness in `ImplementsLifecycle`: liveness under
  fairness is beyond the prover.
* `StoredAsMeant` and `KnownFlawsMended`: they speak of what the decoder and the
  repair passes make of a whole completion, each a recursive function over its
  tokens, for every completion with a bounded number of flaws. That is induction
  over the data, which the prover cannot do. TLC tries every flaw at every
  place of completions of up to two turns, and every pair of flaws.

## 5. Plan

Done: the pipeline with its abstract lifecycle, the runs, the components around
them, and the theorems of section 4, which state every safety property that the
passing runs check except `StoredAsMeant` and `KnownFlawsMended`. What is left:

1. The decoder and the repair passes as steps of a machine, one token each,
   with an invariant that says what a prefix of the answer stands for: a form in
   which the two could be proved, at the price of many more states for TLC.
2. The stop command on runs, in an instance that TLC can exhaust.

Not modelled:

* *checker* - one-shot probes of external services; it stores nothing and each
  probe is a request and a verdict.
* *command line, static files* - dispatch and embedded files, no state.
* *YAML, environment variables and the checks of single fields* of the
  configuration - parsing; what other parts rely on is in `Speech`, `Content`,
  `FilterOrder`, `Library`, and in the assumptions on constants.
* *web and Android player* - their state is that of a browser's media element
  and of the platform's media session; their requests are `StartHere` and the
  windows of `Listed`.
* *vendored Edge TTS client* - third-party code; `Speech` models how it is
  called.
* *HTML and feed parsing, SSML, audio bytes* - data that the properties do not
  distinguish; limits of list queries and the priorities of the queue.
