------------------------------ MODULE SourceRuns ------------------------------
(***************************************************************************)
(* Polls: the scheduler and operators queue runs of feed sources and of    *)
(* subscriptions, a job carries out each run, and commands and retention   *)
(* change and remove runs (internal/jobs, internal/app).  A feed run reads *)
(* one feed; a subscription run mirrors the episodes that another          *)
(* deployment published in a window, and the next window starts where the  *)
(* last completed run started.                                             *)
(***************************************************************************)
EXTENDS Naturals, FiniteSets

CONSTANTS
  Owners,         \* sources and subscriptions
  Subscriptions,  \* the owners that mirror another deployment
  Remote,         \* the episodes of the other deployments
  Origin,         \* Remote -> the subscription that mirrors it
  Overlap,        \* subscriptionWindowOverlap
  Lookback,       \* the window of a first pull
  Skew,           \* how far a remote clock may be off
  PageLimit,      \* a subscription's limit (EffectiveLimit)
  Limits,         \* the limits operators ask for, 0 for none
  MaxAttempts,    \* job kind -> attempts (InsertOpts)
  MaxClock,       \* bound: time
  Runs,           \* bound: the ids of all runs ever created
  MaxJobs,        \* bound: unfinished jobs at one time
  Events          \* the failures and commands this environment has

Kinds == {"poll_source", "poll_subscription"}

AllEvents == {"crash", "softstop", "outage", "rejected", "delete", "cleanup"}

\* The overlap is there to absorb the clocks' difference.
ASSUME RunsAssumption ==
  /\ Subscriptions \subseteq Owners
  /\ Origin \in [Remote -> Subscriptions]
  /\ Overlap \in Nat /\ Lookback \in Nat /\ Skew \in Nat /\ PageLimit \in Nat
  /\ Skew <= Overlap
  /\ Limits \subseteq Nat
  /\ MaxAttempts \in [Kinds -> Nat \ {0}]
  /\ MaxClock \in Nat \ {0} /\ MaxJobs \in Nat
  /\ Events \subseteq AllEvents

VARIABLES
  clock,     \* the time here
  stamp,     \* remote published_at, 0 before the episode is published
  mirrored,  \* the remote episodes stored here
  runs,      \* source_runs
  jobs,      \* the job queue (JobQueue)
  work,      \* what the worker of each job has reached and read
  behind     \* history: where the latest pull of a lookback window began

vars == <<clock, stamp, mirrored, runs, jobs, work, behind>>

INSTANCE JobQueue WITH Subjects <- Runs

-----------------------------------------------------------------------------
Minus(a, b)  == IF a > b THEN a - b ELSE 0
Later(a, b)  == IF a > b THEN a ELSE b

\* A time of 0 is NULL.  "gone" is a run whose row was deleted.
InProgress  == {"queued", "running", "retrying"}
RunStatuses == InProgress \cup {"completed", "failed"}

NoRun == [owner |-> "none", status |-> "none", started |-> 0, tick |-> 0, limit |-> 0]

NewRun(o, t, n) == [owner |-> o, status |-> "queued", started |-> 0, tick |-> t, limit |-> n]

FreeRun == CHOOSE r \in Runs : runs[r] = NoRun

Exists(r) == runs[r].status \in RunStatuses
Run(j)    == jobs[j].subject
KindOf(o) == IF o \in Subscriptions THEN "poll_subscription" ELSE "poll_source"

\* UPDATE source_runs SET status = s WHERE id = r: no row, no effect.
SetStatus(r, s) == runs' = [runs EXCEPT ![r].status = IF Exists(r) THEN s ELSE @]

\* The page a run asks for: an operator can only lower the limit.
Page(r) == IF runs[r].limit # 0 /\ runs[r].limit < PageLimit
           THEN runs[r].limit ELSE PageLimit

Completed(o) == {r \in Runs : runs[r].owner = o /\ runs[r].status = "completed"}

\* max(started_at) of the completed runs R.
IsLastStart(R, t) == /\ \E r \in R : runs[r].started = t
                     /\ \A r \in R : runs[r].started <= t

\* What the remote list answers: the newest n of the episodes S.
IsNewest(P, S, n) ==
  /\ P \subseteq S /\ Cardinality(P) <= n
  /\ P # S => Cardinality(P) = n
  /\ \A e \in P : \A f \in S \ P : stamp[f] <= stamp[e]

Published(o) == {e \in Remote : Origin[e] = o /\ stamp[e] # 0}

\* Mutant: the window leaves out its first instant.
InWindowAfter(o, since, before) ==
  {e \in Published(o) : since < stamp[e] /\ stamp[e] < before}

InWindow(o, since, before) ==
  {e \in Published(o) : since <= stamp[e] /\ stamp[e] < before}

-----------------------------------------------------------------------------
(* Runs are queued *)

Queue(o, t, n) ==
  /\ Room
  /\ \E r \in Runs : runs[r] = NoRun
  /\ runs' = [runs EXCEPT ![FreeRun] = NewRun(o, t, n)]
  /\ jobs' = Inserted(KindOf(o), FreeRun)
  /\ UNCHANGED <<clock, stamp, mirrored, work, behind>>

\* The scheduler queues an owner that is due at most once a minute.  One
\* transaction queues all that are due; they share no row, so each is a step.
Schedule(o) ==
  /\ \A r \in Runs : Exists(r) => ~(runs[r].owner = o /\ runs[r].tick = clock)
  /\ Queue(o, clock, 0)

\* An operator polls at any time.
Enqueue(o) == \E n \in Limits : Queue(o, 0, n)

-----------------------------------------------------------------------------
(* Workers *)

PollSteps == {"poll", "begin", "window", "fetch", "store"}
Returned  == {"ok", "error"}

\* A worker at step pc, the window it has read so far and the page it got.
Reached(pc, since, before, lookback, page) ==
  [pc |-> pc, since |-> since, before |-> before, lookback |-> lookback, page |-> page]

Step(pc) == Reached(pc, 0, 0, FALSE, {})
Idle     == Step("idle")

Goto(j, w) == work' = [work EXCEPT ![j] = w]

At(j, pc) == /\ Running(j) /\ jobs[j].ctx = "live"
             /\ work[j].pc = pc

remote == <<clock, stamp>>

Take(j) ==
  /\ Fetch(j)
  /\ Goto(j, Step("mark"))
  /\ UNCHANGED <<remote, mirrored, runs, behind>>

\* The first attempt dates the start of the run.
Started(run) ==
  [run EXCEPT !.status = "running", !.started = IF run.started = 0 THEN clock ELSE run.started]

MarkRunning(j) ==
  /\ At(j, "mark")
  /\ runs' = [runs EXCEPT ![Run(j)] = IF Exists(Run(j)) THEN Started(@) ELSE @]
  /\ Goto(j, Step(IF jobs[j].kind = "poll_source" THEN "poll" ELSE "begin"))
  /\ UNCHANGED <<remote, mirrored, jobs, behind>>

MarkFails(j) ==
  /\ Attended(j) /\ work[j].pc = "mark"
  /\ "outage" \in Events \/ jobs[j].ctx # "live"
  /\ Goto(j, Step("error"))
  /\ UNCHANGED <<remote, mirrored, runs, jobs, behind>>

\* A feed is read and its items are stored with the end of the run.
StoreItems(j) ==
  /\ At(j, "poll")
  /\ SetStatus(Run(j), "completed")
  /\ Goto(j, Step("ok"))
  /\ UNCHANGED <<remote, mirrored, jobs, behind>>

\* The end of a window is the time before its start is looked up.
ReadClock(j) ==
  /\ At(j, "begin")
  /\ Goto(j, Reached("window", 0, clock, FALSE, {}))
  /\ UNCHANGED <<remote, mirrored, runs, jobs, behind>>

\* Mutant: the window starts at the last completed run, without the overlap.
WindowStartExact(j, since, lookback) ==
  LET R == Completed(runs[Run(j)].owner) IN
  \/ R = {} /\ lookback /\ since = Minus(work[j].before, Lookback)
  \/ \E r \in R : ~lookback /\ IsLastStart(R, runs[r].started) /\ since = runs[r].started

\* A window repeats an overlap of the last completed run of the owner, or
\* looks back when there is none.
WindowStart(j, since, lookback) ==
  LET R == Completed(runs[Run(j)].owner) IN
  \/ /\ R = {} /\ lookback
     /\ since = Minus(work[j].before, Lookback)
  \/ \E r \in R : /\ ~lookback
                  /\ IsLastStart(R, runs[r].started)
                  /\ since = Minus(runs[r].started, Overlap)

OpenWindow(j) ==
  /\ At(j, "window")
  /\ \E since \in 0..MaxClock, lookback \in BOOLEAN :
       /\ WindowStart(j, since, lookback)
       /\ Goto(j, Reached("fetch", since, work[j].before, lookback, {}))
  /\ UNCHANGED <<remote, mirrored, runs, jobs, behind>>

FetchEpisodes(j) ==
  /\ At(j, "fetch")
  /\ \E P \in SUBSET Remote :
       /\ IsNewest(P, InWindow(runs[Run(j)].owner, work[j].since, work[j].before), Page(Run(j)))
       /\ Goto(j, Reached("store", work[j].since, work[j].before, work[j].lookback, P))
  /\ UNCHANGED <<remote, mirrored, runs, jobs, behind>>

StoreMirrored(j) ==
  LET o == runs[Run(j)].owner IN
  /\ At(j, "store")
  /\ mirrored' = mirrored \cup work[j].page
  /\ SetStatus(Run(j), "completed")
  /\ behind' = [behind EXCEPT ![o] = IF work[j].lookback THEN Later(@, work[j].since) ELSE @]
  /\ Goto(j, Step("ok"))
  /\ UNCHANGED <<remote, jobs>>

\* A poll fails at any point.  Unlike finishEpisodeAttempt, the update uses the
\* job's own context, and a permanent error is returned like any other.
MayBePermanent(j) == /\ "rejected" \in Events
                     /\ work[j].pc \in {"begin", "window", "fetch"}

\* Mutant: one attempt off, a run is never recorded as failed.
FailStatusEndless(j, permanent) ==
  IF permanent \/ jobs[j].attempt > MaxAttempts[jobs[j].kind] THEN "failed" ELSE "retrying"

\* Mutant: every failure is recorded as the last one.
FailStatusFinal(j, permanent) == "failed"

\* Mutant: the job's state is stored as the run's status.
FailStatusOfJob(j, permanent) == IF LastAttempt(j) THEN "discarded" ELSE "retryable"

FailStatus(j, permanent) == IF permanent \/ LastAttempt(j) THEN "failed" ELSE "retrying"

FailPoll(j, permanent) ==
  /\ Running(j) /\ jobs[j].ctx = "live" /\ work[j].pc \in PollSteps
  /\ permanent => MayBePermanent(j)
  /\ SetStatus(Run(j), FailStatus(j, permanent))
  /\ Goto(j, Step("error"))
  /\ UNCHANGED <<remote, mirrored, jobs, behind>>

FailUnrecorded(j) ==
  /\ Attended(j) /\ work[j].pc \in PollSteps
  /\ "outage" \in Events \/ jobs[j].ctx # "live"
  /\ Goto(j, Step("error"))
  /\ UNCHANGED <<remote, mirrored, runs, jobs, behind>>

\* The queue records what Work returned.
Record(j) ==
  /\ Attended(j) /\ work[j].pc \in Returned
  /\ IF work[j].pc = "error" THEN RecordError(j) ELSE Finish(j)
  /\ Goto(j, Idle)
  /\ UNCHANGED <<remote, mirrored, runs, behind>>

-----------------------------------------------------------------------------
(* Process failures and shutdown *)

Crash(j) ==
  /\ "crash" \in Events
  /\ Die(j)
  /\ Goto(j, Idle)
  /\ UNCHANGED <<remote, mirrored, runs, behind>>

RescueStuck(j) ==
  /\ Rescue(j)
  /\ UNCHANGED <<remote, mirrored, runs, work, behind>>

SoftStop(j) ==
  /\ "softstop" \in Events
  /\ InterruptBySoftStop(j)
  /\ UNCHANGED <<remote, mirrored, runs, work, behind>>

-----------------------------------------------------------------------------
(* The delete command and retention *)

\* The rows of these runs are deleted.
Without(R) == [r \in Runs |-> IF r \in R THEN [runs[r] EXCEPT !.status = "gone"] ELSE runs[r]]

\* The delete command takes the failed runs of a source, not of a subscription.
DeleteRuns(o) ==
  /\ "delete" \in Events /\ o \notin Subscriptions
  /\ runs' = Without({r \in Runs : runs[r].owner = o /\ runs[r].status = "failed"})
  /\ UNCHANGED <<remote, mirrored, jobs, work, behind>>

\* The daily cleanup takes the old ones, in whatever status they are.
ExpireRun(r) ==
  /\ "cleanup" \in Events
  /\ Exists(r)
  /\ runs' = Without({r})
  /\ UNCHANGED <<remote, mirrored, jobs, work, behind>>

-----------------------------------------------------------------------------
(* The other deployment *)

Tick ==
  /\ clock < MaxClock
  /\ clock' = clock + 1
  /\ UNCHANGED <<stamp, mirrored, runs, jobs, work, behind>>

\* An episode is published with the time of a clock that is a little off.
Publish(e) ==
  /\ stamp[e] = 0
  /\ \E t \in 1..(clock + Skew) : /\ clock <= t + Skew
                                  /\ stamp' = [stamp EXCEPT ![e] = t]
  /\ UNCHANGED <<clock, mirrored, runs, jobs, work, behind>>

-----------------------------------------------------------------------------
Init ==
  /\ clock    = 1
  /\ stamp    = [e \in Remote |-> 0]
  /\ mirrored = {}
  /\ runs     = [r \in Runs |-> NoRun]
  /\ JobsInit
  /\ work     = [j \in JobIds |-> Idle]
  /\ behind   = [o \in Owners |-> 0]

WorkerStep(j) ==
  \/ MarkRunning(j) \/ MarkFails(j)
  \/ StoreItems(j)
  \/ ReadClock(j) \/ OpenWindow(j) \/ FetchEpisodes(j) \/ StoreMirrored(j)
  \/ \E permanent \in BOOLEAN : FailPoll(j, permanent)
  \/ FailUnrecorded(j)

QueueStep(j) == Take(j) \/ Record(j) \/ RescueStuck(j)

Disturbance(j) == Crash(j) \/ SoftStop(j)

OwnerStep(o) == Schedule(o) \/ Enqueue(o) \/ DeleteRuns(o)

Next ==
  \/ Tick
  \/ \E e \in Remote : Publish(e)
  \/ \E o \in Owners : OwnerStep(o)
  \/ \E r \in Runs : ExpireRun(r)
  \/ \E j \in JobIds : QueueStep(j) \/ WorkerStep(j) \/ Disturbance(j)

Spec == Init /\ [][Next]_vars

\* Workers run and the queue hands out jobs; time need not pass.
Fairness == \A j \in JobIds : WF_vars(QueueStep(j)) /\ WF_vars(WorkerStep(j))

FairSpec == Spec /\ Fairness

-----------------------------------------------------------------------------
(* Properties *)

Times == 0..MaxClock

RunType == [owner : Owners \cup {"none"}, status : RunStatuses \cup {"none", "gone"},
            started : Times, tick : Times, limit : Limits \cup {0}]

WorkType == [pc : {"idle", "mark"} \cup PollSteps \cup Returned,
             since : Times, before : Times, lookback : BOOLEAN, page : SUBSET Remote]

\* The queue: what a job carries, and that a running job is at some attempt.
JobsOK ==
  /\ JobsTypeOK
  /\ \A j \in JobIds : /\ InFlight(j) => jobs[j].kind \in Kinds /\ Run(j) \in Runs
                       /\ Running(j) => jobs[j].attempt > 0

\* A run that was ever queued has an owner.
RunsOK == /\ runs \in [Runs -> RunType]
          /\ \A r \in Runs : runs[r].status # "none" => runs[r].owner \in Owners

\* A job in the queue is of the kind its run's owner needs.
JobsHaveRuns ==
  \A j \in JobIds : InFlight(j) => /\ runs[Run(j)].status # "none"
                                   /\ jobs[j].kind = KindOf(runs[Run(j)].owner)

\* The values every variable takes; a job in the queue has a run with an owner.
TypeOK ==
  /\ clock \in 1..MaxClock
  /\ stamp \in [Remote -> Nat]
  /\ mirrored \subseteq Remote
  /\ RunsOK /\ JobsOK /\ JobsHaveRuns
  /\ work \in [JobIds -> WorkType]
  /\ behind \in [Owners -> Times]

\* The episodes a mirror still has to store; one that is older than a window
\* that had to look back is not owed.
Owed(o) == {e \in Remote \ mirrored : Origin[e] = o /\ stamp[e] # 0 /\ stamp[e] >= behind[o]}

\* Every episode that a subscription still owes lies in the window of its next
\* pull: pulls that overlap, fail, run twice or end in any order, and clocks
\* that differ, never leave an episode behind the window for good.
NothingSkipped ==
  \A o \in Subscriptions : \A e \in Owed(o), r \in Completed(o) :
    stamp[e] >= Minus(runs[r].started, Overlap)

\* A poll that has begun belongs to a run with a start, before its window's end.
Dated(j) ==
  LET r == Run(j) IN
  /\ work[j].pc = "poll" => jobs[j].kind = "poll_source"
  /\ work[j].pc \in PollSteps /\ Exists(r) => runs[r].started > 0
  /\ work[j].pc \in {"window", "fetch", "store"} =>
       runs[r].started <= work[j].before /\ work[j].before <= clock

\* A window that continues another leaves out nothing the owner owes.
Opened(j) ==
  work[j].pc = "fetch" /\ ~work[j].lookback =>
    /\ work[j].since <= Minus(clock, Overlap)
    /\ \A e \in Owed(runs[Run(j)].owner) : stamp[e] >= work[j].since

\* What a page lacks is late enough for the next window, or older than this one.
Fetched(j) ==
  work[j].pc = "store" =>
    \A e \in Owed(runs[Run(j)].owner) \ work[j].page :
      \/ stamp[e] >= Minus(work[j].before, Overlap)
      \/ work[j].lookback /\ stamp[e] < work[j].since

\* What every pull under way, stale or repeated, knows of its window: no run
\* starts in the future, and neither the window a worker has opened nor the
\* page it has got misses an episode that its mirror owes, whatever is
\* published or stored meanwhile.
WindowInv ==
  /\ \A r \in Runs : runs[r].started <= clock
  /\ \A j \in JobIds : Running(j) => Dated(j) /\ Opened(j) /\ Fetched(j)

\* A job that some worker is running or will run.
WillRun(j) ==
  /\ InFlight(j)
  /\ IF work[j].pc \in Returned THEN work[j].pc = "error" /\ RunsAgain(j)
     ELSE jobs[j].ctx = "dead" => RunsAgain(j)

\* A run in progress has a job that will end it.
RunNeverStranded ==
  \A r \in Runs : runs[r].status \in InProgress =>
    \E j \in JobIds : WillRun(j) /\ Run(j) = r

\* A run that is recorded as failed does not run again.
FailedRunIsSettled ==
  \A j \in JobIds : WillRun(j) /\ work[j].pc \in {"idle"} \cup Returned =>
    runs[Run(j)].status # "failed"

\* Every run ends: completed, failed or removed.
RunsEnd ==
  \A r \in Runs : runs[r].status \in InProgress ~> runs[r].status \notin InProgress
=============================================================================
