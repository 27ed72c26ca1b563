------------------------------ MODULE JobQueue ------------------------------
(***************************************************************************)
(* The durable job queue (River on PostgreSQL) as the application uses it. *)
(* The queue itself is a library: what is written here is what the code    *)
(* under internal/ relies on and says of it in internal/app/app.go and     *)
(* internal/app/stop.go.  A finished job (completed, cancelled, discarded) *)
(* never runs again, so its id becomes "free" and may be handed out again. *)
(***************************************************************************)
EXTENDS Naturals

CONSTANTS
  MaxJobs,      \* bound: jobs that are unfinished at one time
  Kinds,        \* the job kinds
  Subjects,     \* what a job works on (the argument of the job)
  MaxAttempts   \* Kinds -> attempts before a failing job is discarded

VARIABLE jobs

JobIds == 1..MaxJobs

FreeJob == [state   |-> "free", kind |-> "none", subject |-> "none",
            attempt |-> 0,      cancel |-> FALSE, ctx    |-> "none"]

\* The context of the worker that runs a job: "cancelled" by a remote
\* JobCancel, "softstop" when the worker process shuts down, "dead" when the
\* process is gone and nothing runs the job any more.
Contexts == {"none", "live", "cancelled", "softstop", "dead"}

Job == [state   : {"free", "waiting", "running"},
        kind    : Kinds \cup {"none"},
        subject : Subjects \cup {"none"},
        attempt : Nat,
        cancel  : BOOLEAN,
        ctx     : Contexts]

JobsTypeOK == jobs \in [JobIds -> Job]

JobsInit == jobs = [j \in JobIds |-> FreeJob]

InFlight(j) == jobs[j].state # "free"
Waiting(j)  == jobs[j].state = "waiting"
Running(j)  == jobs[j].state = "running"
Attended(j) == Running(j) /\ jobs[j].ctx # "dead"
LastAttempt(j) == jobs[j].attempt >= MaxAttempts[jobs[j].kind]

-----------------------------------------------------------------------------
\* InsertTx: the jobs after one more was inserted, if the bound leaves room.
Room == \E j \in JobIds : ~InFlight(j)

FreeId == CHOOSE j \in JobIds : ~InFlight(j)

NewJob(k, s) == [state   |-> "waiting", kind |-> k,      subject |-> s,
                 attempt |-> 0,         cancel |-> FALSE, ctx    |-> "none"]

Inserted(k, s) == [jobs EXCEPT ![FreeId] = NewJob(k, s)]

\* Job j moved to another state, attempt count and context.
Moved(j, s, n, c) == [state   |-> s, kind   |-> jobs[j].kind, subject |-> jobs[j].subject,
                      attempt |-> n, cancel |-> jobs[j].cancel, ctx   |-> c]

\* A producer fetches a waiting job (available, or retryable and due).
Fetch(j) ==
  /\ Waiting(j)
  /\ jobs' = [jobs EXCEPT ![j] = Moved(j, "running", jobs[j].attempt + 1, "live")]

\* The job leaves the queue: completed, cancelled or discarded.
Finish(j) == jobs' = [jobs EXCEPT ![j] = FreeJob]

\* The job runs again later, with this many attempts consumed.
Requeue(j, attempts) ==
  jobs' = [jobs EXCEPT ![j] = Moved(j, "waiting", attempts, "none")]

\* Whether an attempt that ended without success is followed by another: a
\* requested cancellation wins over a retry, a job interrupted by a shutdown
\* keeps its attempt, the last attempt discards the job.
RunsAgain(j) == /\ ~jobs[j].cancel
                /\ jobs[j].ctx = "softstop" \/ ~LastAttempt(j)

\* The worker returned an ordinary error.
RecordError(j) ==
  IF ~RunsAgain(j) THEN Finish(j)
  ELSE Requeue(j, IF jobs[j].ctx = "softstop" THEN jobs[j].attempt - 1
                                             ELSE jobs[j].attempt)

\* The worker process dies (SIGKILL, OOM, a shutdown that ran out of time):
\* the job stays recorded as running with nothing behind it ...
Die(j) ==
  /\ Attended(j)
  /\ jobs' = [jobs EXCEPT ![j].ctx = "dead"]

\* ... until the rescuer finds it.
Rescue(j) ==
  /\ Running(j) /\ jobs[j].ctx = "dead"
  /\ IF RunsAgain(j) THEN Requeue(j, jobs[j].attempt) ELSE Finish(j)

\* A stopping worker process cancels the contexts of its jobs after
\* SoftStopTimeout.
InterruptBySoftStop(j) ==
  /\ Running(j) /\ jobs[j].ctx = "live"
  /\ jobs' = [jobs EXCEPT ![j].ctx = "softstop"]

\* JobCancel: a waiting job is cancelled at once, a running one is only
\* marked; its worker hears of it later.
RequestCancel(j) ==
  IF Running(j) THEN jobs' = [jobs EXCEPT ![j].cancel = TRUE] ELSE Finish(j)

DeliverCancel(j) ==
  /\ Running(j) /\ jobs[j].cancel /\ jobs[j].ctx = "live"
  /\ jobs' = [jobs EXCEPT ![j].ctx = "cancelled"]
=============================================================================
