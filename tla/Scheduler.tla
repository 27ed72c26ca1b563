------------------------------ MODULE Scheduler ------------------------------
(***************************************************************************)
(* The scheduler's tick (internal/jobs/schedule_sources.go): once a minute *)
(* every source and subscription whose cron expression selects the minute  *)
(* gets a run and a job.  A tick may run late, run twice, or run in two    *)
(* processes at once.  Time is counted in halves of a minute.              *)
(***************************************************************************)
EXTENDS Naturals, Sequences, SequencesExt

CONSTANTS
  Scheduled,  \* the enabled sources and subscriptions, in the order of the configuration
  CronTimes,  \* owner -> the times that its cron expression selects
  Tickers,    \* bound: ticks that run at one time
  MaxTime     \* bound: time

ScheduledOwners == {Scheduled[n] : n \in DOMAIN Scheduled}

ASSUME SchedulerAssumption ==
  /\ Scheduled \in Seq(ScheduledOwners)
  /\ CronTimes \in [ScheduledOwners -> SUBSET {t \in 0..MaxTime : t % 2 = 0}]
  /\ MaxTime \in Nat

VARIABLES
  now,        \* the clock
  ticks,      \* the transaction of each tick
  scheduled,  \* source_runs with scheduled_for: owner -> its minutes
  pollJobs    \* owner -> the minutes of the jobs that were inserted, in order

schedulerVars == <<now, ticks, scheduled, pollJobs>>

NoTick == [pc |-> "none", minute |-> 0, due |-> <<>>, written |-> {}]

SchedulerInit ==
  /\ now = 0
  /\ ticks = [t \in Tickers |-> NoTick]
  /\ scheduled = [o \in ScheduledOwners |-> {}]
  /\ pollJobs = [o \in ScheduledOwners |-> <<>>]

-----------------------------------------------------------------------------
Truncated(t) == t - (t % 2)

\* u is the first time after t that the cron expression selects.
IsNext(o, t, u) == u \in CronTimes[o] /\ t < u /\ \A v \in CronTimes[o] : t < v => u <= v

\* cronMatches: the next time after the moment before this minute is the
\* minute itself.
CronMatches(o, minute) == IsNext(o, minute - 1, minute)

BeginTick(t) ==
  /\ ticks[t].pc = "none"
  /\ ticks' = [ticks EXCEPT ![t] =
       [pc |-> "open", minute |-> Truncated(now), due |-> Scheduled, written |-> {}]]
  /\ UNCHANGED <<now, scheduled, pollJobs>>

\* Mutant: without the unique index nothing waits.
MinuteFree(t, o) == FALSE

\* An uncommitted run of the same minute makes the unique index wait.
MinuteHeld(t, o) == \E u \in Tickers \ {t} :
  o \in ticks[u].written /\ ticks[u].minute = ticks[t].minute

\* An owner whose minute this is not is passed over (dueSourcesAt,
\* dueSubscriptionsAt); for the others INSERT INTO source_runs ... ON CONFLICT
\* DO NOTHING, and the job of a row that was inserted.
InsertRun(t) ==
  LET r == ticks[t]
      o == Head(r.due)
      Rest(written) == [pc |-> "open", minute |-> r.minute, due |-> Tail(r.due), written |-> written]
  IN  /\ r.pc = "open" /\ r.due # <<>>
      /\ \/ ~CronMatches(o, r.minute) /\ ticks' = [ticks EXCEPT ![t] = Rest(r.written)]
         \/ /\ CronMatches(o, r.minute) /\ ~MinuteHeld(t, o)
            /\ ticks' = [ticks EXCEPT ![t] =
                 Rest(IF r.minute \in scheduled[o] THEN r.written ELSE r.written \cup {o})]
      /\ UNCHANGED <<now, scheduled, pollJobs>>

CommitTick(t) ==
  LET r == ticks[t]
  IN  /\ r.pc = "open" /\ r.due = <<>>
      /\ scheduled' = [o \in ScheduledOwners |->
           IF o \in r.written THEN scheduled[o] \cup {r.minute} ELSE scheduled[o]]
      /\ pollJobs' = [o \in ScheduledOwners |->
           IF o \in r.written THEN Append(pollJobs[o], r.minute) ELSE pollJobs[o]]
      /\ ticks' = [ticks EXCEPT ![t] = NoTick]
      /\ UNCHANGED now

\* A statement fails or the worker dies: nothing of the tick remains.
AbortTick(t) ==
  /\ ticks[t].pc # "none"
  /\ ticks' = [ticks EXCEPT ![t] = NoTick]
  /\ UNCHANGED <<now, scheduled, pollJobs>>

PassHalfMinute ==
  /\ now < MaxTime /\ now' = now + 1
  /\ UNCHANGED <<ticks, scheduled, pollJobs>>

SchedulerNext ==
  \/ \E t \in Tickers : BeginTick(t) \/ InsertRun(t) \/ CommitTick(t) \/ AbortTick(t)
  \/ PassHalfMinute

\* A minute polls an owner at most once, and only a minute that its cron
\* expression selects, whichever ticks run late, twice or at once (the unique
\* index on source_runs and the truncated minute decide together).
OnePollPerMinute == \A o \in ScheduledOwners :
  /\ IsInjective([n \in DOMAIN pollJobs[o] |-> pollJobs[o][n] \div 2])
  /\ \A n \in DOMAIN pollJobs[o] : pollJobs[o][n] \in CronTimes[o] \cap scheduled[o]

SchedulerSpec == SchedulerInit /\ [][SchedulerNext]_schedulerVars
=============================================================================
