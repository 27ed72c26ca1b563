---------------------------- MODULE PollingProofs ----------------------------
(***************************************************************************)
(* The theorems about how polls come about and what they store: Scheduler, *)
(* for any sources, cron expressions and number of concurrent ticks, and   *)
(* FeedIntake, for any number of polls, items and feeds and any limits.    *)
(***************************************************************************)
EXTENDS Scheduler, FeedIntake, TLAPS

-----------------------------------------------------------------------------
(* Scheduler: no minute polls a source twice. *)

TickRecords == [pc : {"none", "open"}, minute : Nat, due : Seq(ScheduledOwners),
                written : SUBSET ScheduledOwners]

SchedulerTypeOK ==
  /\ now \in 0..MaxTime
  /\ ticks \in [Tickers -> TickRecords]
  /\ scheduled \in [ScheduledOwners -> SUBSET Nat]
  /\ pollJobs \in [ScheduledOwners -> Seq(Nat)]

\* A tick that wrote a run is the only one to have written that minute's, and
\* the minute is one of the owner's.
MinutesHeld ==
  /\ \A t \in Tickers : \A o \in ticks[t].written :
       ticks[t].minute \in CronTimes[o] \ scheduled[o]
  /\ \A t, u \in Tickers : \A o \in ticks[t].written :
       o \in ticks[u].written /\ ticks[u].minute = ticks[t].minute => t = u

\* Every job is that of a run that is stored, and each run has one.
JobPerMinute == \A o \in ScheduledOwners :
  /\ \A n \in DOMAIN pollJobs[o] : pollJobs[o][n] \in CronTimes[o] \cap scheduled[o]
  /\ \A m, n \in DOMAIN pollJobs[o] : pollJobs[o][m] = pollJobs[o][n] => m = n

SchedulerInv == SchedulerTypeOK /\ MinutesHeld /\ JobPerMinute

-----------------------------------------------------------------------------
LEMMA OneTick ==
  ASSUME SchedulerInv, NEW t \in Tickers, NEW r \in TickRecords, ticks' = [ticks EXCEPT ![t] = r],
         UNCHANGED <<now, scheduled, pollJobs>>
  PROVE  /\ SchedulerTypeOK' /\ JobPerMinute'
         /\ ticks'[t] = r /\ \A u \in Tickers : u # t => ticks'[u] = ticks[u]
  BY DEF SchedulerInv, SchedulerTypeOK, JobPerMinute

\* A tick that has written nothing disturbs nobody.
LEMMA UnwrittenKeeps ==
  ASSUME SchedulerInv, NEW t \in Tickers, NEW r \in TickRecords, r.written = {},
         ticks' = [ticks EXCEPT ![t] = r], UNCHANGED <<now, scheduled, pollJobs>>
  PROVE  SchedulerInv'
<1>1. MinutesHeld'
  BY OneTick DEF SchedulerInv, MinutesHeld
<1> QED
  BY <1>1, OneTick DEF SchedulerInv

LEMMA NoTickTyped == NoTick \in TickRecords /\ NoTick.written = {}
  BY DEF NoTick, TickRecords

LEMMA BeginTickKeeps ==
  ASSUME SchedulerInv, NEW t \in Tickers, BeginTick(t)
  PROVE  SchedulerInv'
<1> DEFINE r == [pc |-> "open", minute |-> Truncated(now), due |-> Scheduled, written |-> {}]
<1>1. Truncated(now) \in Nat
  <2>1. now \in Nat
    BY SchedulerAssumption DEF SchedulerInv, SchedulerTypeOK
  <2>2. \A n \in Nat : n - (n % 2) \in Nat
    OBVIOUS
  <2> QED
    BY <2>1, <2>2 DEF Truncated
<1>2. r \in TickRecords /\ r.written = {}
  BY <1>1, SchedulerAssumption DEF TickRecords
<1> HIDE DEF r
<1> QED
  BY <1>2, UnwrittenKeeps DEF BeginTick, r

LEMMA InsertKeeps ==
  ASSUME SchedulerInv, NEW t \in Tickers, InsertRun(t)
  PROVE  SchedulerInv'
<1> DEFINE r == ticks[t]
           o == Head(r.due)
           Rest(written) == [pc |-> "open", minute |-> r.minute, due |-> Tail(r.due), written |-> written]
<1>1. /\ r \in TickRecords /\ r.due # <<>> /\ o \in ScheduledOwners
      /\ Tail(r.due) \in Seq(ScheduledOwners) /\ r.minute \in Nat /\ r.written \subseteq ScheduledOwners
      /\ UNCHANGED <<now, scheduled, pollJobs>>
  BY DEF SchedulerInv, SchedulerTypeOK, InsertRun, TickRecords
<1>2. ASSUME NEW w \in SUBSET ScheduledOwners
      PROVE  Rest(w) \in TickRecords /\ Rest(w).written = w /\ Rest(w).minute = r.minute
  BY <1>1 DEF TickRecords
<1>3. \/ ticks' = [ticks EXCEPT ![t] = Rest(r.written)]
      \/ /\ CronMatches(o, r.minute) /\ ~MinuteHeld(t, o) /\ r.minute \notin scheduled[o]
         /\ ticks' = [ticks EXCEPT ![t] = Rest(r.written \cup {o})]
  BY DEF InsertRun
<1> HIDE DEF Rest, r, o
<1>4. CASE ticks' = [ticks EXCEPT ![t] = Rest(r.written)]
  <2>1. /\ ticks'[t].written = r.written /\ ticks'[t].minute = r.minute
        /\ \A u \in Tickers : u # t => ticks'[u] = ticks[u]
        /\ SchedulerTypeOK' /\ JobPerMinute'
    <3>1. Rest(r.written) \in TickRecords /\ Rest(r.written).written = r.written /\ Rest(r.written).minute = r.minute
      <4>1. r.written \in SUBSET ScheduledOwners
        BY <1>1
      <4> QED
        BY <4>1, <1>2
    <3>2. /\ ticks'[t] = Rest(r.written) /\ \A u \in Tickers : u # t => ticks'[u] = ticks[u]
          /\ SchedulerTypeOK' /\ JobPerMinute'
      BY <1>1, <3>1, <1>4, OneTick
    <3> QED
      BY <3>1, <3>2
  <2>2. MinutesHeld'
    BY <1>1, <2>1 DEF SchedulerInv, MinutesHeld, r
  <2> QED
    BY <2>1, <2>2 DEF SchedulerInv
<1>5. CASE /\ CronMatches(o, r.minute) /\ ~MinuteHeld(t, o) /\ r.minute \notin scheduled[o]
           /\ ticks' = [ticks EXCEPT ![t] = Rest(r.written \cup {o})]
  <2>1. /\ ticks'[t].written = r.written \cup {o} /\ ticks'[t].minute = r.minute
        /\ \A u \in Tickers : u # t => ticks'[u] = ticks[u]
        /\ SchedulerTypeOK' /\ JobPerMinute'
    <3>1. Rest(r.written \cup {o}) \in TickRecords /\ Rest(r.written \cup {o}).written = r.written \cup {o} /\ Rest(r.written \cup {o}).minute = r.minute
      <4>1. r.written \cup {o} \in SUBSET ScheduledOwners
        BY <1>1
      <4> QED
        BY <4>1, <1>2
    <3>2. /\ ticks'[t] = Rest(r.written \cup {o}) /\ \A u \in Tickers : u # t => ticks'[u] = ticks[u]
          /\ SchedulerTypeOK' /\ JobPerMinute'
      BY <1>1, <3>1, <1>5, OneTick
    <3> QED
      BY <3>1, <3>2
  <2>2. r.minute \in CronTimes[o] \ scheduled[o]
    BY <1>5 DEF CronMatches, IsNext
  <2>3. \A u \in Tickers : u # t => ~(o \in ticks[u].written /\ ticks[u].minute = r.minute)
    BY <1>5 DEF MinuteHeld, r
  <2>4. MinutesHeld'
    BY <1>1, <2>1, <2>2, <2>3 DEF SchedulerInv, MinutesHeld, r
  <2> QED
    BY <2>1, <2>4 DEF SchedulerInv
<1> QED
  BY <1>3, <1>4, <1>5

LEMMA Appended ==
  ASSUME NEW s \in Seq(Nat), NEW x \in Nat
  PROVE  /\ Len(s) \in Nat /\ DOMAIN s = 1..Len(s)
         /\ DOMAIN Append(s, x) = 1..(Len(s) + 1)
         /\ Append(s, x)[Len(s) + 1] = x
         /\ \A n \in 1..Len(s) : Append(s, x)[n] = s[n]
  OBVIOUS

LEMMA CommitTickKeeps ==
  ASSUME SchedulerInv, NEW t \in Tickers, CommitTick(t)
  PROVE  SchedulerInv'
<1> DEFINE r == ticks[t]
<1>1. /\ r.minute \in Nat /\ r.written \subseteq ScheduledOwners
      /\ now' = now /\ ticks' = [ticks EXCEPT ![t] = NoTick]
      /\ \A o \in ScheduledOwners :
           /\ scheduled'[o] = IF o \in r.written THEN scheduled[o] \cup {r.minute} ELSE scheduled[o]
           /\ pollJobs'[o] = IF o \in r.written THEN Append(pollJobs[o], r.minute) ELSE pollJobs[o]
  BY DEF SchedulerInv, SchedulerTypeOK, CommitTick, TickRecords
<1>2. /\ ticks'[t].written = {} /\ \A u \in Tickers : u # t => ticks'[u] = ticks[u]
      /\ ticks' \in [Tickers -> TickRecords]
  BY <1>1, NoTickTyped DEF SchedulerInv, SchedulerTypeOK
<1>3. SchedulerTypeOK'
  <2>1. scheduled' \in [ScheduledOwners -> SUBSET Nat]
    BY <1>1 DEF SchedulerInv, SchedulerTypeOK, CommitTick
  <2>2. pollJobs' \in [ScheduledOwners -> Seq(Nat)]
    BY <1>1 DEF SchedulerInv, SchedulerTypeOK, CommitTick
  <2> QED
    BY <1>1, <1>2, <2>1, <2>2 DEF SchedulerInv, SchedulerTypeOK
<1>4. MinutesHeld'
  <2>1. ASSUME NEW u \in Tickers, NEW o \in ticks'[u].written
        PROVE  ticks'[u].minute \in CronTimes[o] \ scheduled'[o]
    <3>1. u # t /\ ticks'[u] = ticks[u] /\ o \in ScheduledOwners
      BY <1>2, <2>1 DEF SchedulerInv, SchedulerTypeOK, TickRecords
    <3>2. o \in r.written => ticks[u].minute # r.minute
      BY <2>1, <3>1 DEF SchedulerInv, MinutesHeld
    <3>3. ticks[u].minute \in CronTimes[o] \ scheduled[o]
      BY <2>1, <3>1 DEF SchedulerInv, MinutesHeld
    <3>4. CASE o \in r.written
      BY <1>1, <3>1, <3>2, <3>3, <3>4
    <3>5. CASE o \notin r.written
      BY <1>1, <3>1, <3>3, <3>5
    <3> QED
      BY <3>4, <3>5
  <2>2. ASSUME NEW u \in Tickers, NEW v \in Tickers, NEW o \in ticks'[u].written,
               o \in ticks'[v].written, ticks'[v].minute = ticks'[u].minute
        PROVE  u = v
    BY <1>2, <2>2 DEF SchedulerInv, MinutesHeld
  <2> QED
    BY <2>1, <2>2 DEF MinutesHeld
<1>5. JobPerMinute'
  <2> SUFFICES ASSUME NEW o \in ScheduledOwners
               PROVE  /\ \A n \in DOMAIN pollJobs'[o] : pollJobs'[o][n] \in CronTimes[o] \cap scheduled'[o]
                      /\ \A m, n \in DOMAIN pollJobs'[o] : pollJobs'[o][m] = pollJobs'[o][n] => m = n
    BY DEF JobPerMinute
  <2>1. /\ pollJobs[o] \in Seq(Nat)
        /\ \A n \in DOMAIN pollJobs[o] : pollJobs[o][n] \in CronTimes[o] \cap scheduled[o]
        /\ \A m, n \in DOMAIN pollJobs[o] : pollJobs[o][m] = pollJobs[o][n] => m = n
    BY DEF SchedulerInv, SchedulerTypeOK, JobPerMinute
  <2>2. CASE o \notin r.written
    BY <1>1, <2>1, <2>2
  <2>3. CASE o \in r.written
    <3>1. r.minute \in CronTimes[o] /\ r.minute \notin scheduled[o]
      BY <2>3 DEF SchedulerInv, MinutesHeld
    <3>2. /\ DOMAIN pollJobs'[o] = 1..(Len(pollJobs[o]) + 1) /\ Len(pollJobs[o]) \in Nat
          /\ DOMAIN pollJobs[o] = 1..Len(pollJobs[o])
          /\ pollJobs'[o][Len(pollJobs[o]) + 1] = r.minute
          /\ \A n \in 1..Len(pollJobs[o]) : pollJobs'[o][n] = pollJobs[o][n]
      <4>1. pollJobs'[o] = Append(pollJobs[o], r.minute)
        BY <1>1, <2>3
      <4> QED
        BY <1>1, <2>1, <4>1, Appended
    <3>3. scheduled'[o] = scheduled[o] \cup {r.minute}
      BY <1>1, <2>3
    <3>4. \A n \in 1..(Len(pollJobs[o]) + 1) :
            n \in 1..Len(pollJobs[o]) \/ n = Len(pollJobs[o]) + 1
      BY <3>2
    <3>5. \A n \in DOMAIN pollJobs'[o] : pollJobs'[o][n] \in CronTimes[o] \cap scheduled'[o]
      BY <2>1, <3>1, <3>2, <3>3, <3>4
    <3>6. \A m, n \in DOMAIN pollJobs'[o] : pollJobs'[o][m] = pollJobs'[o][n] => m = n
      <4>1. \A n \in 1..Len(pollJobs[o]) : pollJobs[o][n] # r.minute
        BY <2>1, <3>1, <3>2
      <4> SUFFICES ASSUME NEW m \in 1..(Len(pollJobs[o]) + 1), NEW n \in 1..(Len(pollJobs[o]) + 1),
                          pollJobs'[o][m] = pollJobs'[o][n]
                   PROVE  m = n
        BY <3>2
      <4>2. CASE m \in 1..Len(pollJobs[o]) /\ n \in 1..Len(pollJobs[o])
        BY <2>1, <3>2, <4>2
      <4>3. CASE m = Len(pollJobs[o]) + 1 \/ n = Len(pollJobs[o]) + 1
        BY <3>2, <3>4, <4>1, <4>3
      <4> QED
        BY <3>4, <4>2, <4>3
    <3> QED
      BY <3>5, <3>6
  <2> QED
    BY <2>2, <2>3
<1> QED
  BY <1>3, <1>4, <1>5 DEF SchedulerInv

-----------------------------------------------------------------------------
LEMMA SchedulerInit_Inv == SchedulerInit => SchedulerInv
<1> SUFFICES ASSUME SchedulerInit PROVE SchedulerInv
  OBVIOUS
<1>1. SchedulerTypeOK
  BY NoTickTyped, SchedulerAssumption DEF SchedulerInit, SchedulerTypeOK
<1> QED
  BY <1>1, NoTickTyped DEF SchedulerInit, SchedulerInv, MinutesHeld, JobPerMinute

\* Different times that are whole minutes are different minutes.
LEMMA WholeMinutes ==
  ASSUME SchedulerInv
  PROVE  OnePollPerMinute
<1> SUFFICES ASSUME NEW o \in ScheduledOwners
             PROVE  /\ IsInjective([n \in DOMAIN pollJobs[o] |-> pollJobs[o][n] \div 2])
                    /\ \A n \in DOMAIN pollJobs[o] : pollJobs[o][n] \in CronTimes[o] \cap scheduled[o]
  BY DEF OnePollPerMinute
<1>1. /\ \A n \in DOMAIN pollJobs[o] : pollJobs[o][n] \in CronTimes[o] \cap scheduled[o]
      /\ \A m, n \in DOMAIN pollJobs[o] : pollJobs[o][m] = pollJobs[o][n] => m = n
  BY DEF SchedulerInv, JobPerMinute
<1>2. \A a \in CronTimes[o] : a \in Nat /\ a % 2 = 0
  BY SchedulerAssumption
<1>3. \A a, b \in Nat : a % 2 = 0 /\ b % 2 = 0 /\ a \div 2 = b \div 2 => a = b
  OBVIOUS
<1>4. \A m, n \in DOMAIN pollJobs[o] : pollJobs[o][m] \div 2 = pollJobs[o][n] \div 2 => m = n
  BY <1>1, <1>2, <1>3
<1> QED
  BY <1>1, <1>4 DEF IsInjective

\* Whatever ticks are late, run twice or run in two processes at once: every
\* minute that a cron expression selects polls its owner once at most, and no
\* other minute does.
THEOREM OnceAMinute == SchedulerSpec => []OnePollPerMinute
<1>1. SchedulerInv /\ [SchedulerNext]_schedulerVars => SchedulerInv'
  <2> SUFFICES ASSUME SchedulerInv, [SchedulerNext]_schedulerVars PROVE SchedulerInv'
    OBVIOUS
  <2>1. ASSUME NEW t \in Tickers, BeginTick(t) \/ InsertRun(t) \/ CommitTick(t)
        PROVE  SchedulerInv'
    BY <2>1, BeginTickKeeps, InsertKeeps, CommitTickKeeps
  <2>2. ASSUME NEW t \in Tickers, AbortTick(t)
        PROVE  SchedulerInv'
    BY <2>2, NoTickTyped, UnwrittenKeeps DEF AbortTick
  <2>3. CASE PassHalfMinute
    BY <2>3, SchedulerAssumption
       DEF SchedulerInv, SchedulerTypeOK, MinutesHeld, JobPerMinute, PassHalfMinute
  <2>4. CASE UNCHANGED schedulerVars
    BY <2>4 DEF SchedulerInv, SchedulerTypeOK, MinutesHeld, JobPerMinute, schedulerVars
  <2> QED
    BY <2>1, <2>2, <2>3, <2>4 DEF SchedulerNext
<1> QED
  BY <1>1, SchedulerInit_Inv, WholeMinutes, PTL DEF SchedulerSpec
-----------------------------------------------------------------------------
(* FeedIntake: an item is queued by one poll, or ignored for good. *)

IntakeTypeOK ==
  /\ episode \in [Entries -> {"none", "queued", "failed", "published"}]
  /\ queued \in [Entries -> Nat]
  /\ DOMAIN polls = Polls /\ polls = [p \in DOMAIN polls |-> polls[p]]
  /\ purge \in [pc : {"none", "selected", "deleted"}, targets : SUBSET Entries]

\* A row has one writer at a time; what a poll created nobody else sees yet,
\* and nothing it writes is an item it skips.
RowsHeld ==
  /\ \A p \in Polls :
       /\ polls[p].created \subseteq polls[p].writes
       /\ polls[p].writes \cap polls[p].skip = {}
       /\ \A i \in Entries : i \in polls[p].created => episode[i] = "none"
       /\ polls[p].pc # "storing" => polls[p].writes = {}
       /\ purge.pc = "deleted" => polls[p].writes \cap purge.targets = {}
  /\ \A p, q \in Polls : p # q => polls[p].writes \cap polls[q].writes = {}

IntakeInv == IntakeTypeOK /\ RowsHeld /\ OneJobPerItem

-----------------------------------------------------------------------------
(* Every step of a poll replaces its own transaction only. *)

LEMMA OnePoll ==
  ASSUME IntakeTypeOK, NEW p \in Polls, NEW r, polls' = [polls EXCEPT ![p] = r]
  PROVE  /\ DOMAIN polls' = Polls /\ polls' = [q \in DOMAIN polls' |-> polls'[q]]
         /\ polls'[p] = r /\ \A q \in Polls : q # p => polls'[q] = polls[q]
  BY DEF IntakeTypeOK

\* A transaction that has written nothing disturbs nobody.
LEMMA RestKeeps ==
  ASSUME IntakeInv, NEW p \in Polls, NEW pc, NEW items, NEW skip,
         polls' = [polls EXCEPT ![p] = Unwritten(pc, items, skip)],
         UNCHANGED <<episode, queued, purge>>
  PROVE  IntakeInv'
<1>1. polls'[p].writes = {} /\ polls'[p].created = {}
  BY OnePoll DEF IntakeInv, Unwritten
<1>2. IntakeTypeOK'
  BY OnePoll DEF IntakeInv, IntakeTypeOK
<1>3. RowsHeld'
  BY <1>1, OnePoll DEF IntakeInv, RowsHeld
<1> QED
  BY <1>2, <1>3 DEF IntakeInv, OneJobPerItem

LEMMA StoreKeeps ==
  ASSUME IntakeInv, NEW p \in Polls, StoreItem(p)
  PROVE  IntakeInv'
<1> DEFINE r == polls[p]  i == Head(polls[p].items)
<1>1. UNCHANGED <<episode, queued, purge>> /\ r.pc = "storing"
  BY DEF StoreItem
<1>2. CASE i \in r.skip
  <2>1. PICK s : /\ polls' = [polls EXCEPT ![p] = s]
                 /\ s.pc = "storing" /\ s.skip = r.skip /\ s.writes = r.writes /\ s.created = r.created
    BY <1>2 DEF StoreItem
  <2>2. IntakeTypeOK' /\ polls'[p] = s /\ \A q \in Polls : q # p => polls'[q] = polls[q]
    BY <1>1, <2>1, OnePoll DEF IntakeInv, IntakeTypeOK
  <2> QED
    BY <1>1, <2>1, <2>2 DEF IntakeInv, RowsHeld, OneJobPerItem
<1>3. CASE i \notin r.skip
  <2>1. ~HeldFrom(p, i)
    BY <1>3 DEF StoreItem
  <2> DEFINE created == IF Fresh(p, i) THEN r.created \cup {i} ELSE r.created
             s == [pc |-> "storing", items |-> Tail(r.items), skip |-> r.skip,
                   writes |-> r.writes \cup {i}, created |-> created]
  <2>a. polls' = [polls EXCEPT ![p] = s]
    BY <1>3 DEF StoreItem
  <2>b. created = r.created \/ (created = r.created \cup {i} /\ episode[i] = "none")
    BY DEF Fresh
  <2>2. /\ s.pc = "storing" /\ s.skip = r.skip /\ s.writes = r.writes \cup {i}
        /\ s.created = created
    OBVIOUS
  <2> HIDE DEF created, s
  <2>3. IntakeTypeOK' /\ polls'[p] = s /\ \A q \in Polls : q # p => polls'[q] = polls[q]
    BY <1>1, <2>a, OnePoll DEF IntakeInv, IntakeTypeOK
  <2>4. /\ \A q \in Polls : q # p => i \notin polls[q].writes
        /\ purge.pc = "deleted" => i \notin purge.targets
    BY <2>1 DEF HeldFrom
  <2>5. RowsHeld'
    BY <1>1, <1>3, <2>b, <2>2, <2>3, <2>4 DEF IntakeInv, RowsHeld
  <2> QED
    BY <1>1, <2>3, <2>5 DEF IntakeInv, OneJobPerItem
<1> QED
  BY <1>2, <1>3

LEMMA CommitKeeps ==
  ASSUME IntakeInv, NEW p \in Polls, CommitIntake(p)
  PROVE  IntakeInv'
<1>1. /\ polls' = [polls EXCEPT ![p] = NoPoll] /\ purge' = purge
      /\ \A i \in Entries :
           /\ episode'[i] = IF i \in polls[p].created THEN "queued" ELSE episode[i]
           /\ queued'[i] = IF i \in polls[p].created \ PollOnly THEN queued[i] + 1 ELSE queued[i]
  BY DEF CommitIntake
<1>2. polls'[p].writes = {} /\ polls'[p].created = {} /\ \A q \in Polls : q # p => polls'[q] = polls[q]
  BY <1>1, OnePoll DEF IntakeInv, NoPoll, Unwritten
<1>a. /\ episode' \in [Entries -> {"none", "queued", "failed", "published"}]
      /\ queued' \in [Entries -> Nat]
  BY DEF IntakeInv, IntakeTypeOK, CommitIntake
<1>3. IntakeTypeOK'
  BY <1>1, <1>a, OnePoll DEF IntakeInv, IntakeTypeOK
<1>4. RowsHeld'
  BY <1>1, <1>2 DEF IntakeInv, RowsHeld
<1>5. OneJobPerItem'
  <2> SUFFICES ASSUME NEW i \in Entries
               PROVE  queued'[i] = IF episode'[i] # "none" /\ i \notin PollOnly THEN 1 ELSE 0
    BY DEF OneJobPerItem
  <2>1. i \in polls[p].created => episode[i] = "none"
    BY DEF IntakeInv, RowsHeld
  <2> QED
    BY <1>1, <2>1 DEF IntakeInv, OneJobPerItem
<1> QED
  BY <1>3, <1>4, <1>5 DEF IntakeInv

-----------------------------------------------------------------------------
(* The operator *)

LEMMA PurgeKeeps ==
  ASSUME IntakeInv, NEW waiting, SelectTargets(waiting) \/ DeleteTargets \/ RollBackPurge
  PROVE  IntakeInv'
<1>1. UNCHANGED <<episode, queued, polls>>
  BY DEF SelectTargets, DeleteTargets, RollBackPurge
<1>2. IntakeTypeOK'
  BY <1>1 DEF IntakeInv, IntakeTypeOK, SelectTargets, DeleteTargets, RollBackPurge, NoPurge
<1>3. RowsHeld'
  BY <1>1 DEF IntakeInv, IntakeTypeOK, RowsHeld, SelectTargets, DeleteTargets, RollBackPurge, NoPurge
<1> QED
  BY <1>1, <1>2, <1>3 DEF IntakeInv, OneJobPerItem

LEMMA CommitPurgeKeeps ==
  ASSUME IntakeInv, NEW ignore, CommitPurge(ignore)
  PROVE  IntakeInv'
<1>1. /\ polls' = polls /\ purge' = NoPurge
      /\ \A i \in Entries :
           /\ episode'[i] = IF i \in purge.targets THEN "none" ELSE episode[i]
           /\ queued'[i] = IF i \in purge.targets THEN 0 ELSE queued[i]
  BY DEF CommitPurge
<1>2. IntakeTypeOK'
  BY <1>1 DEF IntakeInv, IntakeTypeOK, CommitPurge, NoPurge
<1>3. RowsHeld'
  BY <1>1 DEF IntakeInv, RowsHeld, NoPurge
<1> QED
  BY <1>1, <1>2, <1>3 DEF IntakeInv, OneJobPerItem

LEMMA SettleKeeps ==
  ASSUME IntakeInv, NEW i \in Entries, NEW s \in {"failed", "published"}, Settle(i, s)
  PROVE  IntakeInv'
<1>1. /\ UNCHANGED <<polls, purge, queued>> /\ episode[i] = "queued" /\ episode'[i] # "none"
      /\ \A d \in Entries : d # i => episode'[d] = episode[d]
  BY DEF IntakeInv, IntakeTypeOK, Settle
<1>2. IntakeTypeOK'
  BY <1>1 DEF IntakeInv, IntakeTypeOK, Settle
<1>3. RowsHeld'
  BY <1>1 DEF IntakeInv, RowsHeld
<1>4. OneJobPerItem'
  BY <1>1 DEF IntakeInv, OneJobPerItem
<1> QED
  BY <1>2, <1>3, <1>4 DEF IntakeInv

-----------------------------------------------------------------------------
LEMMA IntakeInit_Inv == IntakeInit => IntakeInv
  BY DEF IntakeInit, IntakeInv, IntakeTypeOK, RowsHeld, OneJobPerItem, NoPoll, Unwritten, NoPurge

LEMMA IntakeNext_Inv == IntakeInv /\ [IntakeNext]_intakeVars => IntakeInv'
<1> SUFFICES ASSUME IntakeInv, [IntakeNext]_intakeVars PROVE IntakeInv'
  OBVIOUS
<1>1. ASSUME NEW p \in Polls, NEW feed \in Feeds, NEW asked \in AskedLimits, FetchFeed(p, feed, asked)
      PROVE  IntakeInv'
  BY <1>1, RestKeeps DEF FetchFeed
<1>2. ASSUME NEW p \in Polls, BeginIntake(p) \/ AbortIntake(p)
      PROVE  IntakeInv'
  BY <1>2, RestKeeps DEF BeginIntake, AbortIntake, NoPoll
<1>3. ASSUME NEW p \in Polls, StoreItem(p) \/ CommitIntake(p)
      PROVE  IntakeInv'
  BY <1>3, StoreKeeps, CommitKeeps
<1>4. ASSUME NEW i \in Entries, NEW s \in {"failed", "published"}, Settle(i, s)
      PROVE  IntakeInv'
  BY <1>4, SettleKeeps
<1>5. ASSUME NEW b \in BOOLEAN, SelectTargets(b) \/ CommitPurge(b)
      PROVE  IntakeInv'
  BY <1>5, PurgeKeeps, CommitPurgeKeeps
<1>6. CASE DeleteTargets \/ RollBackPurge
  BY <1>6, PurgeKeeps
<1>7. CASE ForgetIgnored \/ UNCHANGED intakeVars
  BY <1>7 DEF IntakeInv, IntakeTypeOK, RowsHeld, OneJobPerItem, ForgetIgnored, intakeVars
<1> QED
  BY <1>1, <1>2, <1>3, <1>4, <1>5, <1>6, <1>7 DEF IntakeNext

\* However many polls store the same item at once, while episodes settle and
\* the operator deletes them: an item has one job, or none when it waits for
\* a listener.
THEOREM OneJobEach == IntakeSpec => []OneJobPerItem
<1>1. IntakeInv => OneJobPerItem
  BY DEF IntakeInv
<1> QED
  BY <1>1, IntakeInit_Inv, IntakeNext_Inv, PTL DEF IntakeSpec

-----------------------------------------------------------------------------
LEMMA StaysAway ==
  ASSUME IntakeInv, [IntakeNext]_intakeVars, NEW i \in Entries, Away(i), i \in ignored'
  PROVE  Away(i)'
<1>1. \A p \in Polls : i \notin polls[p].created
  BY DEF IntakeInv, RowsHeld, Away
<1>2. ASSUME NEW p \in Polls, NEW feed, NEW asked, FetchFeed(p, feed, asked)
      PROVE  Away(i)'
  BY <1>2, OnePoll DEF IntakeInv, Away, FetchFeed, Unwritten
<1>3. ASSUME NEW p \in Polls, BeginIntake(p) \/ AbortIntake(p)
      PROVE  Away(i)'
  BY <1>3, OnePoll DEF IntakeInv, Away, BeginIntake, AbortIntake, NoPoll, Unwritten
<1>4. ASSUME NEW p \in Polls, StoreItem(p)
      PROVE  Away(i)'
  <2>1. PICK s : polls' = [polls EXCEPT ![p] = s] /\ s.skip = polls[p].skip
    BY <1>4 DEF StoreItem
  <2>2. polls[p].pc = "storing" /\ UNCHANGED <<episode, ignored>>
    BY <1>4 DEF StoreItem
  <2> QED
    BY <2>1, <2>2, OnePoll DEF IntakeInv, Away
<1>5. ASSUME NEW p \in Polls, CommitIntake(p)
      PROVE  Away(i)'
  BY <1>1, <1>5, OnePoll DEF IntakeInv, Away, CommitIntake, NoPoll, Unwritten
<1>6. ASSUME NEW d \in Entries, NEW s, Settle(d, s)
      PROVE  Away(i)'
  BY <1>6 DEF IntakeInv, IntakeTypeOK, Away, Settle
<1>7. ASSUME NEW b, SelectTargets(b) \/ CommitPurge(b) \/ DeleteTargets \/ RollBackPurge
      PROVE  Away(i)'
  BY <1>7 DEF Away, SelectTargets, CommitPurge, DeleteTargets, RollBackPurge
<1>8. CASE ForgetIgnored \/ UNCHANGED intakeVars
  BY <1>8 DEF Away, ForgetIgnored, intakeVars
<1> QED
  BY <1>2, <1>3, <1>4, <1>5, <1>6, <1>7, <1>8 DEF IntakeNext

\* An item that was deleted with --ignore, and that no poll under way may still
\* store, does not come back before the operator forgets it.
THEOREM IgnoredForGood == IntakeSpec => IgnoredStaysAway
<1>1. IntakeInv /\ [IntakeNext]_intakeVars
        => [\A i \in Entries : Away(i) /\ i \in ignored' => Away(i)']_intakeVars
  BY StaysAway
<1> QED
  BY <1>1, IntakeInit_Inv, IntakeNext_Inv, PTL DEF IntakeSpec, IgnoredStaysAway
=============================================================================
