----------------------------- MODULE FeedIntake -----------------------------
(***************************************************************************)
(* What polls do to the items of their feeds (internal/jobs/               *)
(* poll_source.go) while other polls of the same source, the delete        *)
(* command and its list of ignored items run (internal/app/delete.go).     *)
(* A transaction holds the rows it wrote until it ends; a statement on a   *)
(* row that another transaction holds waits.                               *)
(***************************************************************************)
EXTENDS Naturals, Sequences, SequencesExt

CONSTANTS
  Entries,    \* the items the feeds may list
  Wanted,     \* the items that their source's filter accepts
  Feeds,      \* the lists that feeds may serve, each of one source, newest first
  MaxItems,   \* max_feed_items_per_run
  PollOnly,   \* the items of poll-only sources, which wait for listeners
  Polls       \* bound: polls that run at one time

ASSUME IntakeAssumption ==
  /\ Wanted \subseteq Entries /\ Feeds \subseteq Seq(Entries)
  /\ MaxItems \in Nat \ {0} /\ PollOnly \subseteq Entries

VARIABLES
  episode,  \* the status of the item's episode, "none" where neither has a row
  ignored,  \* ignored_feed_items
  polls,    \* the transaction of each poll
  purge,    \* the delete command
  queued    \* the first jobs that were inserted since the item was stored

intakeVars == <<episode, ignored, polls, purge, queued>>

\* A transaction that has written nothing, and none.
Unwritten(pc, items, skip) ==
  [pc |-> pc, items |-> items, skip |-> skip, writes |-> {}, created |-> {}]
NoPoll  == Unwritten("none", <<>>, {})
NoPurge == [pc |-> "none", targets |-> {}]

IntakeInit ==
  /\ ignored = {} /\ purge = NoPurge
  /\ episode = [i \in Entries |-> "none"]
  /\ queued = [i \in Entries |-> 0]
  /\ polls = [p \in Polls |-> NoPoll]

-----------------------------------------------------------------------------
\* PollSourceWorker.poll: fetch the feed, filter it, and keep the first items.
Kept(feed) == SelectSeq(feed, LAMBDA i : i \in Wanted)

Budgeted(feed, limit) ==
  LET kept == Kept(feed)
  IN  SubSeq(kept, 1, IF Len(kept) < limit THEN Len(kept) ELSE limit)

\* An operator's limit only lowers the configured one; 0 asks for none.
PollLimit(asked) == IF asked > 0 /\ asked < MaxItems THEN asked ELSE MaxItems

\* What the endpoint, the command and the scheduler (0) ask for.
AskedLimits == 0..MaxItems

FetchFeed(p, feed, asked) ==
  /\ polls[p].pc = "none"
  /\ polls' = [polls EXCEPT ![p] = Unwritten("fetched", Budgeted(feed, PollLimit(asked)), {})]
  /\ UNCHANGED <<episode, ignored, purge, queued>>

\* Mutant: the ignored items are not read.
BeginIntakeUnread(p) ==
  /\ polls[p].pc = "fetched"
  /\ polls' = [polls EXCEPT ![p] = Unwritten("storing", polls[p].items, {})]
  /\ UNCHANGED <<episode, ignored, purge, queued>>

\* The transaction begins with the ignored items.
BeginIntake(p) ==
  /\ polls[p].pc = "fetched"
  /\ polls' = [polls EXCEPT ![p] = Unwritten("storing", polls[p].items, ignored)]
  /\ UNCHANGED <<episode, ignored, purge, queued>>

\* Mutant: nothing makes two polls wait for each other.
HeldByPurge(p, i) == purge.pc = "deleted" /\ i \in purge.targets

\* Rows that a transaction has written and not yet committed.
HeldFrom(p, i) == \/ \E q \in Polls \ {p} : i \in polls[q].writes
                  \/ purge.pc = "deleted" /\ i \in purge.targets

\* INSERT INTO episodes ... ON CONFLICT DO NOTHING returns a row.
Fresh(p, i) == episode[i] = "none" /\ i \notin polls[p].writes

\* One item: skipped, inserted with its episode, or refreshed: whether the
\* episode is this poll's is known once no other transaction holds the row.
StoreItem(p) ==
  LET r == polls[p]
      i == Head(r.items)
      Stored(writes, created) == [pc |-> "storing", items |-> Tail(r.items), skip |-> r.skip,
                                  writes |-> writes, created |-> created]
  IN  /\ r.pc = "storing" /\ r.items # <<>>
      /\ \/ i \in r.skip /\ polls' = [polls EXCEPT ![p] = Stored(r.writes, r.created)]
         \/ /\ i \notin r.skip /\ ~HeldFrom(p, i)
            /\ polls' = [polls EXCEPT ![p] = Stored(r.writes \cup {i},
                            IF Fresh(p, i) THEN r.created \cup {i} ELSE r.created)]
      /\ UNCHANGED <<episode, ignored, purge, queued>>

\* What the poll created becomes visible, with a job for each unless the source
\* is poll-only.
CommitIntake(p) ==
  LET created == polls[p].created
  IN  /\ polls[p].pc = "storing" /\ polls[p].items = <<>>
      /\ episode' = [i \in Entries |-> IF i \in created THEN "queued" ELSE episode[i]]
      /\ queued' = [i \in Entries |-> IF i \in created \ PollOnly THEN queued[i] + 1 ELSE queued[i]]
      /\ polls' = [polls EXCEPT ![p] = NoPoll]
      /\ UNCHANGED <<ignored, purge>>

\* A statement fails, PostgreSQL breaks a deadlock, or the worker dies.
AbortIntake(p) ==
  /\ polls[p].pc # "none"
  /\ polls' = [polls EXCEPT ![p] = NoPoll]
  /\ UNCHANGED <<episode, ignored, purge, queued>>

-----------------------------------------------------------------------------
\* The pipeline settles an episode; a listener starts one that waits.
Settle(i, s) ==
  /\ episode[i] = "queued"
  /\ episode' = [episode EXCEPT ![i] = s]
  /\ UNCHANGED <<ignored, polls, purge, queued>>

\* loadDeleteTargets: failed episodes, and with --include-waiting those that
\* wait for a listener.
SelectTargets(waiting) ==
  LET chosen == {i \in Entries : episode[i] = "failed" \/ (waiting /\ i \in PollOnly /\ episode[i] = "queued")}
  IN  /\ purge.pc = "none" /\ chosen # {}
      /\ purge' = [pc |-> "selected", targets |-> chosen]
      /\ UNCHANGED <<episode, ignored, polls, queued>>

\* DELETE FROM episodes and feed_items: waits for the polls that hold a row.
DeleteTargets ==
  /\ purge.pc = "selected"
  /\ \A p \in Polls : polls[p].writes \cap purge.targets = {}
  /\ purge' = [purge EXCEPT !.pc = "deleted"]
  /\ UNCHANGED <<episode, ignored, polls, queued>>

CommitPurge(ignore) ==
  /\ purge.pc = "deleted"
  /\ episode' = [i \in Entries |-> IF i \in purge.targets THEN "none" ELSE episode[i]]
  /\ queued' = [i \in Entries |-> IF i \in purge.targets THEN 0 ELSE queued[i]]
  /\ ignored' = IF ignore THEN ignored \cup purge.targets ELSE ignored
  /\ purge' = NoPurge
  /\ UNCHANGED polls

RollBackPurge ==
  /\ purge.pc # "none"
  /\ purge' = NoPurge
  /\ UNCHANGED <<episode, ignored, polls, queued>>

\* ForgetIgnoredFeedItems.
ForgetIgnored ==
  /\ ignored # {} /\ ignored' = {}
  /\ UNCHANGED <<episode, polls, purge, queued>>

IntakeNext ==
  \/ \E p \in Polls : \/ \E feed \in Feeds, asked \in AskedLimits : FetchFeed(p, feed, asked)
                      \/ BeginIntake(p) \/ StoreItem(p) \/ CommitIntake(p) \/ AbortIntake(p)
  \/ \E i \in Entries, s \in {"failed", "published"} : Settle(i, s)
  \/ \E b \in BOOLEAN : SelectTargets(b) \/ CommitPurge(b)
  \/ DeleteTargets \/ RollBackPurge \/ ForgetIgnored

-----------------------------------------------------------------------------
\* An item has at most one job that generates it, and none when its source
\* waits for listeners, although several polls store the same item at once
\* (poll: ON CONFLICT ... RETURNING decides who enqueues).
OneJobPerItem ==
  \A i \in Entries : queued[i] = IF episode[i] # "none" /\ i \notin PollOnly THEN 1 ELSE 0

\* An ignored item is away when no poll that could still store it is under way.
Away(i) == /\ i \in ignored /\ episode[i] = "none"
           /\ \A p \in Polls : polls[p].pc = "storing" => i \in polls[p].skip

\* Once a deleted item is away, no poll brings it back until the operator
\* forgets the ignored items (delete --ignore, poll: ignoredFeedItemIDs).
IgnoredStaysAway == [][\A i \in Entries : Away(i) /\ i \in ignored' => Away(i)']_intakeVars

IntakeSpec == IntakeInit /\ [][IntakeNext]_intakeVars
=============================================================================
