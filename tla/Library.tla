------------------------------- MODULE Library -------------------------------
(***************************************************************************)
(* What listeners are shown of the episodes the database holds: the list   *)
(* of the player and of the administrator (internal/httpapi/player.go),    *)
(* the podcast feed of a source (internal/httpapi/server.go), which media  *)
(* host they name, and whether what they may start is accepted.  Workers   *)
(* write the rows in any order, as redelivered and stopped jobs do.        *)
(***************************************************************************)
EXTENDS Naturals, FiniteSets

CONSTANTS
  Library,     \* the episodes that may exist
  OwnerOf,     \* episode -> its feed source or subscription
  FeedSources, \* the owners that are feed sources
  ItemDay,     \* episode -> when its feed item appeared
  PodcastAge,  \* owner -> days that the podcast feed reaches back
  HostForms,   \* the hosts of requests: [name, dot, port, upper]
  MediaHosts,  \* public_media_hosts: host name -> origin
  MaxDays      \* bound: time

Owners == {OwnerOf[e] : e \in Library}

ASSUME LibraryAssumption ==
  /\ MaxDays \in Nat /\ FeedSources \subseteq Owners
  /\ ItemDay \in [Library -> Nat] /\ PodcastAge \in [Owners -> Nat]

VARIABLES
  today,     \* the current time
  shelf,     \* episodes: the row of each, or Absent
  enabled,   \* the owners that the configuration in force enables
  waiting,   \* the sources that it makes poll-only
  concealed  \* history: what the administrator hid and has not shown again

libraryVars == <<today, shelf, enabled, waiting, concealed>>

Absent == [status |-> "none", audio |-> "", key |-> FALSE, published |-> 0, hidden |-> FALSE]

\* published is a day, or 0 for none.
LibraryInit ==
  /\ today = 1 /\ shelf = [e \in Library |-> Absent]
  /\ enabled = Owners /\ waiting = {} /\ concealed = {}

-----------------------------------------------------------------------------
Present(e) == shelf[e].status # "none"

\* PollOnlySourceIDs
PollOnlySources == {o \in FeedSources : o \in enabled /\ o \in waiting}

\* COALESCE(e.published_at, f.published_at)
DayOf(e) == IF shelf[e].published # 0 THEN shelf[e].published ELSE ItemDay[e]

\* The episodes of one request; a window is [since, before).
Listed(owners, since, before, hiddenToo) ==
  {e \in Library :
    /\ Present(e) /\ OwnerOf[e] \in owners
    /\ \/ shelf[e].status = "published" /\ shelf[e].audio # ""
       \/ OwnerOf[e] \in PollOnlySources
    /\ hiddenToo \/ ~shelf[e].hidden
    /\ since <= DayOf(e) /\ DayOf(e) < before}

\* The list a listener has who asks for every day.
PublicList == Listed(Owners, 0, MaxDays + 1, FALSE)

\* Mutant: the feed takes what is hidden.
PodcastHiddenToo(o) ==
  {e \in Library :
    /\ OwnerOf[e] = o /\ shelf[e].status = "published" /\ shelf[e].audio # ""
    /\ shelf[e].published + PodcastAge[o] >= today}

\* podcastFeed
Podcast(o) ==
  {e \in Library :
    /\ OwnerOf[e] = o /\ shelf[e].status = "published" /\ shelf[e].audio # ""
    /\ ~shelf[e].hidden
    /\ shelf[e].published + PodcastAge[o] >= today}

\* Mutant: an episode that is tried again is shown as failed.
ShownStateStale(e) ==
  LET s == shelf[e].status
  IN  CASE s = "published" /\ shelf[e].audio # "" -> "ready"
        [] s = "queued" -> "pending"
        [] s \in {"resolving_content", "content_ready", "generating_script", "script_ready",
                  "generating_tts", "composing"} -> "processing"
        [] OTHER -> "failed"

\* playerEpisodeState
ShownState(e) ==
  LET s == shelf[e].status
  IN  CASE s = "published" /\ shelf[e].audio # "" -> "ready"
        [] s = "queued" -> "pending"
        [] s \in {"resolving_content", "content_ready", "generating_script", "script_ready",
                  "generating_tts", "composing", "retrying"} -> "processing"
        [] OTHER -> "failed"

\* normalizeHost: case and the port are dropped, and a trailing dot where no
\* port follows it. Hosts that keep their dot match no entry.
MediaBase(h) ==
  IF h.name \in DOMAIN MediaHosts /\ ~(h.dot /\ h.port) THEN MediaHosts[h.name] ELSE "default"

\* mediaAudioURL
AudioURL(h, e) ==
  IF shelf[e].key THEN <<MediaBase(h), e>> ELSE <<shelf[e].audio, e>>

-----------------------------------------------------------------------------
\* A run of a source finds the episode's item.
Create(e) ==
  /\ ~Present(e) /\ OwnerOf[e] \in FeedSources /\ ItemDay[e] <= today
  /\ shelf' = [shelf EXCEPT ![e] = [Absent EXCEPT !.status = "queued"]]
  /\ UNCHANGED <<today, enabled, waiting, concealed>>

\* A pull mirrors the episode, and dates it as the other deployment does.
Mirror(e) ==
  /\ ~Present(e) /\ OwnerOf[e] \notin FeedSources
  /\ shelf' = [shelf EXCEPT ![e] =
       [Absent EXCEPT !.status = "published", !.audio = "remote", !.published = today]]
  /\ UNCHANGED <<today, enabled, waiting, concealed>>

WorkerStatuses == {"resolving_content", "content_ready", "generating_script", "script_ready",
                   "generating_tts", "composing", "retrying", "failed", "queued"}

\* A worker, the stop command or the retry command stores a status; a job that
\* is delivered again does so for a published episode too.
Work(e, status) ==
  /\ Present(e) /\ OwnerOf[e] \in FeedSources
  /\ shelf' = [shelf EXCEPT ![e].status = status]
  /\ UNCHANGED <<today, enabled, waiting, concealed>>

\* The end of ComposeEpisodeWorker.
Compose(e) ==
  /\ Present(e) /\ OwnerOf[e] \in FeedSources
  /\ shelf' = [shelf EXCEPT ![e].status = "published", ![e].audio = "local",
                            ![e].key = TRUE, ![e].published = today]
  /\ UNCHANGED <<today, enabled, waiting, concealed>>

\* setVisibility: only what is published is hidden or shown.
SetVisibility(e, hide) ==
  /\ shelf[e].status = "published"
  /\ shelf' = [shelf EXCEPT ![e].hidden = hide]
  /\ concealed' = IF hide THEN concealed \cup {e} ELSE concealed \ {e}
  /\ UNCHANGED <<today, enabled, waiting>>

\* StartEpisodeLocked, for a listener.
StartAnswer(e) ==
  CASE ~Present(e) -> "not found"
    [] Present(e) /\ OwnerOf[e] \notin PollOnlySources -> "not startable"
    [] OTHER -> CASE shelf[e].status \in {"queued", "failed"} -> "accepted"
                  [] OTHER -> "generating"

StartHere(e) ==
  /\ StartAnswer(e) = "accepted"
  /\ \E stage \in {"resolving_content", "generating_script", "generating_tts"} :
       /\ shelf[e].status = "queued" => stage = "resolving_content"
       /\ shelf' = [shelf EXCEPT ![e].status = stage]
  /\ UNCHANGED <<today, enabled, waiting, concealed>>

\* Deletion or retention removes the row, and with it that it was hidden.
RemoveRow(e) ==
  /\ Present(e)
  /\ shelf' = [shelf EXCEPT ![e] = Absent] /\ concealed' = concealed \ {e}
  /\ UNCHANGED <<today, enabled, waiting>>

\* The server starts again with another configuration.
Reconfigure(on, lazy) ==
  /\ enabled' = on /\ waiting' = lazy
  /\ UNCHANGED <<today, shelf, concealed>>

PassDay ==
  /\ today < MaxDays /\ today' = today + 1
  /\ UNCHANGED <<shelf, enabled, waiting, concealed>>

LibraryNext ==
  \/ \E e \in Library :
       \/ Create(e) \/ Mirror(e) \/ Compose(e) \/ StartHere(e) \/ RemoveRow(e)
       \/ \E status \in WorkerStatuses : Work(e, status)
       \/ \E hide \in BOOLEAN : SetVisibility(e, hide)
  \/ \E on \in SUBSET Owners, lazy \in SUBSET FeedSources : Reconfigure(on, lazy)
  \/ PassDay

-----------------------------------------------------------------------------
\* A control that the player offers works: what it shows as pending or failed
\* can be started and nothing else can, in whatever order workers, restarts
\* and redelivered jobs wrote the row (playerEpisodeState and the list's
\* query against StartEpisodeLocked).
ShownIsAccepted ==
  \A e \in Listed(Owners, 0, MaxDays + 1, TRUE) :
    ShownState(e) \in {"pending", "failed"} <=> StartAnswer(e) = "accepted"

\* The podcast feed and the player agree: an episode of the feed is in the
\* player's list on its own day and on no other, ready, with the same
\* address for the same host, and nothing that the administrator hid is in
\* either, composed again or not (podcastFeed, episodes, setVisibility).
PlacesAgree ==
  /\ \A o \in Owners : \A e \in Podcast(o) :
       /\ \A d \in 0..MaxDays : e \in Listed({o}, d, d + 1, FALSE) <=> d = shelf[e].published
       /\ ShownState(e) = "ready" /\ e \notin concealed
       /\ \A g, h \in HostForms : g.name = h.name /\ ~(g.dot /\ g.port) /\ ~(h.dot /\ h.port)
            => AudioURL(g, e) = AudioURL(h, e)
  /\ PublicList \cap concealed = {}

LibrarySpec == LibraryInit /\ [][LibraryNext]_libraryVars
=============================================================================
