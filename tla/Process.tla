------------------------------- MODULE Process -------------------------------
(***************************************************************************)
(* A process of the deployment from its start to its end                   *)
(* (internal/app/app.go: serve, worker, run): the database pool, the job   *)
(* client, the two HTTP servers with their goroutines and the channel that *)
(* carries their errors (internal/httpapi/server.go), and the shutdown.    *)
(***************************************************************************)
EXTENDS Naturals, Sequences

VARIABLES
  command,   \* serve, worker or run
  at,        \* what the main goroutine does next
  signalled, \* whether the context of the process is cancelled
  pool,      \* the database pool
  river,     \* the job client: off, fetching, or stopped
  server,    \* the goroutine of each server
  shut,      \* the servers that Shutdown was called on
  errCh      \* the channel of Run

processVars == <<command, at, signalled, pool, river, server, shut, errCh>>

HTTPServers == {"player", "management"}
\* Mutant: the channel holds one error.
ErrChSizeOne == 1

ErrChSize == 2

ProcessInit ==
  /\ command = "none" /\ at = "open" /\ signalled = FALSE /\ pool = "none" /\ river = "off"
  /\ server = [s \in HTTPServers |-> "none"]
  /\ shut = {} /\ errCh = <<>>

\* database.Open, and newRiverClient with what it refuses.
OpenPool(c) ==
  /\ at = "open" /\ command' = c
  /\ \/ pool' = "open" /\ at' \in {IF c = "serve" THEN "spawn" ELSE "river", "close"}
     \/ pool' = "none" /\ at' = "exited"
  /\ UNCHANGED <<signalled, river, server, shut, errCh>>

StartRiver ==
  /\ at = "river"
  /\ \/ river' = "fetching" /\ at' = IF command = "worker" THEN "await" ELSE "spawn"
     \/ river' = river /\ at' = "close"
  /\ UNCHANGED <<command, signalled, pool, server, shut, errCh>>

\* The context given to the client ends its fetching, too.
RiverHears ==
  /\ river = "fetching" /\ signalled /\ river' = "stopped"
  /\ UNCHANGED <<command, at, signalled, pool, server, shut, errCh>>

Signal ==
  /\ ~signalled /\ signalled' = TRUE
  /\ UNCHANGED <<command, at, pool, river, server, shut, errCh>>

Await ==
  /\ at = "await" /\ signalled /\ at' = "stopRiver"
  /\ UNCHANGED <<command, signalled, pool, river, server, shut, errCh>>

-----------------------------------------------------------------------------
\* Run of the HTTP servers: a goroutine each, then the first of a signal and
\* a server's end.
Spawn ==
  /\ at = "spawn" /\ at' = "select" /\ server' = [s \in HTTPServers |-> "spawned"]
  /\ UNCHANGED <<command, signalled, pool, river, shut, errCh>>

\* ListenAndServe: refuses after Shutdown, and fails on a port that is taken.
Listen(s) ==
  /\ server[s] = "spawned"
  /\ \E next \in (IF s \in shut THEN {"send"} ELSE {"listening", "send"}) :
       server' = [server EXCEPT ![s] = next]
  /\ UNCHANGED <<command, at, signalled, pool, river, shut, errCh>>

\* The listener breaks, and ListenAndServe returns.
Unlisten(s) ==
  /\ server[s] = "listening" /\ server' = [server EXCEPT ![s] = "send"]
  /\ UNCHANGED <<command, at, signalled, pool, river, shut, errCh>>

Send(s) ==
  /\ server[s] = "send" /\ Len(errCh) < ErrChSize
  /\ errCh' = Append(errCh, s) /\ server' = [server EXCEPT ![s] = "ended"]
  /\ UNCHANGED <<command, at, signalled, pool, river, shut>>

Select ==
  /\ at = "select" /\ at' = "player"
  /\ \/ signalled /\ errCh' = errCh
     \/ errCh # <<>> /\ errCh' = Tail(errCh)
  /\ UNCHANGED <<command, signalled, pool, river, server, shut>>

\* shutdown: Shutdown closes the listener at once ...
Shutdown(s) ==
  /\ at = s /\ s \notin shut
  /\ shut' = shut \cup {s}
  /\ server' = [server EXCEPT ![s] = IF @ = "listening" THEN "send" ELSE @]
  /\ UNCHANGED <<command, at, signalled, pool, river, errCh>>

\* ... and waits for what is being answered or for its deadline: errors.Join
\* shuts the second server down whatever became of the first.
AfterShutdown(s) ==
  IF s = "player" THEN "management" ELSE IF command = "run" THEN "stopRiver" ELSE "close"

ShutdownReturns(s) ==
  /\ at = s /\ s \in shut
  /\ at' = AfterShutdown(s)
  /\ UNCHANGED <<command, signalled, pool, river, server, shut, errCh>>

-----------------------------------------------------------------------------
\* The deferred calls: the job client stops, for as long as stopTimeout lets
\* it wait for its jobs; then the pool is closed.
StopRiver ==
  /\ at = "stopRiver" /\ river' = "stopped" /\ at' = "close"
  /\ UNCHANGED <<command, signalled, pool, server, shut, errCh>>

ClosePool ==
  /\ at = "close" /\ pool' = "closed" /\ at' = "exited"
  /\ UNCHANGED <<command, signalled, river, server, shut, errCh>>

ProcessNext ==
  \/ \E c \in {"serve", "worker", "run"} : OpenPool(c)
  \/ StartRiver \/ RiverHears \/ Signal \/ Await \/ Spawn \/ Select \/ StopRiver \/ ClosePool
  \/ \E s \in HTTPServers :
       \/ Listen(s) \/ Unlisten(s) \/ Send(s) \/ Shutdown(s) \/ ShutdownReturns(s)

\* Whatever ends the process first, and however late a server's goroutine
\* gets to run: once the pool is closed no server accepts a request and no job
\* is fetched, and no server's goroutine waits for a channel that nobody reads
\* (Run, shutdown, the order of the deferred calls).
StopsInOrder ==
  /\ pool = "closed" => river # "fetching" /\ \A s \in HTTPServers : server[s] # "listening"
  /\ \A s \in HTTPServers : server[s] = "send" => Len(errCh) < ErrChSize \/ at = "select"

ProcessSpec == ProcessInit /\ [][ProcessNext]_processVars
=============================================================================
