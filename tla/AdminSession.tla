---------------------------- MODULE AdminSession ----------------------------
(***************************************************************************)
(* The administrator's sessions (internal/httpapi/admin.go): concurrent    *)
(* logins with one-time codes share a row of attempts, sessions expire,    *)
(* and the key may be changed by a restart with another configuration.     *)
(* Time is counted in the steps of the one-time code (30 seconds).         *)
(***************************************************************************)
EXTENDS Naturals, Sequences, FiniteSets

CONSTANTS
  Keys,         \* secrets that are configured one after the other
  Logins,       \* bound: login requests that are handled at one time
  Codes,        \* the texts a visitor may enter
  CodeAt,       \* step -> the code of that step
  MaxGuesses,   \* attempts that one window allows
  GuessWindow,  \* the length of a window
  SessionTTL,   \* adminSessionTTL
  MaxStep       \* bound: time

ASSUME AdminAssumption ==
  /\ Keys # {} /\ MaxStep \in Nat /\ MaxGuesses \in Nat \ {0}
  /\ GuessWindow \in Nat \ {0} /\ SessionTTL \in Nat \ {0}
  /\ CodeAt \in [0..(MaxStep + 1) -> Codes]

VARIABLES
  step,       \* the current time
  key,        \* the secret of the running server
  authState,  \* admin_auth_state: key -> its row, or NoAuth
  sessions,   \* admin_sessions
  logins,     \* the transaction of each login request
  granted,    \* history: logins granted per key and step
  answered    \* history: per key, when its codes were answered, and as which attempt

adminVars == <<step, key, authState, sessions, logins, granted, answered>>

\* lastStep is one more than last_step, so that 0 stands for the column's -1.
NoAuth == [lastStep |-> 0, attempts |-> 0, window |-> 0, stored |-> FALSE]
Login(pc, k, begun) == [pc |-> pc, key |-> k, begun |-> begun, now |-> 0,
                        attempts |-> 0, window |-> 0, lastStep |-> 0, valid |-> FALSE]
NoLogin == Login("none", "none", 0)

\* One more than the step of a code that may match.
Matches == 0..(MaxStep + 2)

AdminInit ==
  /\ step = 0 /\ key = CHOOSE k \in Keys : TRUE
  /\ authState = [k \in Keys |-> NoAuth]
  /\ sessions = {} /\ granted = [k \in Keys |-> [m \in Matches |-> 0]]
  /\ logins = [l \in Logins |-> NoLogin]
  /\ answered = [k \in Keys |-> <<>>]

-----------------------------------------------------------------------------
\* matchTOTPStep: the last of the three steps around now that has this code,
\* plus one; 0 when there is none.
MatchedStep(code, now) ==
  LET around == {s \in (IF now = 0 THEN 0 ELSE now - 1)..(now + 1) : CodeAt[s] = code}
  IN  IF around = {} THEN 0 ELSE 1 + CHOOSE s \in around : \A r \in around : r <= s

\* The request arrives and its transaction begins.
BeginLogin(l) ==
  /\ logins[l].pc = "none"
  /\ logins' = [logins EXCEPT ![l] = Login("begun", key, step)]
  /\ UNCHANGED <<step, key, authState, sessions, granted, answered>>

\* Mutant: the row is read without a lock.
LockedByNone(k) == FALSE

\* The row is inserted unless it is there, and locked until the end of the
\* transaction.
Locked(k) == \E l \in Logins : logins[l].pc = "locked" /\ logins[l].key = k

\* Mutant: the step that was used last is accepted again.
UnusedOrLast(matched, row) == matched > 0 /\ matched >= row.lastStep

\* A code is used once: its step is after the last one that was used.
Unused(matched, row) == matched > row.lastStep

LockRow(l, code) ==
  LET k == logins[l].key
      row == IF authState[k].stored THEN authState[k]
             ELSE [NoAuth EXCEPT !.window = logins[l].begun]
      fresh == step >= row.window + GuessWindow
      attempts == IF fresh THEN 0 ELSE row.attempts
      matched == MatchedStep(code, step)
      valid == Unused(matched, row)
  IN  /\ logins[l].pc = "begun" /\ ~Locked(k)
      /\ IF attempts >= MaxGuesses
         THEN logins' = [logins EXCEPT ![l] = NoLogin]
         ELSE logins' = [logins EXCEPT ![l] =
                [pc |-> "locked", key |-> k, begun |-> @.begun, now |-> step,
                 attempts |-> attempts + 1, window |-> IF fresh THEN step ELSE row.window,
                 lastStep |-> IF valid THEN matched ELSE row.lastStep, valid |-> valid]]
      /\ UNCHANGED <<step, key, authState, sessions, granted, answered>>

\* A session is named after the login that created it: its token is random.
\* The rows that login stores: attempts and step, and when the code was valid
\* a new session in place of the expired ones and of those of other keys.
CommitLogin(l) ==
  LET r == logins[l]
  IN  /\ r.pc = "locked"
      /\ authState' = [authState EXCEPT ![r.key] =
           [lastStep |-> r.lastStep, attempts |-> r.attempts, window |-> r.window, stored |-> TRUE]]
      /\ answered' = [answered EXCEPT ![r.key] =
           Append(@, [at |-> step, window |-> r.window, attempt |-> r.attempts])]
      /\ IF r.valid
         THEN /\ sessions' = {s \in sessions : s.expires > r.begun /\ s.key = r.key}
                             \cup {[key |-> r.key, otp |-> r.lastStep, expires |-> r.now + SessionTTL]}
              /\ granted' = [granted EXCEPT ![r.key][r.lastStep] = @ + 1]
         ELSE UNCHANGED <<sessions, granted>>
      /\ logins' = [logins EXCEPT ![l] = NoLogin]
      /\ UNCHANGED <<step, key>>

\* A statement fails, the visitor disconnects or the server dies: roll back.
AbortLogin(l) ==
  /\ logins[l].pc # "none"
  /\ logins' = [logins EXCEPT ![l] = NoLogin]
  /\ UNCHANGED <<step, key, authState, sessions, granted, answered>>

\* guard: the sessions that the running server admits.
Admits(s) == s \in sessions /\ s.key = key /\ s.expires > step

Logout(s) ==
  /\ Admits(s)
  /\ sessions' = sessions \ {s}
  /\ UNCHANGED <<step, key, authState, logins, granted, answered>>

\* The server restarts with another secret; an old process may still be
\* answering the requests it has begun.
ChangeKey(k) ==
  /\ k # key /\ key' = k
  /\ UNCHANGED <<step, authState, sessions, logins, granted, answered>>

PassTime ==
  /\ step < MaxStep /\ step' = step + 1
  /\ UNCHANGED <<key, authState, sessions, logins, granted, answered>>

AdminNext ==
  \/ \E l \in Logins : \/ BeginLogin(l) \/ CommitLogin(l) \/ AbortLogin(l)
                       \/ \E code \in Codes : LockRow(l, code)
  \/ \E s \in sessions : Logout(s)
  \/ \E k \in Keys : ChangeKey(k)
  \/ PassTime

\* The answers of the latest GuessWindow steps.
Recent(k) == {n \in DOMAIN answered[k] : answered[k][n].at + GuessWindow > step}

\* No window of a minute answers more codes than two windows of the code
\* allow, wherever it lies over their boundary (login: the row lock makes
\* every concurrent attempt count).
GuessRate == \A k \in Keys : Cardinality(Recent(k)) <= 2 * MaxGuesses

\* A one-time code opens at most one session, whichever logins race with it
\* and however the attempts' window is reset (login: step > lastStep).
CodeUsedOnce == \A k \in Keys, m \in Matches : granted[k][m] <= 1

AdminSpec == AdminInit /\ [][AdminNext]_adminVars
=============================================================================
