---------------------------- MODULE ServerProofs ----------------------------
(***************************************************************************)
(* The theorems about the server: the login of the administrator           *)
(* (AdminSession), for any number of keys, concurrent logins and steps and *)
(* any codes, and the process itself (Process), which stops in order.      *)
(***************************************************************************)
EXTENDS AdminSession, Process, FiniteSetTheorems, TLAPS

-----------------------------------------------------------------------------
(***************************************************************************)
(* Logins: a code is used once, and guesses are few.                       *)
(***************************************************************************)
LoginRecords == [pc : {"none", "begun", "locked"}, key : Keys \cup {"none"}, begun : Nat, now : Nat,
                 attempts : Nat, window : Nat, lastStep : Nat, valid : BOOLEAN]

AdminTypeOK ==
  /\ step \in 0..MaxStep /\ key \in Keys
  /\ authState \in [Keys -> [lastStep : Nat, attempts : Nat, window : Nat, stored : BOOLEAN]]
  /\ logins \in [Logins -> LoginRecords]
  /\ \A l \in Logins : logins[l].pc # "none" => logins[l].key \in Keys
  /\ granted \in [Keys -> [Matches -> Nat]]
  /\ \A k \in Keys : ~authState[k].stored => authState[k].lastStep = 0

\* The lock: one login at a time has read the row of a key, and what it read
\* is still there.
RowsLocked ==
  /\ \A l, o \in Logins :
       (logins[l].pc = "locked" /\ logins[o].pc = "locked" /\ logins[l].key = logins[o].key) => l = o
  /\ \A l \in Logins : logins[l].pc = "locked" /\ logins[l].valid
                         => logins[l].lastStep > authState[logins[l].key].lastStep
  /\ \A l \in Logins : logins[l].pc = "locked" /\ ~logins[l].valid
                         => logins[l].lastStep = authState[logins[l].key].lastStep

\* The codes that opened a session are not after the row's last step.
UsedBelow == \A k \in Keys, m \in Matches :
  granted[k][m] <= 1 /\ (granted[k][m] > 0 => m <= authState[k].lastStep)

AdminInv == AdminTypeOK /\ RowsLocked /\ UsedBelow

-----------------------------------------------------------------------------
\* Of the steps around now that have the code, one is the last.
LEMMA MatchedIsNat ==
  ASSUME NEW code \in Codes, NEW now \in 0..MaxStep
  PROVE  MatchedStep(code, now) \in Nat
<1> DEFINE around == {s \in (IF now = 0 THEN 0 ELSE now - 1)..(now + 1) : CodeAt[s] = code}
<1>1. CASE around = {}
  BY <1>1 DEF MatchedStep
<1>2. CASE around # {}
  <2>1. \A s \in around : s \in Nat /\ s \in {now - 1, now, now + 1}
    BY AdminAssumption
  <2>2. \E s \in around : \A r \in around : r <= s
    <3>1. CASE now + 1 \in around
      BY <2>1, <3>1, AdminAssumption
    <3>2. CASE now + 1 \notin around /\ now \in around
      BY <2>1, <3>2, AdminAssumption
    <3>3. CASE now + 1 \notin around /\ now \notin around
      BY <1>2, <2>1, <3>3, AdminAssumption
    <3> QED
      BY <3>1, <3>2, <3>3
  <2>3. (CHOOSE s \in around : \A r \in around : r <= s) \in around
    BY <2>2
  <2> QED
    BY <1>2, <2>1, <2>3 DEF MatchedStep
<1> QED
  BY <1>1, <1>2

\* Every step of a login replaces its own record only.
LEMMA OneLogin ==
  ASSUME AdminTypeOK, NEW l \in Logins, NEW r \in LoginRecords, r.pc # "none" => r.key \in Keys,
         logins' = [logins EXCEPT ![l] = r], UNCHANGED <<step, key, authState, granted>>
  PROVE  /\ AdminTypeOK' /\ logins'[l] = r
         /\ \A o \in Logins : o # l => logins'[o] = logins[o]
  BY DEF AdminTypeOK

\* A login that has locked nothing disturbs nobody.
LEMMA UnlockedKeeps ==
  ASSUME AdminInv, NEW l \in Logins, NEW r \in LoginRecords, r.pc # "locked",
         r.pc # "none" => r.key \in Keys,
         logins' = [logins EXCEPT ![l] = r], UNCHANGED <<step, key, authState, granted>>
  PROVE  AdminInv'
<1>1. /\ AdminTypeOK' /\ logins'[l] = r /\ \A o \in Logins : o # l => logins'[o] = logins[o]
  BY OneLogin DEF AdminInv
<1>2. RowsLocked'
  BY <1>1 DEF AdminInv, RowsLocked
<1> QED
  BY <1>1, <1>2 DEF AdminInv, UsedBelow

LEMMA NoLoginTyped == NoLogin \in LoginRecords /\ NoLogin.pc = "none"
  BY DEF NoLogin, Login, LoginRecords

LEMMA BeginKeeps ==
  ASSUME AdminInv, NEW l \in Logins, BeginLogin(l)
  PROVE  AdminInv'
<1>1. key \in Keys /\ step \in Nat
  BY AdminAssumption DEF AdminInv, AdminTypeOK
<1>2. /\ Login("begun", key, step) \in LoginRecords
      /\ Login("begun", key, step).pc = "begun" /\ Login("begun", key, step).key = key
  BY <1>1 DEF Login, LoginRecords
<1> QED
  BY <1>1, <1>2, UnlockedKeeps DEF BeginLogin

LEMMA LockKeeps ==
  ASSUME AdminInv, NEW l \in Logins, NEW code \in Codes, LockRow(l, code)
  PROVE  AdminInv'
<1> DEFINE k == logins[l].key
           row == IF authState[k].stored THEN authState[k] ELSE [NoAuth EXCEPT !.window = logins[l].begun]
           fresh == step >= row.window + GuessWindow
           attempts == IF fresh THEN 0 ELSE row.attempts
           matched == MatchedStep(code, step)
           valid == Unused(matched, row)
           r == [pc |-> "locked", key |-> k, begun |-> logins[l].begun, now |-> step,
                 attempts |-> attempts + 1, window |-> IF fresh THEN step ELSE row.window,
                 lastStep |-> IF valid THEN matched ELSE row.lastStep, valid |-> valid]
<1>1. /\ k \in Keys /\ logins[l] \in LoginRecords /\ step \in Nat /\ matched \in Nat
      /\ ~Locked(k) /\ UNCHANGED <<step, key, authState, granted>>
  BY MatchedIsNat, AdminAssumption DEF AdminInv, AdminTypeOK, LockRow
<1>2. /\ row.lastStep = authState[k].lastStep /\ row.lastStep \in Nat
      /\ row.window \in Nat /\ row.attempts \in Nat
  <2>1. CASE authState[k].stored
    BY <1>1, <2>1 DEF AdminInv, AdminTypeOK
  <2>2. CASE ~authState[k].stored
    BY <1>1, <2>2 DEF AdminInv, AdminTypeOK, NoAuth, LoginRecords
  <2> QED
    BY <2>1, <2>2
<1>3. CASE attempts >= MaxGuesses
  BY <1>1, <1>3, NoLoginTyped, UnlockedKeeps DEF LockRow
<1>4. CASE ~(attempts >= MaxGuesses)
  <2>1. logins' = [logins EXCEPT ![l] = r]
    BY <1>4 DEF LockRow
  <2> HIDE DEF row, matched
  <2>2. /\ r \in LoginRecords /\ r.pc = "locked" /\ r.key = k
        /\ r.valid => r.lastStep > authState[k].lastStep
        /\ ~r.valid => r.lastStep = authState[k].lastStep
    <3>1. attempts \in Nat /\ (IF fresh THEN step ELSE row.window) \in Nat
      BY <1>1, <1>2
    <3>2. valid \in BOOLEAN /\ (valid => matched > authState[k].lastStep)
      BY <1>2 DEF Unused
    <3>3. (IF valid THEN matched ELSE row.lastStep) \in Nat
      BY <1>1, <1>2
    <3>4. logins[l].begun \in Nat
      BY <1>1 DEF LoginRecords
    <3> HIDE DEF attempts, fresh, valid
    <3> QED
      BY <1>1, <1>2, <3>1, <3>2, <3>3, <3>4 DEF LoginRecords
  <2> HIDE DEF r
  <2>3. /\ AdminTypeOK' /\ logins'[l] = r /\ \A o \in Logins : o # l => logins'[o] = logins[o]
    BY <1>1, <2>1, <2>2, OneLogin DEF AdminInv
  <2>4. \A o \in Logins : logins[o].pc = "locked" => logins[o].key # k
    BY <1>1 DEF Locked
  <2>5. RowsLocked'
    BY <1>1, <2>2, <2>3, <2>4 DEF AdminInv, RowsLocked
  <2> QED
    BY <1>1, <2>3, <2>5 DEF AdminInv, UsedBelow
<1> QED
  BY <1>3, <1>4

LEMMA CountsTyped ==
  ASSUME NEW f \in [Matches -> Nat], NEW m
  PROVE  [f EXCEPT ![m] = f[m] + 1] \in [Matches -> Nat]
<1>1. CASE m \in Matches
  BY <1>1
<1>2. CASE m \notin Matches
  BY <1>2
<1> QED
  BY <1>1, <1>2

LEMMA CommitKeeps ==
  ASSUME AdminInv, NEW l \in Logins, CommitLogin(l)
  PROVE  AdminInv'
<1> DEFINE r == logins[l]
<1>1. /\ r.pc = "locked" /\ r.key \in Keys /\ r \in LoginRecords
      /\ UNCHANGED <<step, key>> /\ logins' = [logins EXCEPT ![l] = NoLogin]
  BY DEF AdminInv, AdminTypeOK, CommitLogin
<1>2. /\ \A k \in Keys : k # r.key => authState'[k] = authState[k]
      /\ authState'[r.key].lastStep = r.lastStep /\ authState'[r.key].stored
      /\ authState' \in [Keys -> [lastStep : Nat, attempts : Nat, window : Nat, stored : BOOLEAN]]
  BY <1>1 DEF AdminInv, AdminTypeOK, CommitLogin, LoginRecords
<1>3. /\ logins'[l] = NoLogin /\ \A o \in Logins : o # l => logins'[o] = logins[o]
      /\ logins' \in [Logins -> LoginRecords]
  BY <1>1, NoLoginTyped DEF AdminInv, AdminTypeOK
<1>4. \A o \in Logins : logins'[o].pc = "locked" => o # l /\ logins[o].pc = "locked" /\ logins[o].key # r.key
  BY <1>1, <1>3, NoLoginTyped DEF AdminInv, RowsLocked
<1>5. RowsLocked'
  BY <1>2, <1>3, <1>4 DEF AdminInv, AdminTypeOK, RowsLocked
<1>6. r.lastStep \in Nat /\ r.lastStep >= authState[r.key].lastStep /\ authState[r.key].lastStep \in Nat
  BY <1>1 DEF AdminInv, AdminTypeOK, RowsLocked, LoginRecords
<1>a. \A k \in Keys : ~authState'[k].stored => authState'[k].lastStep = 0
  BY <1>1, <1>2 DEF AdminInv, AdminTypeOK
<1>b. \A o \in Logins : logins'[o].pc # "none" => logins'[o].key \in Keys
  BY <1>1, <1>3, NoLoginTyped DEF AdminInv, AdminTypeOK
<1>c. step' \in 0..MaxStep /\ key' \in Keys
  BY <1>1 DEF AdminInv, AdminTypeOK
<1>7. CASE r.valid
  <2>1. granted' = [granted EXCEPT ![r.key][r.lastStep] = granted[r.key][r.lastStep] + 1]
    BY <1>7 DEF CommitLogin
  <2>2. r.lastStep > authState[r.key].lastStep
    BY <1>1, <1>7 DEF AdminInv, RowsLocked
  <2> DEFINE counts == [granted[r.key] EXCEPT ![r.lastStep] = granted[r.key][r.lastStep] + 1]
  <2>a. granted[r.key] \in [Matches -> Nat]
    BY <1>1 DEF AdminInv, AdminTypeOK
  <2>b. counts \in [Matches -> Nat]
    BY <2>a, CountsTyped
  <2>c. granted' = [granted EXCEPT ![r.key] = counts]
    BY <2>1
  <2>3. granted' \in [Keys -> [Matches -> Nat]]
    BY <1>1, <2>b, <2>c DEF AdminInv, AdminTypeOK
  <2>4. \A k \in Keys, m \in Matches :
          granted'[k][m] = IF k = r.key /\ m = r.lastStep THEN granted[k][m] + 1 ELSE granted[k][m]
    BY <1>1, <2>1 DEF AdminInv, AdminTypeOK
  <2>5. r.lastStep \in Matches => granted[r.key][r.lastStep] = 0
    <3> SUFFICES ASSUME r.lastStep \in Matches PROVE granted[r.key][r.lastStep] = 0
      OBVIOUS
    <3>1. granted[r.key][r.lastStep] \in Nat
      BY <2>a
    <3>2. granted[r.key][r.lastStep] > 0 => r.lastStep <= authState[r.key].lastStep
      BY <1>1 DEF AdminInv, UsedBelow
    <3> QED
      BY <1>6, <2>2, <3>1, <3>2
  <2>6. UsedBelow'
    <3> SUFFICES ASSUME NEW k \in Keys, NEW m \in Matches
                 PROVE  granted'[k][m] <= 1 /\ (granted'[k][m] > 0 => m <= authState'[k].lastStep)
      BY DEF UsedBelow
    <3>a. m \in Nat /\ granted[k][m] \in Nat /\ authState[k].lastStep \in Nat
      <4>1. m \in Nat
        BY AdminAssumption DEF Matches
      <4> QED
        BY <4>1 DEF AdminInv, AdminTypeOK
    <3>b. granted[k][m] <= 1 /\ (granted[k][m] > 0 => m <= authState[k].lastStep)
      BY DEF AdminInv, UsedBelow
    <3>1. m \in Nat /\ granted[k][m] \in Nat /\ granted[k][m] <= 1
          /\ (granted[k][m] > 0 => m <= authState[k].lastStep) /\ authState[k].lastStep \in Nat
      BY <3>a, <3>b
    <3>2. CASE k = r.key /\ m = r.lastStep
      BY <1>2, <1>6, <2>4, <2>5, <3>1, <3>2
    <3>3. CASE ~(k = r.key /\ m = r.lastStep)
      BY <1>2, <1>6, <2>4, <3>1, <3>3
    <3> QED
      BY <3>2, <3>3
  <2> QED
    BY <1>2, <1>3, <1>5, <1>a, <1>b, <1>c, <2>3, <2>6 DEF AdminInv, AdminTypeOK
<1>8. CASE ~r.valid
  <2>1. granted' = granted
    BY <1>8 DEF CommitLogin
  <2>2. UsedBelow'
    BY <1>1, <1>2, <1>8, <2>1 DEF AdminInv, RowsLocked, UsedBelow
  <2> QED
    <3>1. granted' \in [Keys -> [Matches -> Nat]]
      BY <2>1 DEF AdminInv, AdminTypeOK
    <3> QED
      BY <1>2, <1>3, <1>5, <1>a, <1>b, <1>c, <2>2, <3>1 DEF AdminInv, AdminTypeOK
<1> QED
  BY <1>7, <1>8

-----------------------------------------------------------------------------
LEMMA AdminInit_Inv == AdminInit => AdminInv
<1> SUFFICES ASSUME AdminInit PROVE AdminInv
  OBVIOUS
<1>1. key \in Keys
  BY AdminAssumption DEF AdminInit
<1>2. AdminTypeOK
  BY <1>1, NoLoginTyped, AdminAssumption DEF AdminInit, AdminTypeOK, NoAuth
<1>3. RowsLocked
  BY NoLoginTyped DEF AdminInit, RowsLocked
<1>4. UsedBelow
  BY DEF AdminInit, UsedBelow
<1> QED
  BY <1>2, <1>3, <1>4 DEF AdminInv

LEMMA AdminKeeps == AdminInv /\ [AdminNext]_adminVars => AdminInv'
<1> SUFFICES ASSUME AdminInv, [AdminNext]_adminVars PROVE AdminInv'
  OBVIOUS
<1>1. ASSUME NEW l \in Logins, BeginLogin(l) \/ CommitLogin(l)
      PROVE  AdminInv'
  BY <1>1, BeginKeeps, CommitKeeps
<1>2. ASSUME NEW l \in Logins, AbortLogin(l)
      PROVE  AdminInv'
  BY <1>2, NoLoginTyped, UnlockedKeeps DEF AbortLogin
<1>3. ASSUME NEW l \in Logins, NEW code \in Codes, LockRow(l, code)
      PROVE  AdminInv'
  BY <1>3, LockKeeps
<1>4. ASSUME NEW s \in sessions, Logout(s)
      PROVE  AdminInv'
  BY <1>4 DEF AdminInv, AdminTypeOK, RowsLocked, UsedBelow, Logout
<1>5. ASSUME NEW k \in Keys, ChangeKey(k)
      PROVE  AdminInv'
  BY <1>5 DEF AdminInv, AdminTypeOK, RowsLocked, UsedBelow, ChangeKey
<1>6. CASE PassTime
  BY <1>6, AdminAssumption DEF AdminInv, AdminTypeOK, RowsLocked, UsedBelow, PassTime
<1>7. CASE UNCHANGED adminVars
  BY <1>7 DEF AdminInv, AdminTypeOK, RowsLocked, UsedBelow, adminVars
<1> QED
  BY <1>1, <1>2, <1>3, <1>4, <1>5, <1>6, <1>7 DEF AdminNext

\* Whatever logins race, time out and are repeated, in one server or in two
\* with different secrets, and however often the window of attempts starts
\* anew: a code never opens a second session.
THEOREM OncePerCode == AdminSpec => []CodeUsedOnce
<1>1. AdminInv /\ [AdminNext]_adminVars => AdminInv'
  BY AdminKeeps
<1>2. AdminInv => CodeUsedOnce
  BY DEF AdminInv, UsedBelow, CodeUsedOnce
<1> QED
  BY <1>1, <1>2, AdminInit_Inv, PTL DEF AdminSpec
-----------------------------------------------------------------------------
\* What is known of the answers to codes, beside AdminInv.
\*
\* Attempt a of window w comes after the answer x: either both are of the same
\* window and a is a later attempt, or x was given before w began, and x's own
\* window began a whole GuessWindow before w.
Follows(w, a, x) ==
  \/ x.window = w /\ x.attempt < a
  \/ x.at <= w /\ x.window + GuessWindow <= w

AnswerRecords == [at : Nat, window : Nat, attempt : 1..MaxGuesses]

\* Every answer follows the answers before it ...
AnswersFollow(s) ==
  /\ \A n \in DOMAIN s : s[n].window <= s[n].at /\ s[n].at <= step
  /\ \A m, n \in DOMAIN s : m < n => Follows(s[n].window, s[n].attempt, s[m])

\* ... the next attempt that the row allows would follow them all ...
RowFollows(k) ==
  /\ authState[k].attempts <= MaxGuesses /\ authState[k].window <= step
  /\ ~authState[k].stored => answered[k] = <<>>
  /\ \A n \in DOMAIN answered[k] : Follows(authState[k].window, authState[k].attempts + 1, answered[k][n])

\* ... and so will the answer of the login that has the row.
LoginFollows(l) ==
  /\ logins[l].attempts \in 1..MaxGuesses /\ logins[l].window <= step
  /\ \A n \in DOMAIN answered[logins[l].key] :
       Follows(logins[l].window, logins[l].attempts, answered[logins[l].key][n])

AnswersInv ==
  /\ answered \in [Keys -> Seq(AnswerRecords)]
  /\ \A l \in Logins : logins[l].begun <= step
  /\ \A k \in Keys : AnswersFollow(answered[k]) /\ RowFollows(k)
  /\ \A l \in Logins : logins[l].pc = "locked" => LoginFollows(l)

RateInv == AdminInv /\ AnswersInv

-----------------------------------------------------------------------------
\* Of three windows with a recent answer two are the same: the first answer
\* was given before the second window began, and that was a GuessWindow before
\* the third.
LEMMA TwoWindows ==
  ASSUME AdminInv, AnswersInv, NEW k \in Keys,
         NEW a \in Recent(k), NEW b \in Recent(k), NEW c \in Recent(k), a < b, b < c,
         answered[k][a].window # answered[k][b].window, answered[k][b].window # answered[k][c].window
  PROVE  FALSE
<1> DEFINE s == answered[k]
<1>1. s \in Seq(AnswerRecords) /\ AnswersFollow(s)
  BY DEF AnswersInv
<1>2. a \in DOMAIN s /\ b \in DOMAIN s /\ c \in DOMAIN s /\ s[a].at + GuessWindow > step
  BY DEF Recent
<1>3. /\ s[a] \in AnswerRecords /\ s[b] \in AnswerRecords /\ s[c] \in AnswerRecords
      /\ s[c].window <= s[c].at /\ s[c].at <= step
      /\ Follows(s[b].window, s[b].attempt, s[a]) /\ Follows(s[c].window, s[c].attempt, s[b])
  <2>1. s[a] \in AnswerRecords /\ s[b] \in AnswerRecords /\ s[c] \in AnswerRecords
    <3> HIDE DEF s
    <3> QED
      BY <1>1, <1>2
  <2> QED
    BY <1>1, <1>2, <2>1 DEF AnswersFollow
<1>4. s[a].at <= s[b].window /\ s[b].window + GuessWindow <= s[c].window
  BY <1>3 DEF Follows
<1>5. /\ s[a].at \in Nat /\ s[b].window \in Nat /\ s[c].window \in Nat /\ s[c].at \in Nat
      /\ step \in Nat /\ GuessWindow \in Nat
  <2>1. step \in Nat /\ GuessWindow \in Nat
    BY AdminAssumption DEF AdminInv, AdminTypeOK
  <2> HIDE DEF s
  <2> QED
    BY <1>3, <2>1 DEF AnswerRecords
<1> HIDE DEF s
<1> QED
  BY <1>2, <1>3, <1>4, <1>5

\* As many pairs as windows and attempts.
LEMMA FirstsFinite ==
  ASSUME NEW n \in Nat
  PROVE  IsFiniteSet(1..n) /\ Cardinality(1..n) = n
<1>1. 1 \in Int /\ n \in Int
  OBVIOUS
<1>2. IsFiniteSet(1..n) /\ Cardinality(1..n) = IF 1 > n THEN 0 ELSE n - 1 + 1
  BY <1>1, FS_Interval, Zenon
<1>3. (IF 1 > n THEN 0 ELSE n - 1 + 1) = n
  OBVIOUS
<1> QED
  BY <1>2, <1>3

LEMMA PairsFinite ==
  ASSUME NEW n \in Nat
  PROVE  IsFiniteSet((1..2) \X (1..n)) /\ Cardinality((1..2) \X (1..n)) = 2 * n
<1>1. IsFiniteSet(1..2) /\ Cardinality(1..2) = 2
  BY FirstsFinite
<1>2. IsFiniteSet(1..n) /\ Cardinality(1..n) = n
  BY FirstsFinite
<1> QED
  BY <1>1, <1>2, FS_Product

\* So the recent answers are told apart by which of two windows they are of
\* and by their attempt.
LEMMA RecentIsFew ==
  ASSUME AdminInv, AnswersInv, NEW k \in Keys
  PROVE  Cardinality(Recent(k)) <= 2 * MaxGuesses
<1> DEFINE s == answered[k]
           T == (1..2) \X (1..MaxGuesses)
<1>1. s \in Seq(AnswerRecords) /\ AnswersFollow(s) /\ MaxGuesses \in Nat
  BY AdminAssumption DEF AnswersInv
<1>2. IsFiniteSet(T) /\ Cardinality(T) = 2 * MaxGuesses
  BY <1>1, PairsFinite
<1>3. CASE Recent(k) = {}
  BY <1>1, <1>3, FS_EmptySet
<1>4. CASE Recent(k) # {}
  <2>1. PICK e \in Recent(k) : TRUE
    BY <1>4
  <2> DEFINE f == [n \in Recent(k) |-> <<IF s[n].window = s[e].window THEN 1 ELSE 2, s[n].attempt>>]
  <2>2. \A n \in Recent(k) : n \in DOMAIN s /\ n \in Nat /\ s[n] \in AnswerRecords
    BY <1>1 DEF Recent
  <2>3. f \in [Recent(k) -> T]
    BY <2>2 DEF AnswerRecords
  <2>4. ASSUME NEW m \in Recent(k), NEW n \in Recent(k), m < n, s[m].window = s[n].window
        PROVE  s[m].attempt # s[n].attempt
    <3>1. Follows(s[n].window, s[n].attempt, s[m]) /\ s[m] \in AnswerRecords /\ s[n] \in AnswerRecords
      BY <1>1, <2>2, <2>4 DEF AnswersFollow
    <3>2. /\ s[m].window \in Nat /\ s[n].window \in Nat /\ s[m].attempt \in Nat /\ s[n].attempt \in Nat
          /\ GuessWindow \in Nat \ {0}
      BY <3>1, AdminAssumption DEF AnswerRecords
    <3> HIDE DEF s
    <3> QED
      BY <2>4, <3>1, <3>2 DEF Follows
  <2>5. ASSUME NEW m \in Recent(k), NEW n \in Recent(k), m < n,
               s[m].window # s[e].window, s[n].window # s[e].window
        PROVE  s[m].window = s[n].window
    <3> SUFFICES ASSUME s[m].window # s[n].window PROVE FALSE
      OBVIOUS
    <3>1. e \in Nat /\ m \in Nat /\ n \in Nat
      BY <2>1, <2>2
    <3>2. CASE e < m
      BY <2>1, <2>5, <3>2, TwoWindows
    <3>3. CASE m < e /\ e < n
      BY <2>1, <2>5, <3>3, TwoWindows
    <3>4. CASE n < e
      BY <2>1, <2>5, <3>4, TwoWindows
    <3> QED
      BY <2>5, <3>1, <3>2, <3>3, <3>4
  <2>6. \A m, n \in Recent(k) : f[m] = f[n] => m = n
    <3> SUFFICES ASSUME NEW m \in Recent(k), NEW n \in Recent(k), m < n, f[m] = f[n]
                 PROVE  FALSE
      <4>1. \A m, n \in Recent(k) : m < n \/ n < m \/ m = n
        BY <2>2
      <4> QED
        BY <4>1
    <3>1. s[m].attempt = s[n].attempt /\ (s[m].window = s[e].window <=> s[n].window = s[e].window)
      <4>1. <<IF s[m].window = s[e].window THEN 1 ELSE 2, s[m].attempt>>
             = <<IF s[n].window = s[e].window THEN 1 ELSE 2, s[n].attempt>>
        OBVIOUS
      <4> HIDE DEF s
      <4> QED
        BY <4>1
    <3>2. s[m].window = s[n].window
      BY <2>5, <3>1
    <3> QED
      BY <2>4, <3>1, <3>2
  <2>7. f \in Injection(Recent(k), T)
    BY <2>3, <2>6 DEF Injection, IsInjective
  <2> QED
    BY <1>2, <2>7, FS_Injection
<1> QED
  BY <1>3, <1>4
-----------------------------------------------------------------------------
\* Nothing that follows an answer ceases to do so as time goes by.
LEMMA UnlockedKeepsAnswers ==
  ASSUME AdminInv, AnswersInv, NEW l \in Logins, NEW r \in LoginRecords, r.pc # "locked", r.begun <= step,
         logins' = [logins EXCEPT ![l] = r], UNCHANGED <<step, authState, answered>>
  PROVE  AnswersInv'
<1>1. logins'[l] = r /\ \A o \in Logins : o # l => logins'[o] = logins[o]
  BY DEF AdminInv, AdminTypeOK
<1>2. \A o \in Logins : logins'[o].begun <= step'
  BY <1>1 DEF AnswersInv
<1>3. \A o \in Logins : logins'[o].pc = "locked" => o # l /\ logins'[o] = logins[o] /\ logins[o].pc = "locked"
  BY <1>1
<1>4. \A o \in Logins : logins'[o].pc = "locked" => LoginFollows(o)'
  BY <1>3 DEF AnswersInv, LoginFollows
<1>5. \A k \in Keys : AnswersFollow(answered[k])' /\ RowFollows(k)'
  BY DEF AnswersInv, AnswersFollow, RowFollows
<1> QED
  BY <1>2, <1>4, <1>5 DEF AnswersInv

LEMMA BeginKeepsAnswers ==
  ASSUME AdminInv, AnswersInv, NEW l \in Logins, BeginLogin(l)
  PROVE  AnswersInv'
<1>1. key \in Keys /\ step \in Nat
  BY AdminAssumption DEF AdminInv, AdminTypeOK
<1>2. /\ Login("begun", key, step) \in LoginRecords
      /\ Login("begun", key, step).pc = "begun" /\ Login("begun", key, step).begun <= step
  BY <1>1 DEF Login, LoginRecords
<1> QED
  BY <1>1, <1>2, UnlockedKeepsAnswers DEF BeginLogin

LEMMA GiveUpKeepsAnswers ==
  ASSUME AdminInv, AnswersInv, NEW l \in Logins,
         logins' = [logins EXCEPT ![l] = NoLogin], UNCHANGED <<step, authState, answered>>
  PROVE  AnswersInv'
<1>1. step \in Nat
  BY AdminAssumption DEF AdminInv, AdminTypeOK
<1>2. NoLogin \in LoginRecords /\ NoLogin.pc = "none" /\ NoLogin.begun <= step
  BY <1>1, NoLoginTyped DEF NoLogin, Login
<1> QED
  BY <1>2, UnlockedKeepsAnswers

\* The attempt that a login is granted follows every answer: it is the next of
\* the row's window, or the first of one that begins now.
LEMMA LockKeepsAnswers ==
  ASSUME AdminInv, AnswersInv, NEW l \in Logins, NEW code \in Codes, LockRow(l, code)
  PROVE  AnswersInv'
<1> DEFINE k == logins[l].key
           row == IF authState[k].stored THEN authState[k] ELSE [NoAuth EXCEPT !.window = logins[l].begun]
           fresh == step >= row.window + GuessWindow
           attempts == IF fresh THEN 0 ELSE row.attempts
           window == IF fresh THEN step ELSE row.window
           matched == MatchedStep(code, step)
           valid == Unused(matched, row)
           r == [pc |-> "locked", key |-> k, begun |-> logins[l].begun, now |-> step,
                 attempts |-> attempts + 1, window |-> window,
                 lastStep |-> IF valid THEN matched ELSE row.lastStep, valid |-> valid]
           s == answered[k]
<1>1. /\ k \in Keys /\ logins[l] \in LoginRecords /\ step \in Nat /\ UNCHANGED <<step, authState, answered>>
      /\ logins[l].begun \in Nat /\ logins[l].begun <= step
      /\ GuessWindow \in Nat /\ MaxGuesses \in Nat /\ s \in Seq(AnswerRecords) /\ RowFollows(k)
  <2>1. logins[l].pc = "begun" /\ UNCHANGED <<step, authState, answered>>
    BY DEF LockRow
  <2>2. logins[l] \in LoginRecords /\ step \in Nat
    BY AdminAssumption DEF AdminInv, AdminTypeOK
  <2>3. k \in Keys
    BY <2>1 DEF AdminInv, AdminTypeOK
  <2>4. logins[l].begun \in Nat
    BY <2>2 DEF LoginRecords
  <2>5. logins[l].begun <= step /\ s \in Seq(AnswerRecords) /\ RowFollows(k)
    BY <2>3 DEF AnswersInv
  <2> QED
    BY <2>1, <2>2, <2>3, <2>4, <2>5, AdminAssumption
<1>2. CASE attempts >= MaxGuesses
  BY <1>1, <1>2, GiveUpKeepsAnswers DEF LockRow
<1>3. CASE ~(attempts >= MaxGuesses)
  <2>0. logins' = [logins EXCEPT ![l] = r]
    BY <1>3 DEF LockRow
  <2>1. /\ logins' = [logins EXCEPT ![l] = r] /\ r.key = k /\ r.begun = logins[l].begun
        /\ r.attempts = attempts + 1 /\ r.window = window
    BY <2>0
  <2> HIDE DEF r
  <2>2. logins'[l] = r /\ \A o \in Logins : o # l => logins'[o] = logins[o]
    BY <2>1 DEF AdminInv, AdminTypeOK
  <2>3. /\ row.window \in Nat /\ row.window <= step /\ row.attempts \in Nat
        /\ \A n \in DOMAIN s : Follows(row.window, row.attempts + 1, s[n])
    <3>1. CASE authState[k].stored
      BY <1>1, <3>1 DEF AdminInv, AdminTypeOK, RowFollows
    <3>2. CASE ~authState[k].stored
      BY <1>1, <3>2 DEF NoAuth, RowFollows
    <3> QED
      BY <3>1, <3>2
  <2>4. ASSUME NEW n \in DOMAIN s
        PROVE  Follows(window, attempts + 1, s[n])
    <3>1. Follows(row.window, row.attempts + 1, s[n]) /\ s[n].at <= step
      BY <1>1, <2>3 DEF AnswersInv, AnswersFollow
    <3>2. s[n] \in AnswerRecords
      <4> HIDE DEF s
      <4> QED
        BY <1>1
    <3>3. s[n].at \in Nat /\ s[n].window \in Nat /\ s[n].attempt \in Nat
      BY <3>2 DEF AnswerRecords
    <3> HIDE DEF row, s
    <3>4. CASE fresh
      BY <1>1, <2>3, <3>1, <3>3, <3>4 DEF Follows
    <3>5. CASE ~fresh
      BY <3>1, <3>5
    <3> QED
      BY <3>4, <3>5
  <2>5. attempts \in Nat /\ attempts + 1 \in 1..MaxGuesses /\ window <= step
    <3> HIDE DEF row
    <3> QED
      BY <1>1, <1>3, <2>3
  <2> HIDE DEF row, attempts, window
  <2>6. LoginFollows(l)'
    BY <1>1, <2>1, <2>2, <2>4, <2>5 DEF LoginFollows
  <2>7. \A o \in Logins : logins'[o].pc = "locked" => LoginFollows(o)'
    BY <1>1, <2>2, <2>6 DEF AnswersInv, LoginFollows
  <2>8. \A o \in Logins : logins'[o].begun <= step'
    BY <1>1, <2>1, <2>2 DEF AnswersInv
  <2>9. \A j \in Keys : AnswersFollow(answered[j])' /\ RowFollows(j)'
    BY <1>1 DEF AnswersInv, AnswersFollow, RowFollows
  <2> QED
    BY <1>1, <2>7, <2>8, <2>9 DEF AnswersInv
<1> QED
  BY <1>2, <1>3

\* The answer is the last, and the row that is stored with it says so; no other
\* login has locked this row.
LEMMA CommitKeepsAnswers ==
  ASSUME AdminInv, AnswersInv, NEW l \in Logins, CommitLogin(l)
  PROVE  AnswersInv'
<1> DEFINE r == logins[l]
           x == [at |-> step, window |-> r.window, attempt |-> r.attempts]
           s == answered[r.key]
<1>1. /\ r.pc = "locked" /\ r.key \in Keys /\ r \in LoginRecords /\ step \in Nat
      /\ UNCHANGED step /\ logins' = [logins EXCEPT ![l] = NoLogin]
      /\ answered' = [answered EXCEPT ![r.key] = Append(s, x)]
      /\ LoginFollows(l) /\ s \in Seq(AnswerRecords) /\ MaxGuesses \in Nat /\ GuessWindow \in Nat \ {0}
  <2>1. /\ r.pc = "locked" /\ UNCHANGED step /\ logins' = [logins EXCEPT ![l] = NoLogin]
        /\ answered' = [answered EXCEPT ![r.key] = Append(s, x)]
    BY DEF CommitLogin
  <2>2. r \in LoginRecords /\ step \in Nat
    BY AdminAssumption DEF AdminInv, AdminTypeOK
  <2>3. r.key \in Keys
    BY <2>1 DEF AdminInv, AdminTypeOK
  <2>4. LoginFollows(l) /\ s \in Seq(AnswerRecords)
    BY <2>1, <2>3 DEF AnswersInv
  <2> QED
    BY <2>1, <2>2, <2>3, <2>4, AdminAssumption
<1>2. /\ r.window \in Nat /\ r.attempts \in 1..MaxGuesses /\ r.window <= step
      /\ \A n \in DOMAIN s : Follows(r.window, r.attempts, s[n])
  BY <1>1 DEF LoginFollows, LoginRecords
<1>3. x \in AnswerRecords
  BY <1>1, <1>2 DEF AnswerRecords
<1> HIDE DEF x, s
<1>4. /\ Append(s, x) \in Seq(AnswerRecords) /\ DOMAIN Append(s, x) = 1..(Len(s) + 1) /\ Len(s) \in Nat
      /\ DOMAIN s = 1..Len(s) /\ \A n \in 1..Len(s) : Append(s, x)[n] = s[n]
      /\ Append(s, x)[Len(s) + 1] = x
  BY <1>1, <1>3
<1>5. x.at = step /\ x.window = r.window /\ x.attempt = r.attempts
  BY DEF x
<1>6. AnswersFollow(Append(s, x))
  <2>1. AnswersFollow(s)
    BY <1>1 DEF AnswersInv, s
  <2>2. ASSUME NEW n \in DOMAIN Append(s, x)
        PROVE  Append(s, x)[n].window <= Append(s, x)[n].at /\ Append(s, x)[n].at <= step
    <3>1. CASE n = Len(s) + 1
      BY <1>1, <1>2, <1>4, <1>5, <3>1
    <3>2. CASE n \in 1..Len(s)
      BY <1>4, <2>1, <3>2 DEF AnswersFollow
    <3> QED
      BY <1>4, <3>1, <3>2
  <2>3. ASSUME NEW m \in DOMAIN Append(s, x), NEW n \in DOMAIN Append(s, x), m < n
        PROVE  Follows(Append(s, x)[n].window, Append(s, x)[n].attempt, Append(s, x)[m])
    <3>1. m \in 1..Len(s)
      BY <1>4, <2>3
    <3>2. CASE n = Len(s) + 1
      BY <1>2, <1>4, <1>5, <3>1, <3>2
    <3>3. CASE n \in 1..Len(s)
      BY <1>4, <2>1, <2>3, <3>1, <3>3 DEF AnswersFollow
    <3> QED
      BY <1>4, <3>2, <3>3
  <2> QED
    BY <2>2, <2>3 DEF AnswersFollow
<1>7. ASSUME NEW n \in DOMAIN Append(s, x)
      PROVE  Follows(r.window, r.attempts + 1, Append(s, x)[n])
  <2>1. CASE n = Len(s) + 1
    BY <1>2, <1>4, <1>5, <2>1 DEF Follows
  <2>2. CASE n \in 1..Len(s)
    <3>1. Follows(r.window, r.attempts, s[n]) /\ s[n] \in AnswerRecords
      BY <1>1, <1>2, <1>4, <2>2
    <3>2. s[n].attempt \in Nat
      BY <3>1 DEF AnswerRecords
    <3>3. Follows(r.window, r.attempts + 1, s[n])
      BY <1>2, <3>1, <3>2 DEF Follows
    <3> QED
      BY <1>4, <2>2, <3>3
  <2> QED
    BY <1>4, <2>1, <2>2
<1>8. /\ answered' \in [Keys -> Seq(AnswerRecords)] /\ answered'[r.key] = Append(s, x)
      /\ \A k \in Keys : k # r.key => answered'[k] = answered[k] /\ authState'[k] = authState[k]
      /\ authState'[r.key].attempts = r.attempts /\ authState'[r.key].window = r.window
      /\ authState'[r.key].stored
  <2>1. \A k \in Keys : k # r.key => authState'[k] = authState[k]
    BY <1>1 DEF AdminInv, AdminTypeOK, CommitLogin
  <2>2. /\ authState'[r.key].attempts = r.attempts /\ authState'[r.key].window = r.window
        /\ authState'[r.key].stored
    BY <1>1 DEF AdminInv, AdminTypeOK, CommitLogin
  <2> QED
    BY <1>1, <1>4, <2>1, <2>2 DEF AnswersInv
<1>9. ASSUME NEW k \in Keys
      PROVE  AnswersFollow(answered[k])' /\ RowFollows(k)'
  <2>1. CASE k = r.key
    <3>1. AnswersFollow(answered[k])'
      BY <1>1, <1>6, <1>8, <2>1 DEF AnswersFollow
    <3>2. RowFollows(k)'
      <4>1. authState'[k].attempts = r.attempts /\ authState'[k].window = r.window /\ authState'[k].stored
        BY <1>8, <2>1
      <4>2. r.attempts <= MaxGuesses /\ r.window <= step'
        BY <1>1, <1>2
      <4>3. \A n \in DOMAIN answered'[k] : Follows(r.window, r.attempts + 1, answered'[k][n])
        BY <1>7, <1>8, <2>1
      <4> QED
        BY <4>1, <4>2, <4>3 DEF RowFollows
    <3> QED
      BY <3>1, <3>2
  <2>2. CASE k # r.key
    BY <1>1, <1>8, <2>2 DEF AnswersInv, AnswersFollow, RowFollows
  <2> QED
    BY <2>1, <2>2
<1>10. /\ logins'[l] = NoLogin /\ \A o \in Logins : o # l => logins'[o] = logins[o]
  BY <1>1 DEF AdminInv, AdminTypeOK
<1>11. ASSUME NEW o \in Logins, logins'[o].pc = "locked"
       PROVE  LoginFollows(o)'
  <2>1. o # l /\ logins'[o] = logins[o] /\ logins[o].pc = "locked" /\ logins[o].key # r.key /\ logins[o].key \in Keys
    BY <1>1, <1>10, <1>11, NoLoginTyped DEF AdminInv, AdminTypeOK, RowsLocked
  <2>2. answered'[logins[o].key] = answered[logins[o].key]
    BY <1>8, <2>1
  <2> QED
    BY <1>1, <2>1, <2>2 DEF AnswersInv, LoginFollows
<1>12. \A o \in Logins : logins'[o].begun <= step'
  BY <1>1, <1>10 DEF AnswersInv, NoLogin, Login
<1> QED
  BY <1>8, <1>9, <1>11, <1>12 DEF AnswersInv

LEMMA PassTimeKeepsAnswers ==
  ASSUME AdminInv, AnswersInv, PassTime
  PROVE  AnswersInv'
<1>1. step \in Nat /\ step' = step + 1 /\ UNCHANGED <<authState, logins, answered>>
  BY AdminAssumption DEF AdminInv, AdminTypeOK, PassTime
<1>2. \A n \in Nat : n <= step => n <= step'
  BY <1>1
<1>3. \A l \in Logins : logins'[l].begun <= step'
  BY <1>1, <1>2 DEF AdminInv, AdminTypeOK, AnswersInv, LoginRecords
<1>4. ASSUME NEW l \in Logins, logins'[l].pc = "locked"
      PROVE  LoginFollows(l)'
  <2>1. logins[l].window \in Nat
    BY DEF AdminInv, AdminTypeOK, LoginRecords
  <2> QED
    BY <1>1, <1>2, <1>4, <2>1 DEF AnswersInv, LoginFollows
<1>5. ASSUME NEW k \in Keys
      PROVE  AnswersFollow(answered[k])' /\ RowFollows(k)'
  <2>1. authState[k].window \in Nat
    BY DEF AdminInv, AdminTypeOK
  <2>2. RowFollows(k)'
    BY <1>1, <1>2, <2>1 DEF AnswersInv, RowFollows
  <2>3. answered[k] \in Seq(AnswerRecords)
    BY DEF AnswersInv
  <2>4. \A n \in DOMAIN answered[k] : answered[k][n].at \in Nat
    <3>1. ASSUME NEW s \in Seq(AnswerRecords), NEW n \in DOMAIN s
          PROVE  s[n].at \in Nat
      <4>1. s[n] \in AnswerRecords
        OBVIOUS
      <4> QED
        BY <4>1 DEF AnswerRecords
    <3> QED
      BY <2>3, <3>1
  <2>5. AnswersFollow(answered[k])'
    BY <1>1, <1>2, <2>4 DEF AnswersInv, AnswersFollow
  <2> QED
    BY <2>2, <2>5
<1> QED
  BY <1>1, <1>3, <1>4, <1>5 DEF AnswersInv

LEMMA AdminInit_Answers == AdminInit => AnswersInv
<1> SUFFICES ASSUME AdminInit PROVE AnswersInv
  OBVIOUS
<1>1. step = 0 /\ MaxGuesses \in Nat /\ \A k \in Keys : answered[k] = <<>> /\ authState[k] = NoAuth
  BY AdminAssumption DEF AdminInit
<1>2. \A k \in Keys : AnswersFollow(answered[k]) /\ RowFollows(k)
  BY <1>1 DEF AnswersFollow, RowFollows, NoAuth
<1>3. \A l \in Logins : logins[l].pc = "none" /\ logins[l].begun = 0
  BY DEF AdminInit, NoLogin, Login
<1>4. answered \in [Keys -> Seq(AnswerRecords)]
  BY DEF AdminInit
<1> QED
  BY <1>1, <1>2, <1>3, <1>4 DEF AnswersInv

\* However the requests are spread over the boundary of two windows, over
\* concurrent transactions and over restarts with another secret and back: the
\* attempts that are answered in any minute are at most those of two windows.
THEOREM FewGuesses == AdminSpec => []GuessRate
<1>1. AdminInit => RateInv
  BY AdminInit_Inv, AdminInit_Answers DEF RateInv
<1>2. RateInv /\ [AdminNext]_adminVars => RateInv'
  <2> SUFFICES ASSUME AdminInv, AnswersInv, [AdminNext]_adminVars PROVE AnswersInv'
    BY AdminKeeps DEF RateInv
  <2>1. ASSUME NEW l \in Logins, BeginLogin(l)
        PROVE  AnswersInv'
    BY <2>1, BeginKeepsAnswers
  <2>2. ASSUME NEW l \in Logins, CommitLogin(l)
        PROVE  AnswersInv'
    BY <2>2, CommitKeepsAnswers
  <2>3. ASSUME NEW l \in Logins, AbortLogin(l)
        PROVE  AnswersInv'
    BY <2>3, GiveUpKeepsAnswers DEF AbortLogin
  <2>4. ASSUME NEW l \in Logins, NEW code \in Codes, LockRow(l, code)
        PROVE  AnswersInv'
    BY <2>4, LockKeepsAnswers
  <2>5. ASSUME UNCHANGED <<step, authState, logins, answered>>
        PROVE  AnswersInv'
    BY <2>5 DEF AnswersInv, AnswersFollow, RowFollows, LoginFollows
  <2>6. CASE PassTime
    BY <2>6, PassTimeKeepsAnswers
  <2> QED
    BY <2>1, <2>2, <2>3, <2>4, <2>5, <2>6 DEF AdminNext, Logout, ChangeKey, adminVars
<1>3. RateInv => GuessRate
  BY RecentIsFew DEF RateInv, GuessRate
<1> QED
  BY <1>1, <1>2, <1>3, PTL DEF AdminSpec

-----------------------------------------------------------------------------
(***************************************************************************)
(* The process: the way from its start to its end.                         *)
(***************************************************************************)
ProcessTypeOK ==
  /\ command \in {"none", "serve", "worker", "run"}
  /\ at \in {"open", "river", "await", "spawn", "select", "player", "management",
             "stopRiver", "close", "exited"}
  /\ pool \in {"none", "open", "closed"} /\ river \in {"off", "fetching", "stopped"}
  /\ server \in [HTTPServers -> {"none", "spawned", "listening", "send", "ended"}]
  /\ shut \subseteq HTTPServers /\ errCh \in Seq(HTTPServers)

\* Whoever starts the job client comes past the place where it is stopped,
\* before the pool is closed.
RiverEnds ==
  /\ at = "river" => command \in {"worker", "run"}
  /\ river = "fetching" =>
       \/ command = "worker" /\ at \in {"await", "stopRiver"}
       \/ command = "run" /\ at \in {"spawn", "select", "player", "management", "stopRiver"}
  /\ pool = "closed" => at = "exited"

\* The servers are spawned before the main goroutine waits for them, and it
\* goes on only when both are shut down; what is shut down never listens.
ServersEnd ==
  /\ at \in {"open", "river", "await", "spawn"} => \A s \in HTTPServers : server[s] = "none"
  /\ at = "management" => "player" \in shut
  /\ at \in {"stopRiver", "close", "exited"} => shut = HTTPServers \/ \A s \in HTTPServers : server[s] = "none"
  /\ \A s \in shut : server[s] # "listening"

\* Every server reports its end once.
ReportedOnce ==
  /\ \A n \in DOMAIN errCh : server[errCh[n]] = "ended"
  /\ \A m, n \in DOMAIN errCh : m # n => errCh[m] # errCh[n]

ProcessInv == ProcessTypeOK /\ RiverEnds /\ ServersEnd /\ ReportedOnce

\* One more report.
LEMMA SendKeeps ==
  ASSUME ProcessInv, NEW s \in HTTPServers, Send(s)
  PROVE  ProcessInv'
<1>1. /\ errCh \in Seq(HTTPServers) /\ errCh' = Append(errCh, s) /\ server[s] = "send"
      /\ server' = [server EXCEPT ![s] = "ended"]
      /\ UNCHANGED <<command, at, signalled, pool, river, shut>>
  BY DEF ProcessInv, ProcessTypeOK, Send
<1>2. /\ errCh' \in Seq(HTTPServers) /\ DOMAIN errCh' = 1..(Len(errCh) + 1) /\ Len(errCh) \in Nat
      /\ DOMAIN errCh = 1..Len(errCh) /\ errCh'[Len(errCh) + 1] = s
      /\ \A n \in 1..Len(errCh) : errCh'[n] = errCh[n]
  BY <1>1
<1>3. server'[s] = "ended" /\ \A t \in HTTPServers : t # s => server'[t] = server[t]
  BY <1>1 DEF ProcessInv, ProcessTypeOK
<1>4. \A n \in 1..Len(errCh) : errCh[n] # s /\ errCh[n] \in HTTPServers
  BY <1>1, <1>2 DEF ProcessInv, ReportedOnce
<1>5. ReportedOnce'
  <2>1. \A n \in DOMAIN errCh' : n = Len(errCh) + 1 \/ n \in 1..Len(errCh)
    BY <1>2
  <2> QED
    BY <1>2, <1>3, <1>4, <2>1 DEF ProcessInv, ReportedOnce
<1>6. ProcessTypeOK'
  BY <1>1, <1>2 DEF ProcessInv, ProcessTypeOK
<1>7. RiverEnds' /\ ServersEnd'
  BY <1>1, <1>3 DEF ProcessInv, ProcessTypeOK, RiverEnds, ServersEnd
<1> QED
  BY <1>5, <1>6, <1>7 DEF ProcessInv

\* A report is read.
LEMMA SelectKeeps ==
  ASSUME ProcessInv, Select
  PROVE  ProcessInv'
<1>1. /\ at = "select" /\ at' = "player" /\ UNCHANGED <<command, signalled, pool, river, server, shut>>
      /\ errCh \in Seq(HTTPServers)
  BY DEF ProcessInv, ProcessTypeOK, Select
<1>2. ReportedOnce' /\ errCh' \in Seq(HTTPServers)
  <2>1. CASE errCh' = errCh
    BY <1>1, <2>1 DEF ProcessInv, ReportedOnce
  <2>2. CASE errCh # <<>> /\ errCh' = Tail(errCh)
    <3>1. /\ errCh' \in Seq(HTTPServers) /\ DOMAIN errCh' = 1..(Len(errCh) - 1) /\ Len(errCh) \in Nat
          /\ DOMAIN errCh = 1..Len(errCh) /\ \A n \in 1..(Len(errCh) - 1) : errCh'[n] = errCh[n + 1]
      BY <1>1, <2>2
    <3>2. \A n \in DOMAIN errCh' : n + 1 \in DOMAIN errCh /\ errCh'[n] = errCh[n + 1] /\ n \in Nat
      BY <3>1
    <3> QED
      BY <1>1, <3>1, <3>2 DEF ProcessInv, ReportedOnce
  <2> QED
    BY <2>1, <2>2 DEF Select
<1> QED
  BY <1>1, <1>2 DEF ProcessInv, ProcessTypeOK, RiverEnds, ServersEnd

LEMMA ServersKeep ==
  ASSUME ProcessInv, NEW s \in HTTPServers,
         Listen(s) \/ Unlisten(s) \/ Shutdown(s) \/ ShutdownReturns(s)
  PROVE  ProcessInv'
<1>1. \A n \in DOMAIN errCh : errCh[n] \in HTTPServers
  BY DEF ProcessInv, ProcessTypeOK
<1>2. CASE Listen(s)
  BY <1>1, <1>2 DEF ProcessInv, ProcessTypeOK, RiverEnds, ServersEnd, ReportedOnce, Listen
<1>3. CASE Unlisten(s)
  BY <1>1, <1>3 DEF ProcessInv, ProcessTypeOK, RiverEnds, ServersEnd, ReportedOnce, Unlisten
<1>4. CASE Shutdown(s)
  BY <1>1, <1>4 DEF ProcessInv, ProcessTypeOK, RiverEnds, ServersEnd, ReportedOnce, Shutdown, HTTPServers
<1>5. CASE ShutdownReturns(s)
  <2>1. /\ at = s /\ s \in shut /\ at' = AfterShutdown(s)
        /\ UNCHANGED <<command, signalled, pool, river, server, shut, errCh>>
    BY <1>5 DEF ShutdownReturns
  <2>2. CASE s = "player"
    BY <2>1, <2>2 DEF ProcessInv, ProcessTypeOK, RiverEnds, ServersEnd, ReportedOnce, AfterShutdown
  <2>3. CASE s = "management"
    <3>1. at' \in {"stopRiver", "close"} /\ (at' = "close" => command # "run")
      BY <2>1, <2>3 DEF AfterShutdown
    <3>2. shut = HTTPServers
      BY <2>1, <2>3 DEF ProcessInv, ProcessTypeOK, ServersEnd, HTTPServers
    <3>3. RiverEnds'
      BY <2>1, <2>3, <3>1 DEF ProcessInv, RiverEnds
    <3> QED
      BY <2>1, <2>3, <3>1, <3>2, <3>3 DEF ProcessInv, ProcessTypeOK, ServersEnd, ReportedOnce
  <2> QED
    BY <2>2, <2>3 DEF HTTPServers
<1> QED
  BY <1>2, <1>3, <1>4, <1>5

\* Whoever reads the channel no longer, both reports have room in it.
LEMMA RoomToReport ==
  ASSUME ProcessInv, NEW s \in HTTPServers, server[s] = "send"
  PROVE  Len(errCh) < ErrChSize
<1> SUFFICES ASSUME ~(Len(errCh) < 2) PROVE FALSE
  BY DEF ErrChSize
<1>1. errCh \in Seq(HTTPServers) /\ 1 \in DOMAIN errCh /\ 2 \in DOMAIN errCh
  BY DEF ProcessInv, ProcessTypeOK
<1>2. /\ errCh[1] \in HTTPServers /\ errCh[2] \in HTTPServers
      /\ errCh[1] # errCh[2] /\ errCh[1] # s /\ errCh[2] # s
  BY <1>1 DEF ProcessInv, ReportedOnce
<1> QED
  BY <1>2 DEF HTTPServers

\* In each command, whatever fails at its start, whichever signal or error
\* ends it and whatever goroutine is late: the pool is closed after the job
\* client and both servers, and no goroutine is left with an error that it
\* cannot deliver.
THEOREM OrderlyStop == ProcessSpec => []StopsInOrder
<1>1. ProcessInit => ProcessInv
  BY DEF ProcessInit, ProcessInv, ProcessTypeOK, RiverEnds, ServersEnd, ReportedOnce
<1>2. ProcessInv /\ [ProcessNext]_processVars => ProcessInv'
  <2> SUFFICES ASSUME ProcessInv, [ProcessNext]_processVars PROVE ProcessInv'
    OBVIOUS
  <2> USE DEF ProcessInv, ProcessTypeOK, RiverEnds, ServersEnd, ReportedOnce
  <2>1. ASSUME NEW c \in {"serve", "worker", "run"}, OpenPool(c)
        PROVE  ProcessInv'
    <3>1. /\ at = "open" /\ command' = c /\ UNCHANGED <<signalled, river, server, shut, errCh>>
          /\ pool' \in {"open", "none"} /\ at' \in {"spawn", "river", "close", "exited"}
          /\ at' = "river" => c # "serve"
      BY <2>1 DEF OpenPool
    <3>2. river # "fetching" /\ \A s \in HTTPServers : server[s] = "none"
      BY <3>1
    <3>3. ProcessTypeOK'
      BY <3>1
    <3>4. RiverEnds'
      BY <3>1, <3>2
    <3>5. ServersEnd' /\ ReportedOnce'
      BY <3>1, <3>2
    <3> QED
      BY <3>3, <3>4, <3>5
  <2>2. CASE StartRiver
    <3>1. /\ at = "river" /\ at' \in {"await", "spawn", "close"}
          /\ UNCHANGED <<command, signalled, pool, server, shut, errCh>>
          /\ river' = river \/ (river' = "fetching" /\ at' = IF command = "worker" THEN "await" ELSE "spawn")
      BY <2>2 DEF StartRiver
    <3>2. river # "fetching" /\ \A s \in HTTPServers : server[s] = "none"
      BY <3>1
    <3>3. ProcessTypeOK'
      BY <3>1
    <3>4. RiverEnds'
      BY <3>1, <3>2
    <3>5. ServersEnd' /\ ReportedOnce'
      BY <3>1, <3>2
    <3> QED
      BY <3>3, <3>4, <3>5
  <2>3. CASE RiverHears \/ Signal \/ Await
    BY <2>3 DEF RiverHears, Signal, Await
  <2>4. CASE Spawn
    <3>1. errCh = errCh' /\ \A n \in DOMAIN errCh : FALSE
      <4>1. \A n \in DOMAIN errCh : errCh[n] \in HTTPServers
        OBVIOUS
      <4> QED
        BY <2>4, <4>1 DEF Spawn
    <3> QED
      BY <2>4, <3>1 DEF Spawn
  <2>5. CASE StopRiver \/ ClosePool
    BY <2>5 DEF StopRiver, ClosePool
  <2>6. CASE UNCHANGED processVars
    BY <2>6 DEF processVars
  <2> HIDE DEF ProcessInv
  <2> QED
    BY <2>1, <2>2, <2>3, <2>4, <2>5, <2>6, SendKeeps, SelectKeeps, ServersKeep DEF ProcessNext
<1>3. ProcessInv => StopsInOrder
  <2> SUFFICES ASSUME ProcessInv PROVE StopsInOrder
    OBVIOUS
  <2>1. pool = "closed" => river # "fetching" /\ \A s \in HTTPServers : server[s] # "listening"
    BY DEF ProcessInv, RiverEnds, ServersEnd
  <2> QED
    BY <2>1, RoomToReport DEF StopsInOrder
<1> QED
  BY <1>1, <1>2, <1>3, PTL DEF ProcessSpec
=============================================================================
