---------------------------- MODULE LibraryProofs ----------------------------
(***************************************************************************)
(* The theorems about Library: what listeners are offered is accepted, and *)
(* the places that show an episode agree, for every set of episodes,       *)
(* owners and hosts and any number of days.                                *)
(***************************************************************************)
EXTENDS Library, TLAPS

Statuses == WorkerStatuses \cup {"none", "published"}

Row == [status : Statuses, audio : {"", "local", "remote"}, key : BOOLEAN,
        published : Nat, hidden : BOOLEAN]

\* What the rows keep to: what is published has audio and a day, and what the
\* administrator concealed is marked hidden, whatever was written since.
RowsOK ==
  /\ today \in Nat /\ today > 0 /\ waiting \subseteq FeedSources
  /\ shelf \in [Library -> Row] /\ concealed \subseteq Library
  /\ \A e \in Library :
       /\ shelf[e].status = "published" => shelf[e].audio # "" /\ shelf[e].published # 0
       /\ e \in concealed => shelf[e].hidden /\ Present(e)

-----------------------------------------------------------------------------
LEMMA InitRows == LibraryAssumption /\ LibraryInit => RowsOK
<1> SUFFICES ASSUME LibraryInit PROVE RowsOK
  OBVIOUS
<1>1. Absent \in Row /\ Absent.status # "published"
  BY DEF Absent, Row, Statuses
<1>2. shelf \in [Library -> Row] /\ \A e \in Library : shelf[e] = Absent
  BY <1>1 DEF LibraryInit
<1>3. today \in Nat /\ today > 0 /\ waiting \subseteq FeedSources /\ concealed = {}
  BY DEF LibraryInit
<1>4. \A e \in Library : shelf[e].status # "published" /\ e \notin concealed
  BY <1>1, <1>2, <1>3
<1> QED
  BY <1>2, <1>3, <1>4 DEF RowsOK

\* A step that writes one well-formed row and conceals no other.
LEMMA OneRow ==
  ASSUME RowsOK, NEW e \in Library, NEW row \in Row,
         shelf' = [shelf EXCEPT ![e] = row], UNCHANGED <<today, waiting>>,
         row.status = "published" => row.audio # "" /\ row.published # 0,
         concealed' \subseteq concealed \cup {e}, e \in concealed' => row.hidden /\ row.status # "none"
  PROVE  RowsOK'
<1>1. /\ shelf' \in [Library -> Row] /\ shelf'[e] = row
      /\ \A d \in Library \ {e} : shelf'[d] = shelf[d] /\ (d \in concealed' => d \in concealed)
  BY DEF RowsOK
<1> QED
  BY <1>1 DEF RowsOK, Present

LEMMA StepRows == LibraryAssumption /\ RowsOK /\ [LibraryNext]_libraryVars => RowsOK'
<1> SUFFICES ASSUME LibraryAssumption, RowsOK, [LibraryNext]_libraryVars
             PROVE  RowsOK'
  OBVIOUS
<1>1. \A e \in Library : shelf[e] \in Row
  BY DEF RowsOK
<1>2. Absent \in Row /\ Absent.status = "none" /\ Absent.hidden = FALSE
  BY DEF Absent, Row, Statuses
<1> DEFINE Day(t) == t \in Nat /\ t > 0
<1>3. Day(today) /\ today # 0 /\ Day(today + 1)
  <2>1. Day(today)
    BY DEF RowsOK
  <2> QED
    BY <2>1
<1>4. ASSUME NEW e \in Library, Create(e)
      PROVE  RowsOK'
  <2> DEFINE row == [Absent EXCEPT !.status = "queued"]
  <2>1. row \in Row /\ row.status = "queued"
    BY DEF Absent, Row, Statuses, WorkerStatuses
  <2>2. e \notin concealed
    BY <1>4 DEF Create, RowsOK
  <2> QED
    BY <1>4, <2>1, <2>2, OneRow DEF Create
<1>5. ASSUME NEW e \in Library, Mirror(e)
      PROVE  RowsOK'
  <2>1. e \notin concealed
    BY <1>5 DEF Mirror, RowsOK
  <2> QED
    BY <1>5, <1>3, <2>1, OneRow DEF Mirror, Absent, Row, Statuses
<1>6. ASSUME NEW e \in Library, NEW status \in WorkerStatuses, Present(e),
             shelf' = [shelf EXCEPT ![e].status = status], UNCHANGED <<today, waiting, concealed>>
      PROVE  RowsOK'
  <2> DEFINE row == [shelf[e] EXCEPT !.status = status]
  <2>1. shelf' = [shelf EXCEPT ![e] = row]
    BY <1>6
  <2>2. row \in Row /\ row.status = status /\ row.hidden = shelf[e].hidden
    BY <1>1 DEF Row, Statuses
  <2>3. status # "none" /\ status # "published"
    BY DEF WorkerStatuses
  <2>4. e \in concealed => row.hidden
    BY <2>2 DEF RowsOK
  <2> QED
    BY <1>6, <2>1, <2>2, <2>3, <2>4, OneRow
<1>7. ASSUME NEW e \in Library, Compose(e)
      PROVE  RowsOK'
  <2> DEFINE row == [shelf[e] EXCEPT !.status = "published", !.audio = "local",
                                     !.key = TRUE, !.published = today]
  <2>1. shelf' = [shelf EXCEPT ![e] = row]
    BY <1>1, <1>7 DEF Compose, Row
  <2>2. /\ row \in Row /\ row.status = "published" /\ row.audio = "local"
        /\ row.published # 0 /\ row.hidden = shelf[e].hidden
    BY <1>1, <1>3 DEF Row, Statuses
  <2>3. e \in concealed => row.hidden
    BY <2>2 DEF RowsOK
  <2> QED
    BY <1>7, <2>1, <2>2, <2>3, OneRow DEF Compose
<1>8. ASSUME NEW e \in Library, NEW hide \in BOOLEAN, SetVisibility(e, hide)
      PROVE  RowsOK'
  <2> DEFINE row == [shelf[e] EXCEPT !.hidden = hide]
  <2>1. shelf' = [shelf EXCEPT ![e] = row] /\ UNCHANGED <<today, waiting>>
    BY <1>8 DEF SetVisibility
  <2>2. /\ row \in Row /\ row.status = "published" /\ row.hidden = hide
        /\ row.audio = shelf[e].audio /\ row.published = shelf[e].published
    BY <1>1, <1>8 DEF Row, SetVisibility
  <2>3. row.audio # "" /\ row.published # 0
    BY <1>8, <2>2 DEF RowsOK, SetVisibility
  <2>4. concealed' \subseteq concealed \cup {e} /\ (e \in concealed' => hide)
    BY <1>8 DEF SetVisibility
  <2> QED
    BY <2>1, <2>2, <2>3, <2>4, OneRow
<1>9. ASSUME NEW e \in Library, StartHere(e)
      PROVE  RowsOK'
  <2>1. Present(e)
    BY <1>9 DEF StartHere, StartAnswer
  <2>2. PICK stage \in WorkerStatuses :
          /\ shelf' = [shelf EXCEPT ![e].status = stage]
          /\ UNCHANGED <<today, waiting, concealed>>
    BY <1>9 DEF StartHere, WorkerStatuses
  <2> QED
    BY <1>6, <2>1, <2>2
<1>10. ASSUME NEW e \in Library, RemoveRow(e)
      PROVE  RowsOK'
  <2>1. /\ shelf' = [shelf EXCEPT ![e] = Absent] /\ concealed' = concealed \ {e}
        /\ UNCHANGED <<today, waiting>>
    BY <1>10 DEF RemoveRow
  <2>2. Absent.status # "published" /\ e \notin concealed' /\ concealed' \subseteq concealed \cup {e}
    BY <1>2, <2>1
  <2> QED
    BY <1>2, <2>1, <2>2, OneRow
<1>11. CASE \E on \in SUBSET Owners, lazy \in SUBSET FeedSources : Reconfigure(on, lazy)
  BY <1>11 DEF Reconfigure, RowsOK, Present
<1>12. CASE PassDay \/ UNCHANGED libraryVars
  <2>1. UNCHANGED <<shelf, waiting, concealed>> /\ (today' = today \/ today' = today + 1)
    BY <1>12 DEF PassDay, libraryVars
  <2>2. Day(today')
    BY <1>3, <2>1
  <2> QED
    BY <2>1, <2>2 DEF RowsOK, Present
<1> QED
  BY <1>4, <1>5, <1>6, <1>7, <1>8, <1>9, <1>10, <1>11, <1>12 DEF LibraryNext, Work

-----------------------------------------------------------------------------
(* What listeners see *)

LEMMA OffersAccepted == LibraryAssumption /\ RowsOK => ShownIsAccepted
<1> SUFFICES ASSUME LibraryAssumption, RowsOK,
                    NEW e \in Listed(Owners, 0, MaxDays + 1, TRUE)
             PROVE  ShownState(e) \in {"pending", "failed"} <=> StartAnswer(e) = "accepted"
  BY DEF ShownIsAccepted
<1>1. /\ e \in Library /\ Present(e) /\ shelf[e] \in Row
      /\ \/ shelf[e].status = "published" /\ shelf[e].audio # ""
         \/ OwnerOf[e] \in PollOnlySources
      /\ shelf[e].status = "published" => shelf[e].audio # ""
  BY DEF Listed, RowsOK
<1>2. CASE shelf[e].status = "published"
  BY <1>1, <1>2 DEF ShownState, StartAnswer
<1>3. CASE shelf[e].status # "published"
  <2>1. OwnerOf[e] \in PollOnlySources
    BY <1>1, <1>3
  <2>2. shelf[e].status \in WorkerStatuses
    BY <1>1, <1>3 DEF Row, Statuses, Present
  <2> QED
    BY <1>1, <1>3, <2>1, <2>2 DEF ShownState, StartAnswer, WorkerStatuses
<1> QED
  BY <1>2, <1>3

LEMMA OneView == LibraryAssumption /\ RowsOK => PlacesAgree
<1> SUFFICES ASSUME LibraryAssumption, RowsOK
             PROVE  PlacesAgree
  OBVIOUS
<1>1. ASSUME NEW o \in Owners, NEW e \in Podcast(o)
      PROVE  /\ \A d \in 0..MaxDays : e \in Listed({o}, d, d + 1, FALSE) <=> d = shelf[e].published
             /\ ShownState(e) = "ready" /\ e \notin concealed
             /\ \A g, h \in HostForms : g.name = h.name /\ ~(g.dot /\ g.port) /\ ~(h.dot /\ h.port)
                  => AudioURL(g, e) = AudioURL(h, e)
  <2>1. /\ e \in Library /\ OwnerOf[e] = o /\ shelf[e].status = "published"
        /\ shelf[e].audio # "" /\ ~shelf[e].hidden
    BY DEF Podcast
  <2>2. shelf[e].published \in Nat /\ shelf[e].published # 0
    BY <2>1 DEF RowsOK, Row
  <2>3. Present(e) /\ DayOf(e) = shelf[e].published
    BY <2>1, <2>2 DEF Present, DayOf
  <2>4. \A d \in 0..MaxDays : e \in Listed({o}, d, d + 1, FALSE) <=> d = shelf[e].published
    <3> SUFFICES ASSUME NEW d \in 0..MaxDays
                 PROVE  e \in Listed({o}, d, d + 1, FALSE) <=> d = shelf[e].published
      OBVIOUS
    <3>1. e \in Listed({o}, d, d + 1, FALSE) <=> d <= DayOf(e) /\ DayOf(e) < d + 1
      BY <2>1, <2>3 DEF Listed
    <3>2. d \in Nat
      BY DEF LibraryAssumption
    <3> QED
      <4>1. \A x \in Nat : d <= x /\ x < d + 1 <=> d = x
        BY <3>2
      <4> QED
        BY <2>2, <2>3, <3>1, <4>1
  <2>5. ShownState(e) = "ready" /\ e \notin concealed
    BY <2>1 DEF ShownState, RowsOK
  <2>6. \A g, h \in HostForms : g.name = h.name /\ ~(g.dot /\ g.port) /\ ~(h.dot /\ h.port)
          => AudioURL(g, e) = AudioURL(h, e)
    BY DEF AudioURL, MediaBase
  <2> QED
    BY <2>4, <2>5, <2>6
<1>2. PublicList \cap concealed = {}
  BY DEF PublicList, Listed, RowsOK
<1> QED
  BY <1>1, <1>2 DEF PlacesAgree

-----------------------------------------------------------------------------
LEMMA RowsHold == LibrarySpec => []RowsOK
<1>1. LibraryInit => RowsOK
  BY LibraryAssumption, InitRows
<1>2. RowsOK /\ [LibraryNext]_libraryVars => RowsOK'
  BY LibraryAssumption, StepRows
<1> QED
  BY <1>1, <1>2, PTL DEF LibrarySpec

\* In every reachable state, what the player offers to start is accepted and
\* nothing else is, whatever workers, restarts and redelivered jobs wrote.
THEOREM OffersWork == LibrarySpec => []ShownIsAccepted
<1>1. RowsOK => ShownIsAccepted
  BY LibraryAssumption, OffersAccepted
<1> QED
  BY <1>1, RowsHold, PTL

\* The podcast feed, the list of every day and the media addresses agree, and
\* what the administrator hid stays out of both when it is composed again, for
\* any rows, owners, configurations, hosts and number of days.
THEOREM OnePicture == LibrarySpec => []PlacesAgree
<1>1. RowsOK => PlacesAgree
  BY LibraryAssumption, OneView
<1> QED
  BY <1>1, RowsHold, PTL
=============================================================================
