-------------------------- MODULE FilterOrderProofs --------------------------
(***************************************************************************)
(* No entry of the player's filter is lost, whatever the configuration     *)
(* asks for, and the filter shows them as it asks: the theorems about      *)
(* FilterOrder, for any number of entries.                                 *)
(***************************************************************************)
EXTENDS FilterOrder, FiniteSetTheorems, TLAPS

-----------------------------------------------------------------------------
\* The ordered entries that are not placed yet have room behind the position
\* that was taken last: this is what Latest leaves them.
RoomLeft == free <= Len(entries) - (Len(ordered) - (round - 1))

FilterInv ==
  /\ entries \in Seq(Nat)
  /\ building \in {"declare", "place", "fill"}
  /\ building = "declare" => places = <<>> /\ free = 0 /\ round = 1 /\ ordered = <<>>
  /\ building = "place" =>
       /\ ordered \in [1..Cardinality(Asking) -> Asking] /\ Cardinality(Asking) \in Nat
       /\ round \in 1..(Len(ordered) + 1) /\ free \in Nat /\ RoomLeft
       /\ \A e \in DOMAIN places : places[e] < free
  /\ NoneOverwritten

\* The first n numbers are n.
LEMMA FirstsCounted ==
  ASSUME NEW n \in Nat
  PROVE  IsFiniteSet(1..n) /\ Cardinality(1..n) = n
<1>1. 1 \in Int /\ n \in Int
  OBVIOUS
<1>2. IsFiniteSet(1..n) /\ Cardinality(1..n) = IF 1 > n THEN 0 ELSE n - 1 + 1
  BY <1>1, FS_Interval, Zenon
<1>3. (IF 1 > n THEN 0 ELSE n - 1 + 1) = n
  OBVIOUS
<1> QED
  BY <1>2, <1>3

\* Not more entries ask for an order than there are.
LEMMA AskingFits ==
  ASSUME entries \in Seq(Nat)
  PROVE  Cardinality(Asking) \in Nat /\ Cardinality(Asking) <= Len(entries)
<1>1. DOMAIN entries = 1..Len(entries) /\ Len(entries) \in Nat
  OBVIOUS
<1>2. IsFiniteSet(1..Len(entries)) /\ Cardinality(1..Len(entries)) = Len(entries)
  BY <1>1, FirstsCounted, Zenon
<1>3. Asking \subseteq 1..Len(entries)
  BY <1>1 DEF Asking
<1> QED
  BY <1>2, <1>3, FS_Subset, FS_CardinalityType

\* One more place, for an entry that may or may not have had one, that nobody
\* else has.
LEMMA WithKeeps ==
  ASSUME NEW e, NEW n \in Slots, NoneOverwritten,
         \A d \in DOMAIN places : places[d] # n,
         entries' = entries, places' = With(e, n)
  PROVE  NoneOverwritten'
  BY DEF NoneOverwritten, With, Slots

LEMMA FilterInit_Inv == FilterInit => FilterInv
  BY DEF FilterInit, FilterInv, NoneOverwritten

LEMMA DeclareKeeps ==
  ASSUME FilterInv, NEW order \in 0..MaxOrder, Declare(order)
  PROVE  FilterInv'
<1>1. entries' \in Seq(Nat)
  BY FilterAssumption DEF FilterInv, Declare
<1> QED
  BY <1>1 DEF FilterInv, Declare, NoneOverwritten

LEMMA SortKeeps ==
  ASSUME FilterInv, SortEntries
  PROVE  FilterInv'
<1>1. /\ Cardinality(Asking) \in Nat /\ Cardinality(Asking) <= Len(entries)
      /\ Len(entries) \in Nat
  BY AskingFits DEF FilterInv
<1>2. ordered' \in [1..Cardinality(Asking) -> Asking] /\ Len(ordered') = Cardinality(Asking)
  BY <1>1 DEF SortEntries
<1>3. Asking' = Asking
  BY DEF SortEntries, Asking
<1>4. places' = <<>> /\ free' = 0 /\ round' = 1 /\ entries' = entries /\ building' = "place"
  BY DEF FilterInv, SortEntries
<1> QED
  BY <1>1, <1>2, <1>3, <1>4 DEF FilterInv, RoomLeft, NoneOverwritten

LEMMA PlaceKeeps ==
  ASSUME FilterInv, Place
  PROVE  FilterInv'
<1>1. /\ Len(entries) \in Nat /\ Len(ordered) \in Nat /\ round \in 1..Len(ordered) /\ free \in Nat
      /\ ordered[round] \in Asking /\ entries[ordered[round]] \in Nat \ {0}
  <2>1. /\ entries \in Seq(Nat) /\ free \in Nat /\ round \in 1..(Len(ordered) + 1) /\ round <= Len(ordered)
        /\ ordered \in [1..Cardinality(Asking) -> Asking] /\ Cardinality(Asking) \in Nat
    BY DEF FilterInv, Place
  <2>2. Len(ordered) = Cardinality(Asking)
    BY <2>1
  <2>3. round \in 1..Len(ordered)
    BY <2>1, <2>2
  <2>4. ordered[round] \in Asking
    BY <2>1, <2>2, <2>3
  <2>5. entries[ordered[round]] \in Nat \ {0}
    BY <2>1, <2>4 DEF Asking
  <2> QED
    BY <2>1, <2>2, <2>3, <2>4, <2>5
<1>2. free <= Latest /\ Latest \in Int /\ Latest <= Len(entries) - 1
  BY <1>1 DEF FilterInv, Place, RoomLeft, Latest
<1>3. Position \in Nat /\ free <= Position /\ Position <= Latest
  BY <1>1, <1>2 DEF Position, Earliest
<1>4. Position \in Slots
  BY <1>1, <1>2, <1>3 DEF Slots
<1>5. \A d \in DOMAIN places : places[d] < free /\ places[d] \in Slots
  BY DEF FilterInv, Place, NoneOverwritten
<1>6. \A d \in DOMAIN places : places[d] # Position
  BY <1>1, <1>3, <1>5 DEF Slots
<1>7. NoneOverwritten'
  BY <1>4, <1>6, WithKeeps DEF FilterInv, Place
<1>8. \A d \in DOMAIN places' : places'[d] < free'
  BY <1>1, <1>3, <1>5 DEF Place, With, Slots
<1>9. RoomLeft'
  BY <1>1, <1>2, <1>3 DEF RoomLeft, Latest, Place
<1>10. free' \in Nat /\ round' \in 1..(Len(ordered) + 1)
  BY <1>1, <1>3 DEF Place
<1> QED
  BY <1>7, <1>8, <1>9, <1>10 DEF FilterInv, Place, Asking

LEMMA FillKeeps ==
  ASSUME FilterInv, Fill
  PROVE  FilterInv'
<1>1. PICK e \in DOMAIN entries \ DOMAIN places, slot \in Slots \ Taken : places' = With(e, slot)
  BY DEF Fill
<1>2. \A d \in DOMAIN places : places[d] # slot
  BY <1>1 DEF Taken
<1>3. NoneOverwritten'
  BY <1>1, <1>2, WithKeeps DEF FilterInv, Fill
<1> QED
  BY <1>3 DEF FilterInv, Fill

LEMMA FilterKeeps == FilterInv /\ [FilterNext]_filterVars => FilterInv'
<1> SUFFICES ASSUME FilterInv, [FilterNext]_filterVars PROVE FilterInv'
  OBVIOUS
<1>1. CASE \E order \in 0..MaxOrder : Declare(order)
  BY <1>1, DeclareKeeps
<1>2. CASE SortEntries
  BY <1>2, SortKeeps
<1>3. CASE Place
  BY <1>3, PlaceKeeps
<1>4. CASE Placed
  BY <1>4 DEF FilterInv, Placed, NoneOverwritten, Slots
<1>5. CASE Fill
  BY <1>5, FillKeeps
<1>6. CASE UNCHANGED filterVars
  BY <1>6 DEF FilterInv, filterVars, NoneOverwritten, Slots, Asking, RoomLeft
<1> QED
  BY <1>1, <1>2, <1>3, <1>4, <1>5, <1>6 DEF FilterNext

\* However many entries ask for the same place, for places that do not exist
\* or for none, each has a place of its own inside the filter.
THEOREM NoEntryLost == FilterSpec => []NoneOverwritten
<1>1. FilterInv => NoneOverwritten
  BY DEF FilterInv
<1> QED
  BY <1>1, FilterInit_Inv, FilterKeeps, PTL DEF FilterSpec

-----------------------------------------------------------------------------
\* No two entries ask for the same place, and none for a place that there is not.
Apart == \A d, e \in Asking : entries[d] <= Len(entries) /\ (d # e => entries[d] # entries[e])

\* The ordered entries are those that ask for a place, sorted ...
SortedByOrder ==
  /\ \A m, n \in DOMAIN ordered : m < n => Before(ordered[m], ordered[n])
  /\ \A e \in Asking : \E n \in DOMAIN ordered : ordered[n] = e

\* ... each is placed behind those before it, and if they are apart, where it
\* asks to be.
PlacedInOrder(placed) ==
  /\ \A m, n \in 1..placed : m < n => places[ordered[m]] < places[ordered[n]]
  /\ Apart => \A n \in 1..placed : places[ordered[n]] = entries[ordered[n]] - 1

\* The others take the slots that are left, from the first on, in their order.
FilledInOrder ==
  \A d \in DOMAIN places \ Asking :
    /\ \A e \in DOMAIN entries \ DOMAIN places : d < e
    /\ \A slot \in Slots \ Taken : places[d] < slot
    /\ \A e \in DOMAIN places \ Asking : d < e => places[d] < places[e]

OrderInv ==
  /\ building = "declare" => free = 0
  /\ building = "place" =>
       /\ SortedByOrder /\ PlacedInOrder(round - 1)
       /\ DOMAIN places = {ordered[n] : n \in 1..(round - 1)}
       /\ round = 1 => free = 0
       /\ round > 1 => free = places[ordered[round - 1]] + 1
  /\ building = "fill" =>
       /\ ordered \in [1..Cardinality(Asking) -> Asking] /\ Cardinality(Asking) \in Nat
       /\ Asking \subseteq DOMAIN places /\ DOMAIN places \subseteq DOMAIN entries
       /\ SortedByOrder /\ PlacedInOrder(Len(ordered)) /\ FilledInOrder

LEMMA EntriesTyped ==
  ASSUME FilterInv
  PROVE  /\ DOMAIN entries = 1..Len(entries) /\ Len(entries) \in Nat
         /\ \A e \in DOMAIN entries : entries[e] \in Nat
         /\ Asking \subseteq DOMAIN entries /\ \A e \in Asking : entries[e] \in Nat \ {0} /\ e \in Nat
<1>1. entries \in Seq(Nat)
  BY DEF FilterInv
<1> QED
  BY <1>1 DEF Asking

\* A sequence of as many different entries as ask for a place has them all.
LEMMA SortCovers ==
  ASSUME FilterInv, Cardinality(Asking) \in Nat,
         NEW sorted \in [1..Cardinality(Asking) -> Asking],
         \A m, n \in DOMAIN sorted : m < n => Before(sorted[m], sorted[n])
  PROVE  \A e \in Asking : \E n \in DOMAIN sorted : sorted[n] = e
<1> DEFINE N == Cardinality(Asking)
<1>1. IsFiniteSet(Asking)
  <2>1. IsFiniteSet(1..Len(entries))
    BY EntriesTyped, FirstsCounted
  <2> QED
    BY <2>1, EntriesTyped, FS_Subset
<1>2. IsFiniteSet(1..N) /\ Cardinality(1..N) = N
  BY FirstsCounted
<1>3. \A m, n \in 1..N : m < n => sorted[m] # sorted[n]
  <2>1. \A e \in Asking : ~Before(e, e)
    BY EntriesTyped DEF Before
  <2> QED
    BY <2>1
<1>4. \A m, n \in 1..N : m < n \/ n < m \/ m = n
  OBVIOUS
<1>5. sorted \in Injection(1..N, Asking)
  BY <1>3, <1>4 DEF Injection, IsInjective
<1>6. sorted \in Surjection(1..N, Asking)
  BY <1>1, <1>2, <1>5, FS_Injection
<1> QED
  BY <1>6 DEF Surjection

LEMMA IntervalSize ==
  ASSUME NEW a \in Nat, NEW b \in Nat, a <= b
  PROVE  IsFiniteSet(a..b) /\ Cardinality(a..b) = b - a + 1
BY FS_Interval

\* When no two entries ask for the same place there are places enough behind
\* the one that the next entry asks for.
LEMMA ApartFits ==
  ASSUME FilterInv, building = "place", SortedByOrder, Apart, round \in 1..Len(ordered)
  PROVE  entries[ordered[round]] - 1 <= Latest
<1> DEFINE K == Len(ordered)
           L == Len(entries)
           low == entries[ordered[round]]
           f == [n \in round..K |-> entries[ordered[n]]]
<1>1. /\ K \in Nat /\ L \in Nat /\ round \in Nat /\ round <= K /\ low \in Nat
      /\ ordered \in [1..K -> Asking]
  <2>1. ordered \in [1..Cardinality(Asking) -> Asking] /\ Cardinality(Asking) \in Nat
    BY DEF FilterInv
  <2>2. K = Cardinality(Asking)
    BY <2>1
  <2>3. ordered[round] \in Asking
    BY <2>1, <2>2
  <2> QED
    BY <2>1, <2>2, <2>3, EntriesTyped
<1>2. \A n \in round..K : ordered[n] \in Asking /\ entries[ordered[n]] \in Nat /\ entries[ordered[n]] <= L
  BY <1>1, EntriesTyped DEF Apart
<1>3. \A m, n \in round..K : m < n => entries[ordered[m]] < entries[ordered[n]]
  <2> SUFFICES ASSUME NEW m \in round..K, NEW n \in round..K, m < n
               PROVE  entries[ordered[m]] < entries[ordered[n]]
    OBVIOUS
  <2>a. m \in DOMAIN ordered /\ n \in DOMAIN ordered
    BY <1>1
  <2>b. Before(ordered[m], ordered[n])
    BY <2>a DEF SortedByOrder
  <2>1. Before(ordered[m], ordered[n]) /\ ordered[m] # ordered[n]
    BY <1>2, <2>b, EntriesTyped DEF Before
  <2>2. entries[ordered[m]] # entries[ordered[n]]
    BY <1>2, <2>1 DEF Apart
  <2> QED
    BY <1>2, <2>1, <2>2 DEF Before
<1>4. \A n \in round..K : entries[ordered[n]] \in low..L
  BY <1>1, <1>2, <1>3
<1>5. f \in [round..K -> low..L]
  BY <1>4
<1>6. \A m, n \in round..K : f[m] = f[n] => m = n
  <2>1. \A m, n \in round..K : m < n \/ n < m \/ m = n
    BY <1>1
  <2> QED
    BY <1>2, <1>3, <2>1
<1>7. f \in Injection(round..K, low..L)
  BY <1>5, <1>6 DEF Injection, IsInjective
<1> HIDE DEF f, K, L, low
<1>8. low <= L
  BY <1>1, <1>2 DEF low
<1>9. IsFiniteSet(low..L) /\ Cardinality(low..L) = L - low + 1
  BY <1>1, <1>8, IntervalSize
<1>10. Cardinality(round..K) = K - round + 1
  BY <1>1, IntervalSize
<1>11. Cardinality(round..K) <= Cardinality(low..L)
  BY <1>7, <1>9, FS_Injection
<1> QED
  BY <1>1, <1>9, <1>10, <1>11 DEF Latest, K, L, low
LEMMA SortKeepsOrder ==
  ASSUME FilterInv, OrderInv, SortEntries
  PROVE  OrderInv'
<1>1. PICK sorted \in [1..Cardinality(Asking) -> Asking] :
        /\ \A m, n \in DOMAIN sorted : m < n => Before(sorted[m], sorted[n])
        /\ ordered' = sorted
  BY DEF SortEntries
<1>2. Cardinality(Asking) \in Nat
  BY AskingFits DEF FilterInv
<1>3. Asking' = Asking /\ entries' = entries /\ places' = <<>> /\ free' = 0 /\ round' = 1 /\ building' = "place"
  BY DEF FilterInv, SortEntries, Asking
<1>4. \A e \in Asking : \E n \in DOMAIN sorted : sorted[n] = e
  BY <1>1, <1>2, SortCovers
<1>5. SortedByOrder'
  BY <1>1, <1>3, <1>4 DEF SortedByOrder, Before
<1>6. PlacedInOrder(round - 1)'
  BY <1>3 DEF PlacedInOrder
<1>7. DOMAIN places' = {ordered'[n] : n \in 1..(round' - 1)}
  BY <1>3
<1> QED
  BY <1>3, <1>5, <1>6, <1>7 DEF OrderInv

\* The next entry's position is behind the last, and with orders that are
\* apart the one it asks for: the entry before it asked for less.
LEMMA PlaceKeepsOrder ==
  ASSUME FilterInv, OrderInv, Place
  PROVE  OrderInv'
<1> DEFINE e == ordered[round]
<1>1. /\ round \in 1..Len(ordered) /\ round \in Nat /\ Len(ordered) \in Nat /\ free \in Nat
      /\ ordered \in [1..Len(ordered) -> Asking] /\ e \in Asking /\ entries[e] \in Nat \ {0}
      /\ UNCHANGED <<entries, ordered, building>> /\ building = "place"
      /\ places' = With(e, Position) /\ free' = Position + 1 /\ round' = round + 1
  BY EntriesTyped DEF FilterInv, Place
<1>2. SortedByOrder /\ PlacedInOrder(round - 1) /\ DOMAIN places = {ordered[n] : n \in 1..(round - 1)}
  BY <1>1 DEF OrderInv
<1>3. \A n \in 1..(round - 1) : n \in 1..Len(ordered) /\ ordered[n] \in Asking /\ ordered[n] # e
  <2> SUFFICES ASSUME NEW n \in 1..(round - 1) PROVE n \in 1..Len(ordered) /\ ordered[n] \in Asking /\ ordered[n] # e
    OBVIOUS
  <2>1. n \in 1..Len(ordered) /\ n < round
    BY <1>1
  <2>2. Before(ordered[n], e)
    BY <1>1, <1>2, <2>1 DEF SortedByOrder
  <2>3. ordered[n] \in Asking
    BY <1>1, <2>1
  <2> QED
    BY <2>1, <2>2, <2>3, <1>1, EntriesTyped DEF Before
<1>4. places'[e] = Position /\ \A n \in 1..(round - 1) : places'[ordered[n]] = places[ordered[n]]
  BY <1>1, <1>2, <1>3 DEF With
<1>5. /\ Latest \in Int /\ free <= Latest /\ Position \in Int /\ free <= Position
  <2>1. Len(entries) \in Nat
    BY EntriesTyped
  <2>2. free <= Latest /\ Latest \in Int
    BY <1>1, <2>1 DEF FilterInv, RoomLeft, Latest
  <2> QED
    BY <1>1, <2>2 DEF Position, Earliest
<1>6. \A n \in 1..(round - 1) : places[ordered[n]] < free
  BY <1>1, <1>2 DEF FilterInv
<1>7. \A n \in 1..(round - 1) : places[ordered[n]] \in Nat
  BY <1>2, EntriesTyped DEF FilterInv, NoneOverwritten, Slots
<1>8. \A m, n \in 1..round : m < n => places'[ordered[m]] < places'[ordered[n]]
  <2> SUFFICES ASSUME NEW m \in 1..round, NEW n \in 1..round, m < n
               PROVE  places'[ordered[m]] < places'[ordered[n]]
    OBVIOUS
  <2>1. m \in 1..(round - 1)
    BY <1>1
  <2>2. CASE n = round
    BY <1>1, <1>4, <1>5, <1>6, <1>7, <2>1, <2>2
  <2>3. CASE n \in 1..(round - 1)
    BY <1>2, <1>4, <2>1, <2>3 DEF PlacedInOrder
  <2> QED
    BY <1>1, <2>2, <2>3
<1>9. ASSUME Apart
      PROVE  \A n \in 1..round : places'[ordered[n]] = entries[ordered[n]] - 1
  <2>1. \A n \in 1..(round - 1) : places'[ordered[n]] = entries[ordered[n]] - 1
    BY <1>2, <1>4, <1>9 DEF PlacedInOrder
  <2>2. free <= entries[e] - 1
    <3>1. CASE round = 1
      BY <1>1, <3>1 DEF OrderInv
    <3>2. CASE round > 1
      <4> DEFINE d == ordered[round - 1]
      <4>1. round - 1 \in 1..(round - 1) /\ round - 1 \in 1..Len(ordered) /\ round - 1 < round
        BY <1>1, <3>2
      <4>2. d \in Asking /\ d # e /\ Before(d, e)
        BY <1>1, <1>2, <1>3, <4>1 DEF SortedByOrder
      <4>3. entries[d] # entries[e] /\ entries[d] \in Nat
        BY <1>1, <1>9, <4>2, EntriesTyped DEF Apart
      <4>4. entries[d] < entries[e]
        BY <4>2, <4>3 DEF Before
      <4>5. free = places[d] + 1 /\ places[d] = entries[d] - 1
        BY <1>1, <1>2, <1>9, <3>2, <4>1 DEF OrderInv, PlacedInOrder
      <4> HIDE DEF d, e
      <4> QED
        BY <1>1, <4>3, <4>4, <4>5
    <3> QED
      BY <1>1, <3>1, <3>2
  <2>3. entries[e] - 1 <= Latest
    BY <1>1, <1>2, <1>9, ApartFits
  <2>4. Position = entries[e] - 1
    BY <1>1, <1>5, <2>2, <2>3 DEF Position, Earliest
  <2> QED
    BY <1>1, <1>4, <2>1, <2>4
<1>10. Asking' = Asking /\ (Apart' <=> Apart)
  BY <1>1 DEF Asking, Apart
<1>11. PlacedInOrder(round - 1)'
  <2>1. round' - 1 = round
    BY <1>1
  <2> QED
    BY <1>1, <1>8, <1>9, <1>10, <2>1 DEF PlacedInOrder
<1>12. DOMAIN places' = {ordered'[n] : n \in 1..(round' - 1)}
  <2>1. DOMAIN places' = DOMAIN places \cup {e}
    BY <1>1 DEF With
  <2>2. 1..(round' - 1) = (1..(round - 1)) \cup {round}
    BY <1>1
  <2> QED
    BY <1>1, <1>2, <2>1, <2>2
<1>13. SortedByOrder'
  BY <1>1, <1>2, <1>10 DEF SortedByOrder, Before
<1>14. round' > 1 /\ free' = places'[ordered'[round' - 1]] + 1
  BY <1>1, <1>4
<1> QED
  BY <1>1, <1>11, <1>12, <1>13, <1>14 DEF OrderInv

LEMMA PlacedKeepsOrder ==
  ASSUME FilterInv, OrderInv, Placed
  PROVE  OrderInv'
<1>1. /\ UNCHANGED <<entries, ordered, round, free, places>> /\ building = "place" /\ building' = "fill"
      /\ round = Len(ordered) + 1 /\ Len(ordered) \in Nat
      /\ ordered \in [1..Cardinality(Asking) -> Asking] /\ Cardinality(Asking) \in Nat
  BY DEF FilterInv, Placed
<1>2. /\ SortedByOrder /\ PlacedInOrder(Len(ordered))
      /\ DOMAIN places = {ordered[n] : n \in 1..Len(ordered)}
  BY <1>1 DEF OrderInv
<1>3. DOMAIN places = Asking
  BY <1>1, <1>2 DEF SortedByOrder
<1>4. Asking' = Asking /\ FilledInOrder'
  BY <1>1, <1>3 DEF Asking, FilledInOrder
<1>5. SortedByOrder' /\ PlacedInOrder(Len(ordered))'
  BY <1>1, <1>2, <1>4 DEF SortedByOrder, Before, PlacedInOrder, Apart
<1> QED
  BY <1>1, <1>3, <1>4, <1>5, EntriesTyped DEF OrderInv

\* The first entry that is left takes the first slot that is left.
LEMMA FillKeepsOrder ==
  ASSUME FilterInv, OrderInv, Fill
  PROVE  OrderInv'
<1>1. PICK e \in DOMAIN entries \ DOMAIN places, slot \in Slots \ Taken :
        /\ \A d \in DOMAIN entries \ DOMAIN places : e <= d
        /\ \A other \in Slots \ Taken : slot <= other
        /\ places' = With(e, slot)
  BY DEF Fill
<1>2. /\ UNCHANGED <<entries, ordered, building, round, free>> /\ building = "fill"
      /\ ordered \in [1..Cardinality(Asking) -> Asking] /\ Cardinality(Asking) \in Nat
      /\ Asking \subseteq DOMAIN places /\ DOMAIN places \subseteq DOMAIN entries
      /\ SortedByOrder /\ PlacedInOrder(Len(ordered)) /\ FilledInOrder
  BY DEF Fill, OrderInv
<1>3. /\ DOMAIN places' = DOMAIN places \cup {e} /\ places'[e] = slot
      /\ \A d \in DOMAIN places : d # e /\ places'[d] = places[d]
      /\ e \notin Asking
  BY <1>1, <1>2 DEF With
<1>4. Asking' = Asking /\ Slots' = Slots /\ Taken' = Taken \cup {slot}
  BY <1>2, <1>3 DEF Asking, Slots, Taken
<1>5. SortedByOrder' /\ PlacedInOrder(Len(ordered))'
  <2>1. \A n \in 1..Len(ordered) : ordered[n] \in DOMAIN places
    BY <1>2
  <2> QED
    BY <1>2, <1>3, <1>4, <2>1 DEF SortedByOrder, Before, PlacedInOrder, Apart
<1>6. FilledInOrder'
  <2> SUFFICES ASSUME NEW d \in DOMAIN places' \ Asking
               PROVE  /\ \A f \in DOMAIN entries \ DOMAIN places' : d < f
                      /\ \A other \in Slots \ Taken' : places'[d] < other
                      /\ \A f \in DOMAIN places' \ Asking : d < f => places'[d] < places'[f]
    BY <1>2, <1>4 DEF FilledInOrder
  <2>1. /\ \A f \in DOMAIN entries : f \in Nat
        /\ \A n \in Slots : n \in Nat
    BY EntriesTyped DEF Slots
  <2>2. CASE d = e
    <3>1. \A f \in DOMAIN entries \ DOMAIN places' : d < f
      BY <1>1, <1>3, <2>1, <2>2
    <3>2. \A other \in Slots \ Taken' : places'[d] < other
      BY <1>1, <1>3, <1>4, <2>1, <2>2
    <3>3. \A f \in DOMAIN places' \ Asking : d < f => places'[d] < places'[f]
      <4>1. \A f \in DOMAIN places \ Asking : f < e
        BY <1>1, <1>2 DEF FilledInOrder
      <4> QED
        BY <1>1, <1>2, <1>3, <2>1, <2>2, <4>1
    <3> QED
      BY <3>1, <3>2, <3>3
  <2>3. CASE d # e
    <3>1. d \in DOMAIN places \ Asking /\ places'[d] = places[d]
      BY <1>3, <2>3
    <3>2. places[d] < slot /\ d < e
      BY <1>1, <1>2, <3>1 DEF FilledInOrder
    <3> QED
      BY <1>1, <1>2, <1>3, <1>4, <3>1, <3>2 DEF FilledInOrder
  <2> QED
    BY <2>2, <2>3
<1> QED
  BY <1>2, <1>3, <1>4, <1>5, <1>6 DEF OrderInv

\* As many entries as slots, each with one of its own: every slot is taken.
LEMMA AllTaken ==
  ASSUME FilterInv, OrderInv, building = "fill", DOMAIN entries \subseteq DOMAIN places
  PROVE  Taken = Slots
<1> DEFINE L == Len(entries)
<1>1. DOMAIN places = 1..L /\ L \in Nat
  BY EntriesTyped DEF OrderInv
<1>2. \A d, e \in 1..L : places[d] \in 0..(L - 1) /\ (d # e => places[d] # places[e])
  BY <1>1 DEF FilterInv, NoneOverwritten, Slots
<1> DEFINE f == [e \in 1..L |-> places[e]]
<1>3. f \in Injection(1..L, 0..(L - 1))
  BY <1>2 DEF Injection, IsInjective
<1> HIDE DEF f
<1>4. IsFiniteSet(0..(L - 1)) /\ Cardinality(0..(L - 1)) = L /\ Cardinality(1..L) = L
  <2>1. CASE L = 0
    <3>1. 0..(L - 1) = {} /\ 1..L = {}
      BY <2>1
    <3> QED
      BY <2>1, <3>1, FS_EmptySet
  <2>2. CASE L > 0
    <3>1. L - 1 \in Nat /\ 0 <= L - 1 /\ 1 <= L
      BY <1>1, <2>2
    <3> HIDE DEF L
    <3>2. IsFiniteSet(0..(L - 1)) /\ Cardinality(0..(L - 1)) = (L - 1) - 0 + 1
      BY <3>1, IntervalSize
    <3>3. Cardinality(1..L) = L - 1 + 1
      BY <1>1, <3>1, IntervalSize
    <3> QED
      BY <1>1, <3>2, <3>3
  <2> QED
    BY <1>1, <2>1, <2>2
<1>5. f \in Surjection(1..L, 0..(L - 1))
  BY <1>3, <1>4, FS_Injection
<1>6. \A slot \in 0..(L - 1) : \E e \in 1..L : f[e] = slot
  BY <1>5 DEF Surjection
<1>7. \A slot \in 0..(L - 1) : \E e \in 1..L : places[e] = slot
  BY <1>6 DEF f
<1>8. \A slot \in 0..(L - 1) : slot \in Taken
  BY <1>1, <1>7, Zenon DEF Taken
<1>9. \A slot \in Taken : slot \in 0..(L - 1)
  BY <1>1, <1>2, Zenon DEF Taken
<1> QED
  BY <1>8, <1>9, Zenon DEF Slots

\* The filter as it is shown: every slot has an entry, those that ask for a
\* place come in that order, the others as they are configured, and orders
\* that do not collide are positions.
THEOREM FilterShowsAll == FilterSpec => []OrdersHonoured
<1>1. FilterInit => FilterInv /\ OrderInv
  BY FilterInit_Inv DEF FilterInit, OrderInv
<1>2. FilterInv /\ OrderInv /\ [FilterNext]_filterVars => FilterInv' /\ OrderInv'
  <2> SUFFICES ASSUME FilterInv, OrderInv, [FilterNext]_filterVars PROVE OrderInv'
    BY FilterKeeps
  <2>1. ASSUME NEW order \in 0..MaxOrder, Declare(order)
        PROVE  OrderInv'
    BY <2>1 DEF OrderInv, Declare
  <2>2. CASE UNCHANGED filterVars
    BY <2>2 DEF OrderInv, filterVars, SortedByOrder, PlacedInOrder, FilledInOrder, Asking, Before, Apart, Slots, Taken
  <2> QED
    BY <2>1, <2>2, SortKeepsOrder, PlaceKeepsOrder, PlacedKeepsOrder, FillKeepsOrder DEF FilterNext
<1>3. FilterInv /\ OrderInv => OrdersHonoured
  <2> SUFFICES ASSUME FilterInv, OrderInv, building = "fill", DOMAIN entries \subseteq DOMAIN places
               PROVE  /\ Taken = Slots
                      /\ \A d, e \in Asking : Before(d, e) => places[d] < places[e]
                      /\ \A d, e \in DOMAIN entries \ Asking : d < e => places[d] < places[e]
                      /\ Apart => \A e \in Asking : places[e] = entries[e] - 1
    BY DEF OrdersHonoured, Apart
  <2>1. /\ ordered \in [1..Len(ordered) -> Asking] /\ Len(ordered) \in Nat
        /\ SortedByOrder /\ PlacedInOrder(Len(ordered)) /\ FilledInOrder
    BY DEF OrderInv
  <2>2. ASSUME NEW d \in Asking, NEW e \in Asking, Before(d, e)
        PROVE  places[d] < places[e]
    <3>1. PICK m \in 1..Len(ordered) : ordered[m] = d
      BY <2>1 DEF SortedByOrder
    <3>2. PICK n \in 1..Len(ordered) : ordered[n] = e
      BY <2>1 DEF SortedByOrder
    <3>3. ~Before(e, d) /\ ~Before(e, e)
      BY <2>2, EntriesTyped DEF Before
    <3>4. m < n
      <4>1. ~(n < m)
        BY <2>1, <3>1, <3>2, <3>3 DEF SortedByOrder
      <4>2. m # n
        BY <2>2, <3>1, <3>2, <3>3
      <4> QED
        BY <2>1, <4>1, <4>2
    <3> QED
      BY <2>1, <3>1, <3>2, <3>4 DEF PlacedInOrder
  <2>3. \A d, e \in DOMAIN entries \ Asking : d < e => places[d] < places[e]
    BY <2>1 DEF FilledInOrder
  <2>4. Apart => \A e \in Asking : places[e] = entries[e] - 1
    BY <2>1 DEF SortedByOrder, PlacedInOrder
  <2> QED
    BY <2>2, <2>3, <2>4, AllTaken
<1> QED
  BY <1>1, <1>2, <1>3, PTL DEF FilterSpec
=============================================================================
