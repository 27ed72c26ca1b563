----------------------------- MODULE FilterOrder -----------------------------
(***************************************************************************)
(* The player's source filter (internal/config/config.go, EpisodeSources   *)
(* and orderEpisodeSources): enabled sources and subscriptions, each at    *)
(* the place it asks for where that is free, the others in the gaps.       *)
(***************************************************************************)
EXTENDS Naturals, Sequences, FiniteSets

CONSTANTS
  MaxOwners, \* bound: entries of the configuration
  MaxOrder   \* bound: the order an entry asks for

ASSUME FilterAssumption == MaxOwners \in Nat /\ MaxOrder \in Nat

VARIABLES
  entries,  \* the order each enabled entry asks for, 0 for none
  ordered,  \* the entries that ask for one, as they are sorted
  building, \* what orderEpisodeSources is doing
  round,    \* rounds of its first loop
  free,     \* next: the first position that may be taken
  places    \* entry -> its position, for the entries that have one

filterVars == <<entries, ordered, building, round, free, places>>

FilterInit ==
  /\ entries = <<>> /\ ordered = <<>> /\ building = "declare"
  /\ round = 1 /\ free = 0 /\ places = <<>>

Asking == {e \in DOMAIN entries : entries[e] # 0}
Taken == {places[e] : e \in DOMAIN places}
Slots == 0..(Len(entries) - 1)

\* EpisodeSources, of a configuration that validateFilterOrder accepted: an
\* order is at least 1. Disabled entries are left out.
Declare(order) ==
  /\ building = "declare" /\ Len(entries) < MaxOwners
  /\ entries' = Append(entries, order)
  /\ UNCHANGED <<ordered, building, round, free, places>>

\* The stable sort by order.
Before(d, e) == entries[d] < entries[e] \/ (entries[d] = entries[e] /\ d < e)

SortEntries ==
  /\ building = "declare" /\ building' = "place"
  /\ \E sorted \in [1..Cardinality(Asking) -> Asking] :
       /\ \A m, n \in DOMAIN sorted : m < n => Before(sorted[m], sorted[n])
       /\ ordered' = sorted
  /\ UNCHANGED <<entries, round, free, places>>

\* Mutants: an order is a position; one slot too many is left.
EarliestFromZero == IF entries[ordered[round]] < free THEN free ELSE entries[ordered[round]]
LatestShort == Len(entries) - (Len(ordered) - round)

\* The position of the next ordered entry: not before the last one that was
\* taken, and such that those that follow still have one each.
Earliest == IF entries[ordered[round]] - 1 < free THEN free ELSE entries[ordered[round]] - 1
Latest == Len(entries) - (Len(ordered) - (round - 1))
Position == IF Earliest > Latest THEN Latest ELSE Earliest

With(entry, position) == [e \in DOMAIN places \cup {entry} |-> IF e = entry THEN position ELSE places[e]]

Place ==
  /\ building = "place" /\ round <= Len(ordered)
  /\ places' = With(ordered[round], Position)
  /\ free' = Position + 1 /\ round' = round + 1
  /\ UNCHANGED <<entries, ordered, building>>

Placed ==
  /\ building = "place" /\ round > Len(ordered) /\ building' = "fill"
  /\ UNCHANGED <<entries, ordered, round, free, places>>

\* The next unset entry takes the first slot that is left.
Fill ==
  /\ building = "fill"
  /\ \E e \in DOMAIN entries \ DOMAIN places, slot \in Slots \ Taken :
       /\ \A d \in DOMAIN entries \ DOMAIN places : e <= d
       /\ \A other \in Slots \ Taken : slot <= other
       /\ places' = With(e, slot)
  /\ UNCHANGED <<entries, ordered, building, round, free>>

FilterNext == (\E order \in 0..MaxOrder : Declare(order)) \/ SortEntries \/ Place \/ Placed \/ Fill

\* No entry overwrites another or falls outside the filter, whatever orders
\* are repeated, skipped or too large (orderEpisodeSources).
NoneOverwritten ==
  \A d, e \in DOMAIN places : places[d] \in Slots /\ (d # e => places[d] # places[e])

\* The filter that is built shows every entry; those that ask for an order
\* appear by it, the others as they are configured, and orders that do not
\* collide are positions.
OrdersHonoured ==
  building = "fill" /\ DOMAIN entries \subseteq DOMAIN places =>
    /\ Taken = Slots
    /\ \A d, e \in Asking : Before(d, e) => places[d] < places[e]
    /\ \A d, e \in DOMAIN entries \ Asking : d < e => places[d] < places[e]
    /\ (\A d, e \in Asking : entries[d] <= Len(entries) /\ (d # e => entries[d] # entries[e]))
         => \A e \in Asking : places[e] = entries[e] - 1

FilterSpec == FilterInit /\ [][FilterNext]_filterVars
=============================================================================
