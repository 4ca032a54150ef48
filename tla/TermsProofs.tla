---------------------------- MODULE TermsProofs ----------------------------
(***************************************************************************)
(* Theorems about Terms, for any rates, quantities, durations and policies *)
(* a venue publishes: what a cancelled booking is paid back.               *)
(*                                                                         *)
(* First the order of the bands: no two have the same number ahead of them,*)
(* so each place has its band, and the first one reached is the highest    *)
(* one reached.  Then the invariant: versions are only ever added, so the  *)
(* version saved with a booking still reads as it did when it was held.    *)
(***************************************************************************)
EXTENDS Terms, FiniteSetTheorems, WellFoundedInduction, TLAPS

-----------------------------------------------------------------------------
(* The order of the bands *)

\* No band is ahead of itself, of two one is ahead of the other, and who is
\* ahead of that one is ahead of both.
LEMMA AheadOrders ==
  ASSUME NEW tiers \in Seq(Tier), NEW i \in DOMAIN tiers, NEW j \in DOMAIN tiers
  PROVE  /\ i \notin Ahead(tiers, i)
         /\ i # j => i \in Ahead(tiers, j) \/ j \in Ahead(tiers, i)
         /\ i \in Ahead(tiers, j) => Ahead(tiers, i) \subseteq Ahead(tiers, j)
<1>1. DOMAIN tiers = 1..Len(tiers) /\ Len(tiers) \in Nat
  OBVIOUS
<1>2. \A k \in DOMAIN tiers : k \in Int /\ tiers[k].before \in Int
  <2>1. \A k \in DOMAIN tiers : k \in Int /\ tiers[k] \in Tier
    BY <1>1
  <2>2. \A t \in Tier : t.before \in Int
    BY DEF Tier
  <2>3. QED
    BY <2>1, <2>2
<1>3. QED
  BY <1>2, SMT DEF Ahead

\* The number ahead of a band, and that it tells the bands apart.
LEMMA PlaceType ==
  ASSUME NEW tiers \in Seq(Tier), NEW i \in DOMAIN tiers
  PROVE  /\ IsFiniteSet(Ahead(tiers, i))
         /\ Cardinality(Ahead(tiers, i)) \in 0..Len(tiers) - 1
<1>1. DOMAIN tiers = 1..Len(tiers) /\ Len(tiers) \in Nat
  OBVIOUS
<1>2. IsFiniteSet(1..Len(tiers)) /\ Cardinality(1..Len(tiers)) = Len(tiers)
  <2>1. CASE Len(tiers) = 0
    BY <1>1, <2>1
  <2>2. CASE Len(tiers) > 0
    BY <1>1, <2>2, FS_Interval
  <2>3. QED
    BY <1>1, <2>1, <2>2
<1>3. /\ IsFiniteSet((1..Len(tiers)) \ {i})
      /\ Cardinality((1..Len(tiers)) \ {i}) = Len(tiers) - 1
  <2>1. i \in 1..Len(tiers)
    BY <1>1
  <2>2. QED
    BY <1>2, <2>1, FS_RemoveElement, Zenon
<1>4. Ahead(tiers, i) \subseteq (1..Len(tiers)) \ {i}
  BY <1>1, AheadOrders DEF Ahead
<1>5. IsFiniteSet(Ahead(tiers, i)) /\ Cardinality(Ahead(tiers, i)) <= Len(tiers) - 1
  BY <1>3, <1>4, FS_Subset
<1>6. QED
  BY <1>1, <1>5, FS_CardinalityType

LEMMA PlacesGrow ==
  ASSUME NEW tiers \in Seq(Tier), NEW i \in DOMAIN tiers, NEW j \in DOMAIN tiers,
         i \in Ahead(tiers, j)
  PROVE  Cardinality(Ahead(tiers, i)) < Cardinality(Ahead(tiers, j))
<1>1. Ahead(tiers, i) \subseteq Ahead(tiers, j) /\ Ahead(tiers, i) # Ahead(tiers, j)
  BY AheadOrders
<1>2. /\ IsFiniteSet(Ahead(tiers, j)) /\ Cardinality(Ahead(tiers, j)) \in Nat
      /\ Cardinality(Ahead(tiers, i)) \in Nat
  BY PlaceType
<1>3. /\ Cardinality(Ahead(tiers, i)) <= Cardinality(Ahead(tiers, j))
      /\ Cardinality(Ahead(tiers, i)) # Cardinality(Ahead(tiers, j))
  BY <1>1, <1>2, FS_Subset
<1>4. QED
  BY <1>2, <1>3

\* The place of each band, and the band of each place.
Place(tiers, i) == Cardinality(Ahead(tiers, i)) + 1
InPlace(tiers, k) == CHOOSE i \in DOMAIN tiers : Cardinality(Ahead(tiers, i)) = k - 1

\* Every place is taken: the places are as many as the bands, and no two bands
\* share one.
LEMMA EveryPlaceTaken ==
  ASSUME NEW tiers \in Seq(Tier), NEW k \in DOMAIN tiers
  PROVE  \E i \in DOMAIN tiers : Cardinality(Ahead(tiers, i)) = k - 1
<1> DEFINE n == Len(tiers)
           f == [i \in 1..n |-> Place(tiers, i)]
<1>1. DOMAIN tiers = 1..n /\ n \in Nat
  OBVIOUS
<1>2. \A i \in 1..n : Place(tiers, i) \in 1..n
  BY <1>1, PlaceType DEF Place
<1>3. \A i, j \in 1..n : Place(tiers, i) = Place(tiers, j) => i = j
  <2> SUFFICES ASSUME NEW i \in 1..n, NEW j \in 1..n, i # j
               PROVE  Place(tiers, i) # Place(tiers, j)
    OBVIOUS
  <2>1. Cardinality(Ahead(tiers, i)) \in Int /\ Cardinality(Ahead(tiers, j)) \in Int
    BY <1>1, PlaceType
  <2>2. i \in Ahead(tiers, j) \/ j \in Ahead(tiers, i)
    BY <1>1, AheadOrders
  <2>3. Cardinality(Ahead(tiers, i)) # Cardinality(Ahead(tiers, j))
    BY <1>1, <2>1, <2>2, PlacesGrow
  <2>4. QED
    BY <2>1, <2>3 DEF Place
<1>4. f \in Injection(1..n, 1..n)
  BY <1>2, <1>3 DEF Injection, IsInjective
<1>5. IsFiniteSet(1..n)
  BY <1>1, FS_Interval
<1>6. f \in Surjection(1..n, 1..n)
  <2> HIDE DEF f
  <2>1. QED
    BY <1>4, <1>5, FS_Injection
<1>7. PICK i \in 1..n : f[i] = k
  BY <1>1, <1>6 DEF Surjection
<1>8. Place(tiers, i) = k
  BY <1>7
<1>9. Cardinality(Ahead(tiers, i)) = k - 1
  BY <1>1, <1>8, PlaceType DEF Place
<1>10. QED
  BY <1>1, <1>9

\* So sorting only changes the order.
LEMMA OrderedIs ==
  ASSUME NEW tiers \in Seq(Tier), NEW k \in DOMAIN tiers
  PROVE  /\ InPlace(tiers, k) \in DOMAIN tiers
         /\ Cardinality(Ahead(tiers, InPlace(tiers, k))) = k - 1
         /\ Ordered(tiers)[k] = tiers[InPlace(tiers, k)]
  BY EveryPlaceTaken DEF InPlace, Ordered

LEMMA PlaceOf ==
  ASSUME NEW tiers \in Seq(Tier), NEW i \in DOMAIN tiers
  PROVE  Place(tiers, i) \in DOMAIN tiers /\ InPlace(tiers, Place(tiers, i)) = i
<1>1. DOMAIN tiers = 1..Len(tiers) /\ Len(tiers) \in Nat
  OBVIOUS
<1>2. Cardinality(Ahead(tiers, i)) \in 0..Len(tiers) - 1
  BY PlaceType
<1>3. Place(tiers, i) \in DOMAIN tiers
  BY <1>1, <1>2 DEF Place
<1> DEFINE j == InPlace(tiers, Place(tiers, i))
<1>4. j \in DOMAIN tiers /\ Cardinality(Ahead(tiers, j)) = Place(tiers, i) - 1
  BY <1>3, OrderedIs
<1>5. Cardinality(Ahead(tiers, j)) = Cardinality(Ahead(tiers, i))
  BY <1>2, <1>4 DEF Place
<1> HIDE DEF j
<1>6. j = i
  <2> SUFFICES ASSUME j # i PROVE FALSE
    OBVIOUS
  <2>1. i \in Ahead(tiers, j) \/ j \in Ahead(tiers, i)
    BY <1>4, AheadOrders
  <2>2. QED
    BY <1>2, <1>4, <1>5, <2>1, PlacesGrow
<1>7. QED
  BY <1>3, <1>6 DEF j

LEMMA OrderedType ==
  ASSUME NEW tiers \in Seq(Tier)
  PROVE  Ordered(tiers) \in Seq(Tier) /\ DOMAIN Ordered(tiers) = DOMAIN tiers
<1>1. DOMAIN tiers = 1..Len(tiers) /\ Len(tiers) \in Nat
  OBVIOUS
<1>2. \A k \in 1..Len(tiers) : Ordered(tiers)[k] \in Tier
  <2> TAKE k \in 1..Len(tiers)
  <2>1. InPlace(tiers, k) \in 1..Len(tiers) /\ Ordered(tiers)[k] = tiers[InPlace(tiers, k)]
    BY <1>1, OrderedIs
  <2>2. QED
    BY <2>1
<1>3. Ordered(tiers) = [k \in 1..Len(tiers) |-> Ordered(tiers)[k]]
  BY <1>1 DEF Ordered
<1>4. Ordered(tiers) \in [1..Len(tiers) -> Tier]
  BY <1>2, <1>3
<1>5. QED
  BY <1>1, <1>4

\* Descending thresholds.
LEMMA OrderedDescends ==
  ASSUME NEW tiers \in Seq(Tier), NEW k \in DOMAIN tiers, NEW l \in DOMAIN tiers, k <= l
  PROVE  Ordered(tiers)[k].before >= Ordered(tiers)[l].before
<1> DEFINE i == InPlace(tiers, k)
           j == InPlace(tiers, l)
<1>1. /\ i \in DOMAIN tiers /\ j \in DOMAIN tiers
      /\ Cardinality(Ahead(tiers, i)) = k - 1 /\ Cardinality(Ahead(tiers, j)) = l - 1
      /\ Ordered(tiers)[k] = tiers[i] /\ Ordered(tiers)[l] = tiers[j]
  BY OrderedIs
<1>2. k \in Int /\ l \in Int
  OBVIOUS
<1> HIDE DEF i, j
<1>3. tiers[i].before \in Int /\ tiers[j].before \in Int
  <2>1. tiers[i] \in Tier /\ tiers[j] \in Tier
    BY <1>1
  <2>2. QED
    BY <2>1 DEF Tier
<1>4. CASE i = j
  BY <1>1, <1>3, <1>4
<1>5. CASE i # j
  <2>1. j \notin Ahead(tiers, i)
    <3> SUFFICES ASSUME j \in Ahead(tiers, i) PROVE FALSE
      OBVIOUS
    <3>1. l - 1 < k - 1
      BY <1>1, PlacesGrow
    <3>2. QED
      BY <1>2, <3>1
  <2>2. i \in Ahead(tiers, j)
    BY <1>1, <1>5, <2>1, AheadOrders
  <2>3. tiers[i].before >= tiers[j].before
    BY <1>3, <2>2 DEF Ahead
  <2>4. QED
    BY <1>1, <2>3
<1>6. QED
  BY <1>4, <1>5

-----------------------------------------------------------------------------
(* The band that applies *)

\* The least of some numbers.
LEMMA Least ==
  ASSUME NEW S \in SUBSET Nat, S # {}
  PROVE  \E k \in S : \A l \in S : k <= l
<1>1. PICK k \in S : \A l \in S : <<l, k>> \notin OpToRel(<, Nat)
  BY NatLessThanWellFounded, WFMin
<1>2. \A l \in S : ~(l < k)
  BY <1>1 DEF OpToRel
<1>3. QED
  BY <1>2

\* Nothing is reached once the hours are below every threshold.
LEMMA TierForNone ==
  ASSUME NEW tiers \in Seq(Tier), NEW hours \in Int, \A i \in DOMAIN tiers : ~(hours >= tiers[i].before)
  PROVE  TierFor(tiers, hours) = NoTier
<1>1. \A k \in DOMAIN Ordered(tiers) : ~(hours >= Ordered(tiers)[k].before)
  BY OrderedType, OrderedIs
<1>2. QED
  BY <1>1 DEF TierFor

\* Otherwise the band that applies is the highest one reached.
LEMMA TierForReached ==
  ASSUME NEW tiers \in Seq(Tier), NEW hours \in Int, NEW r \in DOMAIN tiers, hours >= tiers[r].before
  PROVE  \E i \in DOMAIN tiers :
           TierFor(tiers, hours) = tiers[i] /\ BandReached(tiers, hours, tiers[i])
<1> DEFINE reached == {k \in DOMAIN Ordered(tiers) : hours >= Ordered(tiers)[k].before}
           first == CHOOSE k \in reached : \A l \in reached : k <= l
<1>1. DOMAIN Ordered(tiers) = DOMAIN tiers /\ DOMAIN tiers \subseteq Nat
  BY OrderedType
<1>2. Place(tiers, r) \in reached
  <2>1. Place(tiers, r) \in DOMAIN tiers /\ Ordered(tiers)[Place(tiers, r)] = tiers[r]
    BY PlaceOf, OrderedIs
  <2>2. QED
    BY <1>1, <2>1
<1>3. first \in reached /\ \A l \in reached : first <= l
  <2>1. reached \in SUBSET Nat /\ reached # {}
    BY <1>1, <1>2
  <2> HIDE DEF reached
  <2>2. \E k \in reached : \A l \in reached : k <= l
    BY <2>1, Least
  <2>3. QED
    BY <2>2
<1>4. TierFor(tiers, hours) = Ordered(tiers)[first]
  BY <1>2 DEF TierFor
<1> DEFINE i == InPlace(tiers, first)
<1>5. first \in DOMAIN tiers /\ hours >= Ordered(tiers)[first].before
  BY <1>1, <1>3
<1>6. i \in DOMAIN tiers /\ Ordered(tiers)[first] = tiers[i]
  BY <1>5, OrderedIs
<1>7. ASSUME NEW j \in DOMAIN tiers, hours >= tiers[j].before
      PROVE  tiers[i].before >= tiers[j].before
  <2>1. Place(tiers, j) \in DOMAIN tiers /\ Ordered(tiers)[Place(tiers, j)] = tiers[j]
    BY PlaceOf, OrderedIs
  <2>2. Place(tiers, j) \in reached
    BY <1>1, <1>7, <2>1
  <2>3. first <= Place(tiers, j)
    BY <1>3, <2>2
  <2> HIDE DEF first, i
  <2>4. Ordered(tiers)[first].before >= Ordered(tiers)[Place(tiers, j)].before
    BY <1>5, <2>1, <2>3, OrderedDescends
  <2>5. QED
    BY <1>6, <2>1, <2>4
<1> HIDE DEF first, i
<1>8. BandReached(tiers, hours, tiers[i])
  BY <1>5, <1>6, <1>7 DEF BandReached
<1>9. QED
  BY <1>4, <1>6, <1>8

LEMMA TierForType ==
  ASSUME NEW tiers \in Seq(Tier), NEW hours \in Int
  PROVE  TierFor(tiers, hours) \in Tier
<1>1. CASE \E r \in DOMAIN tiers : hours >= tiers[r].before
  <2>1. PICK i \in DOMAIN tiers : TierFor(tiers, hours) = tiers[i]
    BY <1>1, TierForReached
  <2>2. QED
    BY <2>1
<1>2. CASE \A r \in DOMAIN tiers : ~(hours >= tiers[r].before)
  <2>1. TierFor(tiers, hours) = NoTier
    BY <1>2, TierForNone
  <2>2. NoTier \in Tier
    BY DEF NoTier, Tier
  <2>3. QED
    BY <2>1, <2>2
<1>3. QED
  BY <1>1, <1>2

-----------------------------------------------------------------------------
(* Amounts *)

LEMMA NatProduct ==
  ASSUME NEW a \in Nat, NEW b \in Nat
  PROVE  a * b \in Nat
  BY SMT

LEMMA RoundType ==
  ASSUME NEW n \in Nat, NEW d \in {2, 200}
  PROVE  RoundHalfUp(n, d) \in Nat
<1>1. CASE d = 2
  BY <1>1 DEF RoundHalfUp
<1>2. CASE d = 200
  BY <1>2 DEF RoundHalfUp
<1>3. QED
  BY <1>1, <1>2

\* The amounts of a booking row are amounts, and its shares make up its total.
LEMMA AmountTypes ==
  ASSUME NEW b, booking[b] \in BookingRow
  PROVE  /\ EquipmentPortion(b) \in Nat /\ RoomPrice(b) \in Nat /\ PriceOf(b) \in Nat
         /\ EquipmentShare(b) \in Nat /\ RoomShare(b) \in Nat
         /\ booking[b].total \in Nat
         /\ RoomShare(b) + EquipmentShare(b) = 2 * booking[b].total
<1>1. /\ booking[b].quantity \in Nat /\ booking[b].lineRate \in Nat /\ booking[b].halfHours \in Nat
      /\ booking[b].roomRate \in Nat /\ booking[b].total \in Nat
  <2>1. /\ booking[b].quantity \in Quantities \cup {0} /\ booking[b].lineRate \in TypeRates \cup {0}
        /\ booking[b].halfHours \in Durations \cup {0}
        /\ booking[b].roomRate \in RoomRates \cup {0} /\ booking[b].total \in Nat
    BY DEF BookingRow
  <2>2. /\ Quantities \cup {0} \subseteq Nat /\ TypeRates \cup {0} \subseteq Nat
        /\ RoomRates \cup {0} \subseteq Nat /\ Durations \cup {0} \subseteq Nat
    BY ConstantsAssumption
  <2>3. QED
    BY <2>1, <2>2
<1>2. booking[b].quantity * booking[b].lineRate \in Nat
  BY <1>1, NatProduct
<1>3. EquipmentPortion(b) \in Nat /\ RoomPrice(b) \in Nat
  BY <1>1, <1>2, NatProduct DEF EquipmentPortion, RoomPrice
<1>4. PriceOf(b) \in Nat
  <2>1. RoomPrice(b) + EquipmentPortion(b) \in Nat
    BY <1>3
  <2>2. QED
    BY <2>1, RoundType DEF PriceOf
<1>5. EquipmentShare(b) \in Nat /\ EquipmentShare(b) <= 2 * booking[b].total
  BY <1>1, <1>3 DEF EquipmentShare
<1>6. RoomShare(b) \in Nat /\ RoomShare(b) + EquipmentShare(b) = 2 * booking[b].total
  BY <1>1, <1>5 DEF RoomShare
<1>7. QED
  BY <1>1, <1>3, <1>4, <1>5, <1>6

LEMMA RefundType ==
  ASSUME NEW b, booking[b] \in BookingRow, NEW tier \in Tier
  PROVE  CalculateRefund(tier, b) \in Nat
<1>1. tier.room \in Nat /\ tier.equipment \in Nat
  BY DEF Tier
<1>2. RoomShare(b) * tier.room \in Nat /\ EquipmentShare(b) * tier.equipment \in Nat
  BY <1>1, AmountTypes, NatProduct
<1>3. /\ RoundHalfUp(RoomShare(b) * tier.room, 200) \in Nat
      /\ RoundHalfUp(EquipmentShare(b) * tier.equipment, 200) \in Nat
  BY <1>2, RoundType
<1>4. QED
  BY <1>3 DEF CalculateRefund

\* Out of every band nothing is paid back.
LEMMA NothingWithoutTier ==
  ASSUME NEW b, booking[b] \in BookingRow
  PROVE  CalculateRefund(NoTier, b) = 0
<1>1. RoomShare(b) * 0 = 0 /\ EquipmentShare(b) * 0 = 0
  BY AmountTypes
<1>2. RoundHalfUp(0, 200) = 0
  BY DEF RoundHalfUp
<1>3. QED
  BY <1>1, <1>2 DEF CalculateRefund, NoTier

\* The amounts of a booking are told by its row alone.
LEMMA SameRowSameAmounts ==
  ASSUME NEW b,
         booking'[b].quantity = booking[b].quantity, booking'[b].lineRate = booking[b].lineRate,
         booking'[b].halfHours = booking[b].halfHours, booking'[b].total = booking[b].total
  PROVE  RoomShare(b)' = RoomShare(b) /\ EquipmentShare(b)' = EquipmentShare(b)
  BY DEF RoomShare, EquipmentShare, EquipmentPortion

-----------------------------------------------------------------------------
(* The invariant *)

LEMMA TermsInit == Init => TermsInv
<1> SUFFICES ASSUME Init PROVE TermsInv
  OBVIOUS
<1>1. Default \in Seq(Tier) /\ \E i \in DOMAIN Default : Default[i].before = 0
  BY ConstantsAssumption
<1>2. versions \in Seq(Seq(Tier)) /\ Len(versions) = 1 /\ DOMAIN versions = {1} /\ versions[1] = Default
  BY <1>1 DEF Init
<1>3. NoBooking \in BookingRow /\ NoBooking.status = "none"
  BY ConstantsAssumption DEF NoBooking, BookingRow
<1>4. TypeOK
  <2>1. 1 \in 1..MaxVersions /\ 0 \in 0..Len(versions)
    BY <1>2, ConstantsAssumption
  <2>2. QED
    BY <1>1, <1>2, <1>3, <2>1 DEF Init, TypeOK, Pinned
<1>5. AgreedIsSaved /\ RefundCalculated
  BY <1>3 DEF Init, AgreedIsSaved, RefundCalculated, Pinned
<1>6. VersionsReachZero
  BY <1>1, <1>2 DEF VersionsReachZero
<1>7. QED
  BY <1>4, <1>5, <1>6 DEF TermsInv

\* Publishing adds a version and leaves those there are.
LEMMA VersionsGrow ==
  ASSUME TermsInv, NEW p \in Policies, PublishPolicy(p)
  PROVE  /\ versions' \in Seq(Seq(Tier)) /\ Len(versions') = Len(versions) + 1
         /\ Len(versions') \in 1..MaxVersions
         /\ \A v \in DOMAIN versions : v \in DOMAIN versions' /\ versions'[v] = versions[v]
         /\ VersionsReachZero'
<1>1. p \in Seq(Tier) /\ \E i \in DOMAIN p : p[i].before = 0
  BY ConstantsAssumption
<1>2. Ordered(p) \in Seq(Tier) /\ DOMAIN Ordered(p) = DOMAIN p
  BY <1>1, OrderedType
<1>3. \E k \in DOMAIN Ordered(p) : Ordered(p)[k].before = 0
  <2>1. PICK i \in DOMAIN p : p[i].before = 0
    BY <1>1
  <2>2. Place(p, i) \in DOMAIN p /\ Ordered(p)[Place(p, i)] = p[i]
    BY <1>1, PlaceOf, OrderedIs
  <2>3. QED
    BY <1>2, <2>1, <2>2
<1>4. versions \in Seq(Seq(Tier)) /\ Len(versions) \in Nat /\ Len(versions) < MaxVersions
      /\ versions' = Append(versions, Ordered(p))
  BY DEF TermsInv, TypeOK, PublishPolicy
<1>5. /\ versions' \in Seq(Seq(Tier)) /\ Len(versions') = Len(versions) + 1
      /\ DOMAIN versions = 1..Len(versions) /\ DOMAIN versions' = 1..Len(versions) + 1
      /\ \A v \in 1..Len(versions) : versions'[v] = versions[v]
      /\ versions'[Len(versions) + 1] = Ordered(p)
  BY <1>2, <1>4
<1>6. Len(versions') \in 1..MaxVersions
  BY <1>4, <1>5, ConstantsAssumption
<1>7. VersionsReachZero'
  BY <1>3, <1>4, <1>5 DEF TermsInv, VersionsReachZero
<1>8. QED
  BY <1>4, <1>5, <1>6, <1>7

\* A step on one booking: its row is a row, what it agreed is its version's, and
\* its refund, if it has one, the one calculated.
LEMMA BookingStep ==
  ASSUME TermsInv, NEW b \in Bookings, NEW new \in BookingRow,
         booking' = [booking EXCEPT ![b] = new], UNCHANGED <<versions, current, roomRate, typeRate>>,
         agreed' \in [Bookings -> Seq(Tier)], \A c \in Bookings \ {b} : agreed'[c] = agreed[c],
         new.status \in {"pinned", "held", "confirmed", "cancelled"} =>
           new.version \in DOMAIN versions /\ agreed'[b] = versions[new.version],
         new.status = "cancelled" =>
           /\ new.refund = CalculateRefund(TierFor(agreed[b], new.hours), b)
           /\ agreed'[b] = agreed[b]
           /\ new.quantity = booking[b].quantity /\ new.lineRate = booking[b].lineRate
           /\ new.halfHours = booking[b].halfHours /\ new.total = booking[b].total
  PROVE  TermsInv'
<1>1. /\ booking' \in [Bookings -> BookingRow]
      /\ booking'[b] = new /\ \A c \in Bookings \ {b} : booking'[c] = booking[c]
  BY DEF TermsInv, TypeOK
<1>2. \A c \in Bookings : Pinned(c)' =>
        booking'[c].version \in DOMAIN versions /\ agreed'[c] = versions[booking'[c].version]
  BY <1>1 DEF TermsInv, TypeOK, AgreedIsSaved, Pinned
<1>3. TypeOK'
  BY <1>1, <1>2 DEF TermsInv, TypeOK
<1>4. AgreedIsSaved' /\ VersionsReachZero'
  BY <1>2 DEF TermsInv, AgreedIsSaved, VersionsReachZero
<1>5. RefundCalculated'
  <2> SUFFICES ASSUME NEW c \in Bookings, booking'[c].status = "cancelled"
               PROVE  (booking[c].refund = CalculateRefund(TierFor(agreed[c], booking[c].hours), c))'
    BY DEF RefundCalculated
  <2>1. CASE c = b
    <3>1. RoomShare(b)' = RoomShare(b) /\ EquipmentShare(b)' = EquipmentShare(b)
      BY <1>1, <2>1, SameRowSameAmounts
    <3>2. new.refund = CalculateRefund(TierFor(agreed[b], new.hours), b) /\ agreed'[b] = agreed[b]
      BY <1>1, <2>1
    <3>3. QED
      BY <1>1, <2>1, <3>1, <3>2 DEF CalculateRefund
  <2>2. CASE c # b
    <3>1. booking'[c] = booking[c] /\ agreed'[c] = agreed[c]
      BY <1>1, <2>2
    <3>2. RoomShare(c)' = RoomShare(c) /\ EquipmentShare(c)' = EquipmentShare(c)
      BY <3>1, SameRowSameAmounts
    <3>3. booking[c].refund = CalculateRefund(TierFor(agreed[c], booking[c].hours), c)
      BY <3>1 DEF TermsInv, RefundCalculated
    <3>4. QED
      BY <3>1, <3>2, <3>3 DEF CalculateRefund
  <2>3. QED
    BY <2>1, <2>2
<1>6. QED
  BY <1>3, <1>4, <1>5 DEF TermsInv

\* A step that leaves the bookings alone.
LEMMA BookingsStill ==
  ASSUME TermsInv, UNCHANGED <<booking, agreed>>, TypeOK', VersionsReachZero',
         \A v \in DOMAIN versions : versions'[v] = versions[v]
  PROVE  TermsInv'
<1>1. AgreedIsSaved'
  BY DEF TermsInv, TypeOK, AgreedIsSaved, Pinned
<1>2. RefundCalculated'
  BY DEF TermsInv, RefundCalculated, CalculateRefund, RoomShare, EquipmentShare, EquipmentPortion
<1>3. QED
  BY <1>1, <1>2 DEF TermsInv

LEMMA TermsKept == TermsInv /\ [Next]_vars => TermsInv'
<1> SUFFICES ASSUME TermsInv, [Next]_vars PROVE TermsInv'
  OBVIOUS
<1>0. /\ \A b \in Bookings : booking[b] \in BookingRow
      /\ versions \in Seq(Seq(Tier)) /\ DOMAIN versions = 1..Len(versions)
      /\ Len(versions) \in 1..MaxVersions /\ current \in 0..Len(versions)
      /\ roomRate \in RoomRates /\ typeRate \in TypeRates /\ agreed \in [Bookings -> Seq(Tier)]
  BY DEF TermsInv, TypeOK
<1>1. ASSUME NEW p \in Policies, PublishPolicy(p) PROVE TermsInv'
  <2>1. /\ versions' \in Seq(Seq(Tier)) /\ Len(versions') = Len(versions) + 1
        /\ Len(versions') \in 1..MaxVersions
        /\ \A v \in DOMAIN versions : v \in DOMAIN versions' /\ versions'[v] = versions[v]
        /\ VersionsReachZero'
    BY <1>1, VersionsGrow
  <2>2. current' = Len(versions) + 1 /\ UNCHANGED <<roomRate, typeRate, booking, agreed>>
    BY <1>1 DEF PublishPolicy
  <2>3. current' \in 0..Len(versions')
    BY <1>0, <2>1, <2>2
  <2>4. TypeOK'
    BY <2>1, <2>2, <2>3 DEF TermsInv, TypeOK, Pinned
  <2>5. QED
    BY <2>1, <2>2, <2>4, BookingsStill
<1>2. ASSUME NEW rate \in RoomRates, EditRoomRate(rate) PROVE TermsInv'
  <2>1. TypeOK' /\ VersionsReachZero'
    BY <1>2 DEF EditRoomRate, TermsInv, TypeOK, VersionsReachZero, Pinned
  <2>2. QED
    BY <1>2, <2>1, BookingsStill DEF EditRoomRate
<1>3. ASSUME NEW rate \in TypeRates, EditTypeRate(rate) PROVE TermsInv'
  <2>1. TypeOK' /\ VersionsReachZero'
    BY <1>3 DEF EditTypeRate, TermsInv, TypeOK, VersionsReachZero, Pinned
  <2>2. QED
    BY <1>3, <2>1, BookingsStill DEF EditTypeRate
<1>4. ASSUME NEW b \in Bookings, NEW q \in Quantities, NEW h \in Durations, ReadRoom(b, q, h)
      PROVE  TermsInv'
  <2> DEFINE new == [booking[b] EXCEPT !.status = "read", !.roomRate = roomRate,
                                       !.quantity = q, !.halfHours = h]
  <2>1. new \in BookingRow /\ new.status = "read"
    BY <1>0 DEF BookingRow
  <2>2. booking' = [booking EXCEPT ![b] = new]
        /\ UNCHANGED <<versions, current, roomRate, typeRate, agreed>>
    BY <1>4 DEF ReadRoom
  <2> HIDE DEF new
  <2>3. QED
    BY <1>0, <2>1, <2>2, BookingStep
<1>5. ASSUME NEW b \in Bookings, LockType(b) PROVE TermsInv'
  <2> DEFINE new == [booking[b] EXCEPT !.status = "priced", !.lineRate = typeRate]
  <2>1. new \in BookingRow /\ new.status = "priced"
    BY <1>0 DEF BookingRow
  <2>2. booking' = [booking EXCEPT ![b] = new]
        /\ UNCHANGED <<versions, current, roomRate, typeRate, agreed>>
    BY <1>5 DEF LockType
  <2> HIDE DEF new
  <2>3. QED
    BY <1>0, <2>1, <2>2, BookingStep
<1>6. ASSUME NEW b \in Bookings, ReadPolicy(b) PROVE TermsInv'
  <2> DEFINE new == [booking[b] EXCEPT !.status = "pinned", !.version = CurrentPolicyVersion]
  <2>1. CurrentPolicyVersion \in DOMAIN versions /\ CurrentPolicyVersion \in 0..MaxVersions
        /\ versions[CurrentPolicyVersion] \in Seq(Tier)
    <3>1. CurrentPolicyVersion \in DOMAIN versions /\ CurrentPolicyVersion \in 0..MaxVersions
      BY <1>0, ConstantsAssumption DEF CurrentPolicyVersion
    <3>2. QED
      BY <1>0, <3>1
  <2>3. new \in BookingRow /\ new.status = "pinned" /\ new.version = CurrentPolicyVersion
    BY <1>0, <2>1 DEF BookingRow
  <2>4. booking' = [booking EXCEPT ![b] = new]
        /\ UNCHANGED <<versions, current, roomRate, typeRate>>
        /\ agreed' = [agreed EXCEPT ![b] = versions[CurrentPolicyVersion]]
    BY <1>6 DEF ReadPolicy
  <2>5. /\ agreed' \in [Bookings -> Seq(Tier)] /\ agreed'[b] = versions[CurrentPolicyVersion]
        /\ \A c \in Bookings \ {b} : agreed'[c] = agreed[c]
    BY <1>0, <2>1, <2>4
  <2> HIDE DEF new
  <2>6. QED
    BY <2>1, <2>3, <2>4, <2>5, BookingStep
<1>10. ASSUME NEW b \in Bookings, InsertHold(b) PROVE TermsInv'
  <2> DEFINE new == [booking[b] EXCEPT !.status = "held", !.total = PriceOf(b)]
  <2>1. PriceOf(b) \in Nat
    BY <1>0, AmountTypes
  <2>2. new \in BookingRow /\ new.status = "held" /\ new.version = booking[b].version
    BY <1>0, <2>1 DEF BookingRow
  <2>3. booking' = [booking EXCEPT ![b] = new]
        /\ UNCHANGED <<versions, current, roomRate, typeRate, agreed>>
    BY <1>10 DEF InsertHold
  <2>4. booking[b].version \in DOMAIN versions /\ agreed[b] = versions[booking[b].version]
    BY <1>10 DEF InsertHold, TermsInv, TypeOK, AgreedIsSaved, Pinned
  <2> HIDE DEF new
  <2>5. QED
    BY <1>0, <2>2, <2>3, <2>4, BookingStep
<1>7. ASSUME NEW b \in Bookings, Confirm(b) PROVE TermsInv'
  <2> DEFINE new == [booking[b] EXCEPT !.status = "confirmed"]
  <2>1. new \in BookingRow /\ new.status = "confirmed" /\ new.version = booking[b].version
    BY <1>0 DEF BookingRow
  <2>2. booking' = [booking EXCEPT ![b] = new]
        /\ UNCHANGED <<versions, current, roomRate, typeRate, agreed>>
    BY <1>7 DEF Confirm
  <2>3. booking[b].version \in DOMAIN versions /\ agreed[b] = versions[booking[b].version]
    BY <1>7 DEF Confirm, TermsInv, TypeOK, AgreedIsSaved, Pinned
  <2> HIDE DEF new
  <2>4. QED
    BY <1>0, <2>1, <2>2, <2>3, BookingStep
<1>8. ASSUME NEW b \in Bookings, NEW hours \in HoursLeft, Cancel(b, hours) PROVE TermsInv'
  <2> DEFINE amount == CalculateRefund(TierFor(TermsOf(b), hours), b)
             new == [booking[b] EXCEPT !.status = "cancelled", !.hours = hours, !.refund = amount]
  <2>1. booking[b].version \in DOMAIN versions /\ agreed[b] = versions[booking[b].version]
    BY <1>8 DEF Cancel, TermsInv, TypeOK, AgreedIsSaved, Pinned
  <2>2. TermsOf(b) = agreed[b] /\ agreed[b] \in Seq(Tier) /\ hours \in Int
    BY <1>0, <2>1, ConstantsAssumption DEF TermsOf
  <2>3. amount \in Nat
    BY <1>0, <2>2, TierForType, RefundType
  <2>4. booking' = [booking EXCEPT ![b] = new]
        /\ UNCHANGED <<versions, current, roomRate, typeRate, agreed>>
    BY <1>8 DEF Cancel
  <2>5. amount = CalculateRefund(TierFor(agreed[b], hours), b)
    BY <2>2
  <2> HIDE DEF amount
  <2>6. /\ new \in BookingRow /\ new.status = "cancelled" /\ new.version = booking[b].version
        /\ new.hours = hours /\ new.refund = amount
        /\ new.quantity = booking[b].quantity /\ new.lineRate = booking[b].lineRate
        /\ new.halfHours = booking[b].halfHours /\ new.total = booking[b].total
    BY <1>0, <2>3 DEF BookingRow
  <2> HIDE DEF new
  <2>7. QED
    BY <1>0, <2>1, <2>4, <2>5, <2>6, BookingStep
<1>9. CASE UNCHANGED vars
  <2>1. TypeOK' /\ VersionsReachZero'
    BY <1>9 DEF vars, TermsInv, TypeOK, VersionsReachZero, Pinned
  <2>2. QED
    BY <1>9, <2>1, BookingsStill DEF vars
<1>11. QED
  BY <1>1, <1>2, <1>3, <1>4, <1>5, <1>6, <1>7, <1>8, <1>9, <1>10 DEF Next

-----------------------------------------------------------------------------
(* The theorems *)

\* Rows, versions and what was agreed belong together in every state.
THEOREM TermsInvHolds == Spec => []TermsInv
<1>1. QED
  BY TermsInit, TermsKept, PTL DEF Spec

\* cancellationService.ts, cancel: the terms that decide are those in force when
\* the hold asked for them, and of them the highest band reached; nothing is paid back
\* after the start.
THEOREM OwnTermsAlwaysApply == Spec => []OwnTermsApply
<1>1. ASSUME TermsInv PROVE OwnTermsApply
  <2> SUFFICES ASSUME NEW b \in Bookings, booking[b].status = "cancelled"
               PROVE  \/ /\ booking[b].hours < 0
                         /\ booking[b].refund = 0
                      \/ \E i \in DOMAIN agreed[b] :
                           /\ BandReached(agreed[b], booking[b].hours, agreed[b][i])
                           /\ booking[b].refund = CalculateRefund(agreed[b][i], b)
    BY DEF OwnTermsApply
  <2>1. /\ booking[b] \in BookingRow /\ agreed[b] \in Seq(Tier)
        /\ booking[b].version \in DOMAIN versions /\ agreed[b] = versions[booking[b].version]
        /\ booking[b].refund = CalculateRefund(TierFor(agreed[b], booking[b].hours), b)
    BY <1>1 DEF TermsInv, TypeOK, AgreedIsSaved, Pinned, RefundCalculated
  <2>2. booking[b].hours \in Int
    <3>1. booking[b].hours \in HoursLeft \cup {0}
      BY <2>1 DEF BookingRow
    <3>2. HoursLeft \cup {0} \subseteq Int
      BY ConstantsAssumption
    <3>3. QED
      BY <3>1, <3>2
  <2>3. CASE booking[b].hours < 0
    <3>1. \A i \in DOMAIN agreed[b] : ~(booking[b].hours >= agreed[b][i].before)
      <4> TAKE i \in DOMAIN agreed[b]
      <4>1. agreed[b][i] \in Tier
        BY <2>1
      <4>2. agreed[b][i].before \in Nat
        BY <4>1 DEF Tier
      <4>3. QED
        BY <2>2, <2>3, <4>2
    <3>2. booking[b].refund = 0
      BY <2>1, <2>2, <3>1, TierForNone, NothingWithoutTier
    <3>3. QED
      BY <2>3, <3>2
  <2>4. CASE ~(booking[b].hours < 0)
    <3>1. PICK r \in DOMAIN agreed[b] : agreed[b][r].before = 0
      BY <1>1, <2>1 DEF TermsInv, VersionsReachZero
    <3>2. booking[b].hours >= agreed[b][r].before
      BY <2>2, <2>4, <3>1
    <3>3. PICK i \in DOMAIN agreed[b] :
            /\ TierFor(agreed[b], booking[b].hours) = agreed[b][i]
            /\ BandReached(agreed[b], booking[b].hours, agreed[b][i])
      BY <2>1, <2>2, <3>2, TierForReached
    <3>4. QED
      BY <2>1, <3>3
  <2>5. QED
    BY <2>3, <2>4
<1>2. QED
  BY <1>1, TermsInvHolds, PTL

\* refund.ts, calculateRefund: where a band gives everything back, the two halves,
\* each rounded by itself, come to the total or to one unit more.
THEOREM FullBandAlwaysPaysAllBack == Spec => []FullBandPaysAllBack
<1>1. ASSUME TermsInv PROVE FullBandPaysAllBack
  <2> SUFFICES ASSUME NEW b \in Bookings, booking[b].status = "cancelled",
                      TierFor(agreed[b], booking[b].hours).room = 100,
                      TierFor(agreed[b], booking[b].hours).equipment = 100
               PROVE  booking[b].refund \in booking[b].total .. booking[b].total + 1
    BY DEF FullBandPaysAllBack
  <2>1. /\ booking[b] \in BookingRow
        /\ booking[b].refund = RoundHalfUp(RoomShare(b) * 100, 200)
                                 + RoundHalfUp(EquipmentShare(b) * 100, 200)
    BY <1>1 DEF TermsInv, TypeOK, RefundCalculated, CalculateRefund
  <2>2. /\ RoomShare(b) \in Nat /\ EquipmentShare(b) \in Nat /\ booking[b].total \in Nat
        /\ RoomShare(b) + EquipmentShare(b) = 2 * booking[b].total
    BY <2>1, AmountTypes
  <2>3. ASSUME NEW n \in Nat PROVE RoundHalfUp(n * 100, 200) = (n + 1) \div 2
    BY SMT DEF RoundHalfUp
  <2>4. booking[b].refund = ((RoomShare(b) + 1) \div 2) + ((EquipmentShare(b) + 1) \div 2)
    BY <2>1, <2>2, <2>3
  <2>5. ASSUME NEW x \in Nat, NEW y \in Nat, NEW t \in Nat, x + y = 2 * t
        PROVE  ((x + 1) \div 2) + ((y + 1) \div 2) \in t .. t + 1
    BY <2>5, SMT
  <2>6. QED
    BY <2>2, <2>4, <2>5
<1>2. QED
  BY <1>1, TermsInvHolds, PTL

\* A share of a half is at most the half, after rounding too.
LEMMA ShareOfHalf ==
  ASSUME NEW n \in Nat, NEW percent \in 0..100
  PROVE  RoundHalfUp(n * percent, 200) \in Int /\ RoundHalfUp(n * percent, 200) <= (n + 1) \div 2
<1>1. n * percent \in Nat /\ n * percent <= n * 100
  <2>1. n * percent \in Nat
    BY NatProduct
  <2>2. n * (100 - percent) \in Nat
    BY NatProduct
  <2>3. n * (100 - percent) = n * 100 - n * percent
    BY <2>1
  <2>4. QED
    BY <2>1, <2>2, <2>3
<1>2. ASSUME NEW m \in Nat, m <= n * 100
      PROVE  ((2 * m) + 200) \div 400 \in Int /\ ((2 * m) + 200) \div 400 <= (n + 1) \div 2
  BY <1>2, SMT
<1>3. RoundHalfUp(n * percent, 200) = ((2 * (n * percent)) + 200) \div 400
  BY <1>1 DEF RoundHalfUp
<1>4. QED
  BY <1>1, <1>2, <1>3

\* How far RefundWithinCharge can be missed: rounding the two halves by
\* themselves costs at most one minor unit, in any band.
RefundNearCharge ==
  \A b \in Bookings : booking[b].status = "cancelled" => booking[b].refund <= booking[b].total + 1

\* refund.ts, calculateRefund: no rate, duration or band makes a refund exceed
\* the charge by more than one minor unit.
THEOREM RefundAlwaysNearCharge == Spec => []RefundNearCharge
<1>1. ASSUME TermsInv PROVE RefundNearCharge
  <2> SUFFICES ASSUME NEW b \in Bookings, booking[b].status = "cancelled"
               PROVE  booking[b].refund <= booking[b].total + 1
    BY DEF RefundNearCharge
  <2> DEFINE tier == TierFor(agreed[b], booking[b].hours)
  <2>1. booking[b] \in BookingRow /\ agreed[b] \in Seq(Tier)
        /\ booking[b].refund = CalculateRefund(tier, b)
    BY <1>1 DEF TermsInv, TypeOK, RefundCalculated
  <2>2. booking[b].hours \in Int
    <3>1. booking[b].hours \in HoursLeft \cup {0}
      BY <2>1 DEF BookingRow
    <3>2. HoursLeft \cup {0} \subseteq Int
      BY ConstantsAssumption
    <3>3. QED
      BY <3>1, <3>2
  <2>3. tier \in Tier
    BY <2>1, <2>2, TierForType
  <2>4. /\ RoomShare(b) \in Nat /\ EquipmentShare(b) \in Nat /\ booking[b].total \in Nat
        /\ RoomShare(b) + EquipmentShare(b) = 2 * booking[b].total
    BY <2>1, AmountTypes
  <2> HIDE DEF tier
  <2>5. tier.room \in 0..100 /\ tier.equipment \in 0..100
    BY <2>3 DEF Tier
  <2>6. PICK x \in Int, y \in Int :
          /\ booking[b].refund = x + y
          /\ x <= (RoomShare(b) + 1) \div 2 /\ y <= (EquipmentShare(b) + 1) \div 2
    BY <2>1, <2>4, <2>5, ShareOfHalf DEF CalculateRefund
  <2>7. ASSUME NEW r \in Nat, NEW e \in Nat, NEW t \in Nat, r + e = 2 * t
        PROVE  /\ (r + 1) \div 2 \in Int /\ (e + 1) \div 2 \in Int
               /\ ((r + 1) \div 2) + ((e + 1) \div 2) <= t + 1
    BY <2>7, SMT
  <2>8. QED
    BY <2>4, <2>6, <2>7
<1>2. QED
  BY <1>1, TermsInvHolds, PTL
=============================================================================
