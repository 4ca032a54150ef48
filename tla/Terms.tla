------------------------------- MODULE Terms -------------------------------
(***************************************************************************)
(* What a booking costs and what cancelling it pays back: the price frozen *)
(* at hold, the refund policy version captured with it (4B), and the       *)
(* console changing rates and policies meanwhile.                          *)
(*                                                                         *)
(* Money is in minor units, rates are per hour and durations are counted   *)
(* in half hours, so amounts before rounding are counted in halves.        *)
(***************************************************************************)
EXTENDS Integers, FiniteSets, Sequences

CONSTANTS
  Bookings,
  RoomRates, TypeRates,  \* values rates are set to
  Quantities,            \* units of the equipment type a booking hires
  Durations,             \* durations, in half hours
  Policies,              \* refund policies a venue publishes
  Default,               \* the platform's policy, version 1
  HoursLeft,             \* whole hours to the start when a cancel arrives
  MaxVersions            \* bound on versions published

Tier == [before: Nat, room: 0..100, equipment: 0..100]

ASSUME ConstantsAssumption ==
  /\ RoomRates \subseteq Nat /\ TypeRates \subseteq Nat
  /\ Quantities \subseteq Nat /\ Durations \subseteq 2..16
  /\ \A p \in Policies \cup {Default} :
       /\ p \in Seq(Tier)
       /\ \E i \in DOMAIN p : p[i].before = 0
  /\ HoursLeft \subseteq Int
  /\ MaxVersions \in Nat \ {0}

VARIABLES
  versions,  \* refund_policy_versions, in the order they were inserted
  current,   \* venues.current_policy_version_id; 0 is null
  roomRate,  \* rooms.hourly_rate_minor
  typeRate,  \* equipment_types.hourly_rate_minor
  booking,   \* bookings and their line item
  agreed     \* history: the policy in force when the hold asked

vars == <<versions, current, roomRate, typeRate, booking, agreed>>

-----------------------------------------------------------------------------
(* Arithmetic *)

\* Math.round of n / d, for n >= 0.
RoundHalfUp(n, d) == (2 * n + d) \div (2 * d)

\* Halves of a minor unit, before rounding.
EquipmentPortion(b) == booking[b].quantity * booking[b].lineRate * booking[b].halfHours
RoomPrice(b)        == booking[b].roomRate * booking[b].halfHours

PriceOf(b) == RoundHalfUp(RoomPrice(b) + EquipmentPortion(b), 2)

EquipmentShare(b) ==
  IF EquipmentPortion(b) < 2 * booking[b].total THEN EquipmentPortion(b)
                                                ELSE 2 * booking[b].total

\* Seeded fault: the room half is computed again from the room's rate.
RoomShareRecomputed(b) == roomRate * booking[b].halfHours

\* splitTotal: by subtraction.
RoomShare(b) == 2 * booking[b].total - EquipmentShare(b)

\* The bands that come before the i-th in descending order of hours_before; the
\* sort is stable.
Ahead(tiers, i) ==
  {j \in DOMAIN tiers : \/ tiers[j].before > tiers[i].before
                        \/ tiers[j].before = tiers[i].before /\ j < i}

\* The bands sorted: the k-th has k - 1 ahead of it.
Ordered(tiers) ==
  [k \in DOMAIN tiers |->
     tiers[CHOOSE i \in DOMAIN tiers : Cardinality(Ahead(tiers, i)) = k - 1]]

NoTier == [before |-> 0, room |-> 0, equipment |-> 0]

\* tierFor: the first band, from the highest threshold down, that is reached.
TierFor(tiers, hours) ==
  LET ordered == Ordered(tiers)
      reached == {k \in DOMAIN ordered : hours >= ordered[k].before}
  IN  IF reached = {} THEN NoTier
                      ELSE ordered[CHOOSE k \in reached : \A l \in reached : k <= l]

\* calculateRefund: each half is rounded by itself.
CalculateRefund(tier, b) ==
  RoundHalfUp(RoomShare(b) * tier.room, 200)
    + RoundHalfUp(EquipmentShare(b) * tier.equipment, 200)

-----------------------------------------------------------------------------
(* Actions *)

NoBooking ==
  [status |-> "none", roomRate |-> 0, lineRate |-> 0, quantity |-> 0,
   halfHours |-> 0, version |-> 0, total |-> 0, hours |-> 0, refund |-> 0]

Init ==
  /\ versions = <<Default>>
  /\ current = 0
  /\ roomRate \in RoomRates
  /\ typeRate \in TypeRates
  /\ booking = [b \in Bookings |-> NoBooking]
  /\ agreed = [b \in Bookings |-> Default]

\* Seeded fault: the pointer moves and the insert is lost.
PublishPolicyHalf(tiers) ==
  /\ Len(versions) < MaxVersions
  /\ current' = Len(versions) + 1
  /\ UNCHANGED <<versions, roomRate, typeRate, booking, agreed>>

\* PATCH /venues/:id/policy: an edit is an insert.
PublishPolicy(tiers) ==
  /\ Len(versions) < MaxVersions
  /\ versions' = Append(versions, Ordered(tiers))
  /\ current' = Len(versions) + 1
  /\ UNCHANGED <<roomRate, typeRate, booking, agreed>>

TypeLocked == \E b \in Bookings : booking[b].status \in {"priced", "pinned"}

\* PATCH /rooms/:id, which no hold's read waits for.
EditRoomRate(rate) ==
  /\ roomRate' = rate
  /\ UNCHANGED <<versions, current, typeRate, booking, agreed>>

\* PATCH /equipment/:id, which waits for the type's row.
EditTypeRate(rate) ==
  /\ ~TypeLocked
  /\ typeRate' = rate
  /\ UNCHANGED <<versions, current, roomRate, booking, agreed>>

\* createHold, first read: the room and its rate.
ReadRoom(b, quantity, halfHours) ==
  /\ booking[b].status = "none"
  /\ booking' = [booking EXCEPT ![b] =
       [@ EXCEPT !.status = "read", !.roomRate = roomRate,
                 !.quantity = quantity, !.halfHours = halfHours]]
  /\ UNCHANGED <<versions, current, roomRate, typeRate, agreed>>

\* lockTypes: the rate of the equipment, under its lock.
LockType(b) ==
  /\ booking[b].status = "read"
  /\ ~TypeLocked
  /\ booking' = [booking EXCEPT ![b] =
       [@ EXCEPT !.status = "priced", !.lineRate = typeRate]]
  /\ UNCHANGED <<versions, current, roomRate, typeRate, agreed>>

\* currentPolicyVersion: the venue's, or the platform's own.
CurrentPolicyVersion == IF current = 0 THEN 1 ELSE current

\* createHold's own read of it; a policy published from here on is for others.
ReadPolicy(b) ==
  /\ booking[b].status = "priced"
  /\ booking' = [booking EXCEPT ![b] =
       [@ EXCEPT !.status = "pinned", !.version = CurrentPolicyVersion]]
  /\ agreed' = [agreed EXCEPT ![b] = versions[CurrentPolicyVersion]]
  /\ UNCHANGED <<versions, current, roomRate, typeRate>>

\* The version, the total and the line item go in with the booking.
InsertHold(b) ==
  /\ booking[b].status = "pinned"
  /\ booking' = [booking EXCEPT ![b] = [@ EXCEPT !.status = "held", !.total = PriceOf(b)]]
  /\ UNCHANGED <<versions, current, roomRate, typeRate, agreed>>

\* The total is captured and the booking confirmed (Payments).
Confirm(b) ==
  /\ booking[b].status = "held"
  /\ booking' = [booking EXCEPT ![b].status = "confirmed"]
  /\ UNCHANGED <<versions, current, roomRate, typeRate, agreed>>

\* Seeded fault: the terms are the venue's present ones.
TermsOfVenue(b) == versions[CurrentPolicyVersion]

\* tiersOf, through the booking's own version.
TermsOf(b) == versions[booking[b].version]

\* cancel of a captured booking: intendRefund, or nothingDue when it is zero.
Cancel(b, hours) ==
  /\ booking[b].status = "confirmed"
  /\ booking' = [booking EXCEPT ![b] =
       [@ EXCEPT !.status = "cancelled", !.hours = hours,
                 !.refund = CalculateRefund(TierFor(TermsOf(b), hours), b)]]
  /\ UNCHANGED <<versions, current, roomRate, typeRate, agreed>>

Next ==
  \/ \E p \in Policies : PublishPolicy(p)
  \/ \E rate \in RoomRates : EditRoomRate(rate)
  \/ \E rate \in TypeRates : EditTypeRate(rate)
  \/ \E b \in Bookings :
       \/ \E q \in Quantities, h \in Durations : ReadRoom(b, q, h)
       \/ LockType(b) \/ ReadPolicy(b) \/ InsertHold(b) \/ Confirm(b)
       \/ \E hours \in HoursLeft : Cancel(b, hours)

Spec == Init /\ [][Next]_vars

-----------------------------------------------------------------------------
(* Properties *)

BookingRow ==
  [status: {"none", "read", "priced", "pinned", "held", "confirmed", "cancelled"},
   roomRate: RoomRates \cup {0}, lineRate: TypeRates \cup {0},
   quantity: Quantities \cup {0}, halfHours: Durations \cup {0},
   version: 0..MaxVersions, total: Nat, hours: HoursLeft \cup {0}, refund: Nat]

Pinned(b) == booking[b].status \in {"pinned", "held", "confirmed", "cancelled"}

\* Every variable has its type, and a booking that has read it a policy version.
TypeOK ==
  /\ versions \in Seq(Seq(Tier)) /\ Len(versions) \in 1..MaxVersions
  /\ current \in 0..Len(versions)
  /\ roomRate \in RoomRates /\ typeRate \in TypeRates
  /\ booking \in [Bookings -> BookingRow]
  /\ agreed \in [Bookings -> Seq(Tier)]
  /\ \A b \in Bookings : Pinned(b) => booking[b].version \in DOMAIN versions

\* The band with the highest threshold reached, told without an order.
BandReached(tiers, hours, t) ==
  /\ t \in {tiers[i] : i \in DOMAIN tiers}
  /\ hours >= t.before
  /\ \A i \in DOMAIN tiers : hours >= tiers[i].before => t.before >= tiers[i].before

\* 4B: what a cancellation pays is decided by the terms in force when the hold
\* asked for them, whatever the venue published and however its rates moved since;
\* after the start nothing is paid.
OwnTermsApply ==
  \A b \in Bookings : booking[b].status = "cancelled" =>
    \/ /\ booking[b].hours < 0
       /\ booking[b].refund = 0
    \/ \E i \in DOMAIN agreed[b] :
         /\ BandReached(agreed[b], booking[b].hours, agreed[b][i])
         /\ booking[b].refund = CalculateRefund(agreed[b][i], b)

\* A cancellation in a band that gives everything back gives back at least all
\* that was paid, and rounding adds no more than a unit.
FullBandPaysAllBack ==
  \A b \in Bookings :
    LET tier == TierFor(agreed[b], booking[b].hours)
    IN  booking[b].status = "cancelled" /\ tier.room = 100 /\ tier.equipment = 100 =>
          booking[b].refund \in booking[b].total .. booking[b].total + 1

\* refund.ts says of splitTotal that it subtracts so that the halves cannot
\* miss the total by a minor unit: a refund is then never above the charge.
RefundWithinCharge ==
  \A b \in Bookings : booking[b].status = "cancelled" => booking[b].refund <= booking[b].total

-----------------------------------------------------------------------------
(* The inductive invariant *)

\* What was agreed is the version the booking has; versions are only
\* added, so the link cannot come to mean something else.
AgreedIsSaved ==
  \A b \in Bookings : Pinned(b) => agreed[b] = versions[booking[b].version]

\* Every version a booking may have ends in a band that needs no hours.
VersionsReachZero ==
  \A v \in DOMAIN versions : \E i \in DOMAIN versions[v] : versions[v][i].before = 0

\* A refund is the one calculated when the booking was cancelled.
RefundCalculated ==
  \A b \in Bookings : booking[b].status = "cancelled" =>
    booking[b].refund = CalculateRefund(TierFor(agreed[b], booking[b].hours), b)

TermsInv == TypeOK /\ AgreedIsSaved /\ VersionsReachZero /\ RefundCalculated
=============================================================================
